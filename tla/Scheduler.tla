------------------------------ MODULE Scheduler ------------------------------
(***************************************************************************)
(* The cron ticks of the worker's replicas (internal/scheduler) over the   *)
(* shops and their competitors: the recalculations by schedule, guarded by *)
(* a compare-and-set on last_recalc_at, and the refresh of stale           *)
(* competitors, guarded by an advisory lock (pkg/dblock).  Each replica    *)
(* reads the clock of its host; last_recalc_at is written with the clock   *)
(* of the database, which may be behind by lag minutes.  The other ticks   *)
(* are actions of PlanFlow, Notifier and Access.                           *)
(***************************************************************************)
EXTENDS Competitors

CONSTANTS
    Replicas,     \* processes that run the scheduler
    BatchSize,    \* competitors a tick takes (1000)
    Budgets       \* the lag of a behaviour and its bounds: minutes, requests
                  \* about shops and about competitors, and faults

ASSUME SchedulerAssumption ==
    /\ BatchSize \in Nat \ {0}
    /\ Budgets \subseteq [{"lag", "minutes", "shops", "comps", "faults"} -> Nat]

VARIABLES
    now,      \* the clock of the hosts, in minutes
    tick,     \* the tick a replica is in
    ticked,   \* the minute of a replica's last recalculation tick
    held,     \* how often the session that holds the refresh lock, in the
              \* pool of a replica, has taken it
    left,     \* what is left of the budget, and the lag
    \* Observed, never read by the program:
    runs,     \* how many recalculations were started for <<shop, due minute>>
    early     \* due minutes that were taken before the database reached them

schedVars == <<now, tick, ticked, held, left, runs, early>>
allVars   == <<shopVars, compVars, schedVars>>

NoTick == [stage |-> "none"]

\* The reading of the clock that a statement stores.
DbNow == now - left.lag

SchedulerInit ==
    /\ ShopsInit
    /\ CompetitorsInit
    /\ now = 0
    /\ tick  = [r \in Replicas |-> NoTick]
    /\ ticked = [r \in Replicas |-> -1]
    /\ held  = [r \in Replicas |-> 0]
    /\ left \in Budgets
    /\ runs  = <<>>
    /\ early = {}

Spend(what) ==
    /\ left[what] > 0
    /\ left' = [left EXCEPT ![what] = @ - 1]

MinutePasses ==
    /\ Spend("minutes")
    /\ now' = now + 1
    /\ UNCHANGED <<shopVars, compVars, tick, ticked, held, runs, early>>

-----------------------------------------------------------------------------
(* ScheduledRecalcTick.                                                    *)

\* spec.Next: the first minute of the schedule after t.
NextRun(cron, t) == (t \div cron + 1) * cron

\* The minute the tick would act on, or NoVal.
DueMinute(row, t) ==
    LET baseline == IF row.last = NoVal THEN row.created ELSE row.last
    IN  IF row.cron = BadCron \/ NextRun(row.cron, baseline) > t THEN NoVal
        ELSE NextRun(row.cron, baseline)

DueShops == {<<s, shop[s], DueMinute(shop[s], now)>> : s \in
                {t \in ListSchedulable : DueMinute(shop[t], now) # NoVal}}

\* The tick goes on with what is left of its list, or ends.
Proceed(r, todo) == tick' = [tick EXCEPT ![r] =
    IF todo = {} THEN NoTick ELSE [stage |-> "shops", todo |-> todo]]

\* ListSchedulable and the clock: a shop that is not due by then is skipped.
StartRecalcTick(r) ==
    /\ tick[r] = NoTick
    /\ ticked[r] < now
    /\ DueShops # {}
    /\ ticked' = [ticked EXCEPT ![r] = now]
    /\ Proceed(r, DueShops)
    /\ UNCHANGED <<shopVars, compVars, now, held, left, runs, early>>

\* One shop of the list: taken, unless another replica was first.
TakeShop(r) ==
    /\ tick[r].stage = "shops"
    /\ \E e \in tick[r].todo :
        LET s == e[1]  due == e[3]  rest == tick[r].todo \ {e} IN
        IF StillLast(s, e[2].last)
        THEN /\ TouchLastRecalcAt(s, DbNow)
             /\ early' = IF DbNow < due THEN early \cup {<<s, due>>} ELSE early
             /\ tick' = [tick EXCEPT ![r] = [stage |-> "recalculate", todo |-> rest,
                                             taken |-> <<s, due>>]]
        ELSE Proceed(r, rest) /\ UNCHANGED <<shop, early>>
    /\ UNCHANGED <<used, call, compVars, now, ticked, held, left, runs>>

\* pricing.Service.Recalculate starts a plan and its job (PlanFlow), unless
\* the shop is gone.
Recalculate(r) ==
    LET due == tick[r].taken IN
    /\ tick[r].stage = "recalculate"
    /\ runs' = IF shop[due[1]] = NoVal THEN runs
               ELSE [d \in DOMAIN runs \cup {due} |->
                        IF d # due THEN runs[d]
                        ELSE IF due \in DOMAIN runs THEN runs[due] + 1 ELSE 1]
    /\ Proceed(r, tick[r].todo)
    /\ UNCHANGED <<shopVars, compVars, now, ticked, held, left, early>>

\* A statement fails, or the tick's 30 seconds are over: the shop at hand is
\* left, with last_recalc_at as it is by then.
LoseShop(r) ==
    /\ Spend("faults")
    /\ \/ tick[r].stage = "recalculate" /\ Proceed(r, tick[r].todo)
       \/ /\ tick[r].stage = "shops"
          /\ \E e \in tick[r].todo : Proceed(r, tick[r].todo \ {e})
    /\ UNCHANGED <<shopVars, compVars, now, ticked, held, runs, early>>

-----------------------------------------------------------------------------
(* The advisory lock: it belongs to a session, not to a tick.              *)

LockFree == \A r \in Replicas : held[r] = 0

\* pg_try_advisory_lock: nobody has the lock, or the connection that the pool
\* hands out is the one that still has it.
TryAcquire(r) ==
    /\ LockFree \/ held[r] > 0
    /\ held' = [held EXCEPT ![r] = @ + 1]

release(r) == held' = [held EXCEPT ![r] = @ - 1]

\* A session that nobody uses ends when its connection is dropped, of age or
\* with its process, and its lock with it.
SessionEnds(r) ==
    /\ held[r] > 0
    /\ tick[r].stage # "refresh"
    /\ held' = [held EXCEPT ![r] = 0]
    /\ UNCHANGED <<shopVars, compVars, now, tick, ticked, left, runs, early>>

-----------------------------------------------------------------------------
(* CompetitorRefreshTick.                                                  *)

\* A tick that does not get the lock does nothing.
StartRefreshTick(r) ==
    /\ tick[r] = NoTick
    /\ TryAcquire(r)
    /\ \E list \in ListStaleForRefresh(BatchSize) :
           /\ list # <<>>
           /\ tick' = [tick EXCEPT ![r] = [stage |-> "refresh", todo |-> list]]
    /\ UNCHANGED <<shopVars, compVars, now, ticked, left, runs, early>>

\* One job per competitor, whether or not it has one already.
EnqueueNext(r) ==
    /\ tick[r].stage = "refresh"
    /\ tick[r].todo # <<>>
    /\ \E j \in JobIds : EnqueueRefresh(j, Head(tick[r].todo))
    /\ tick' = [tick EXCEPT ![r] = [tick[r] EXCEPT !.todo = Tail(@)]]
    /\ UNCHANGED <<shopVars, comp, checked, stale, check, overtaken,
                   now, ticked, held, left, runs, early>>

EndRefreshTick(r) ==
    /\ tick[r].stage = "refresh"
    /\ tick[r].todo = <<>>
    /\ release(r)
    /\ tick' = [tick EXCEPT ![r] = NoTick]
    /\ UNCHANGED <<shopVars, compVars, now, ticked, left, runs, early>>

\* An INSERT that fails; or an unlock that does, whose connection goes back to
\* the pool all the same.
LoseRefresh(r) ==
    /\ Spend("faults")
    /\ tick[r].stage = "refresh"
    /\ tick' = [tick EXCEPT ![r] = IF tick[r].todo = <<>> THEN NoTick
                                   ELSE [tick[r] EXCEPT !.todo = Tail(@)]]
    /\ UNCHANGED <<shopVars, compVars, now, ticked, held, runs, early>>

\* A replica dies in a tick.
Die(r) ==
    /\ Spend("faults")
    /\ tick[r] # NoTick
    /\ tick' = [tick EXCEPT ![r] = NoTick]
    /\ UNCHANGED <<shopVars, compVars, now, ticked, held, runs, early>>

-----------------------------------------------------------------------------
ShopRequest ==
    /\ Spend("shops")
    /\ \E s \in ShopIds :
        \/ CreateShop(s, now) /\ UNCHANGED compVars
        \/ \E c \in Clients : /\ BeginUpdate(c, s) \/ BeginTest(c, s) \/ BeginBackfill(c, s)
                              /\ UNCHANGED compVars
        \/ DeleteShop(s)
    /\ UNCHANGED <<now, tick, ticked, held, runs, early>>

ShopAnswer ==
    /\ \E c \in Clients : WriteUpdate(c) \/ WriteStatus(c) \/ WriteSealed(c) \/ LoseWrite(c)
    /\ UNCHANGED <<compVars, schedVars>>

CompetitorRequest ==
    /\ Spend("comps")
    /\ \E c \in CompIds :
        \/ \E t \in Targets : CreateCompetitor(c, t) \/ UpdateCompetitor(c, t)
        \/ DeleteCompetitor(c)
        \/ \E x \in Clients : RequestCheck(x, c)
    /\ UNCHANGED <<now, tick, ticked, held, runs, early>>

CheckStep ==
    /\ \/ \E x \in Clients : AnswerCheck(x)
       \/ \E j \in JobIds : ClaimRefresh(j) \/ FinishRefresh(j)
       \/ GoesStale
    /\ UNCHANGED schedVars

LoseOneCheck ==
    /\ Spend("faults")
    /\ \E x \in Checkers : LoseCheck(x)
    /\ UNCHANGED <<now, tick, ticked, held, runs, early>>

RecalcTick(r)  == StartRecalcTick(r) \/ TakeShop(r) \/ Recalculate(r)
RefreshTick(r) == StartRefreshTick(r) \/ EnqueueNext(r) \/ EndRefreshTick(r)

SchedulerNext ==
    \/ MinutePasses
    \/ ShopRequest \/ ShopAnswer
    \/ CompetitorRequest \/ CheckStep \/ LoseOneCheck
    \/ \E r \in Replicas : \/ RecalcTick(r) \/ LoseShop(r)
                           \/ RefreshTick(r) \/ LoseRefresh(r) \/ SessionEnds(r)
                           \/ Die(r)

SchedulerSpec == SchedulerInit /\ [][SchedulerNext]_allVars

\* Cron fires every half hour on every replica, a tick has a deadline, so has
\* a check; the worker claims every job in the end (NoJobWaitsForever of
\* JobQueue) and idle sessions are closed.
SchedulerFairness ==
    /\ \A r \in Replicas :
        /\ WF_allVars(RecalcTick(r) /\ tick[r] # NoTick)
        /\ WF_allVars(RefreshTick(r))
        /\ WF_allVars(SessionEnds(r))
    /\ \A j \in JobIds :
        /\ WF_allVars(ClaimRefresh(j) /\ UNCHANGED schedVars)
        /\ WF_allVars(FinishRefresh(j) /\ UNCHANGED schedVars)

FairSchedulerSpec == SchedulerSpec /\ SchedulerFairness

-----------------------------------------------------------------------------
(* Properties.                                                             *)

\* Types; a target stands at most once per product and marketplace; a price is
\* offered only by a row whose last check went well, and a row that was never
\* checked has neither price nor verdict.
ScheduleTypeOK ==
    /\ shop \in [ShopIds -> ShopRow(Int) \cup {NoVal}]
    /\ comp \in [CompIds -> CompRow \cup {NoVal}]
    /\ \A c \in CompIds : comp[c] # NoVal =>
        /\ \A d \in Siblings(c) \ {c} :
              <<comp[d].market, comp[d].target>> # <<comp[c].market, comp[c].target>>
        /\ comp[c].price # NoVal => comp[c].status = "ok"
        /\ Never(c) <=> comp[c].status = "pending"
    /\ stale \subseteq Verified
    /\ job \in [JobIds -> JobRow \cup {NoVal}]
    /\ Cardinality({r \in Replicas : held[r] > 0}) <= 1

\* A due minute of a schedule starts one recalculation at most, however many
\* replicas tick and whatever requests write the row meanwhile, as long as the
\* database's clock has reached that minute when it is taken
\* (shopsPg.TouchLastRecalcAt).
ScheduledOnce == \A due \in DOMAIN runs : runs[due] > 1 => due \in early

\* There are two ways for the price of another product to be offered to the
\* strategies: the target was changed to the other marketplace's, or under a
\* check that was under way (Update against Refresh).
QuotesMatchTarget ==
    \A c \in OfferedPrices :
        \/ comp[c].price = comp[c].target
        \/ comp[c].target.market # comp[c].market
        \/ c \in overtaken

\* Waiting for the refresh: never checked, or last checked too long ago.
Unverified(c) ==
    /\ comp[c] # NoVal
    /\ \/ comp[c].status = "pending"
       \/ comp[c].status = "ok" /\ c \in stale

\* Every competitor that waits for the refresh gets a verdict, whichever
\* replica dies, whatever lock is left behind and however often a check is
\* lost (CompetitorRefreshTick, ListStaleForRefresh).
StaleIsRechecked == \A c \in CompIds : Unverified(c) ~> ~Unverified(c)
=============================================================================
