------------------------------ MODULE JobQueue ------------------------------
(***************************************************************************)
(* The durable job queue of RepricerX: the table background_jobs, the      *)
(* repository that claims and settles its rows                             *)
(* (internal/repository/background_jobs_pg.go) and the worker process that *)
(* executes them (cmd/worker/main.go).  One worker process runs            *)
(* WORKER_CONCURRENCY goroutines (Slots).  Every SQL statement is one      *)
(* action, so statements of different goroutines interleave freely.  What  *)
(* a handler does is left open here: HandlerReturns picks any outcome the  *)
(* process*Job function of that kind can reach.  PlanFlow composes this    *)
(* module with the two handlers that work on price plans.                  *)
(*                                                                         *)
(* Time appears only through two events: a row's run_at comes due, and a   *)
(* row's lock_expires_at passes.  runAt[j] is the rank of the row among    *)
(* the rows already due (ORDER BY run_at); 0 while run_at is in the        *)
(* future.                                                                 *)
(***************************************************************************)
EXTENDS Integers

CONSTANTS
    Jobs,          \* identities of the rows of background_jobs
    Slots,         \* goroutines of the worker process
    NoJob,         \* what an idle slot holds
    Kind,          \* job_type of each row
    Priority,      \* the column priority
    MaxAttempts,   \* the column max_attempts
    Overrun        \* jobs whose handler may still run when WORKER_LOCK_TTL ends

Kinds == {"sku_import", "price_recalculation", "price_dispatch",
          "competitor_refresh", "notification"}

ASSUME QueueAssumption ==
    /\ NoJob \notin Jobs
    /\ Kind \in [Jobs -> Kinds]
    /\ Priority \in [Jobs -> Nat]
    /\ MaxAttempts \in [Jobs -> Nat \ {0}]
    /\ Overrun \subseteq Jobs

VARIABLES
    status,     \* column status, "absent" before the INSERT
    attempts,   \* column attempts
    runAt,      \* rank of the row among those whose run_at has passed, or 0
    lease,      \* "none" (no lock), "live", or "expired" (lock_expires_at < NOW())
    clock,      \* the last rank given out
    holds,      \* the job a slot executes
    tryNo,      \* job.Attempts as ClaimNext returned it to the slot
    outcome     \* what the slot's handler decided; verdict "none" while it runs

rowVars  == <<status, attempts, runAt, lease, clock>>
slotVars == <<holds, tryNo, outcome>>
vars     == <<status, attempts, runAt, lease, clock, holds, tryNo, outcome>>

Waiting  == {"pending", "retrying"}
Terminal == {"succeeded", "failed", "canceled"}
Statuses == {"absent", "running"} \cup Waiting \cup Terminal

\* A verdict, and the result document the terminal save carries.
Outcome == [verdict : {"none", "succeed", "retry", "fail"},
            result  : {"json", "nil"}]
Undecided   == [verdict |-> "none", result |-> "nil"]
WithJSON(v) == [verdict |-> v, result |-> "json"]
WithNil(v)  == [verdict |-> v, result |-> "nil"]

Init ==
    /\ status   = [j \in Jobs |-> "absent"]
    /\ attempts = [j \in Jobs |-> 0]
    /\ runAt    = [j \in Jobs |-> 0]
    /\ lease    = [j \in Jobs |-> "none"]
    /\ clock    = 0
    /\ holds    = [s \in Slots |-> NoJob]
    /\ tryNo    = [s \in Slots |-> 0]
    /\ outcome  = [s \in Slots |-> Undecided]

-----------------------------------------------------------------------------
(* The table: INSERT, and the two passages of time.                        *)

\* Enqueue: a fresh row, due at once because no caller sets RunAt.
Enqueue(j) ==
    /\ status[j] = "absent"
    /\ status' = [status EXCEPT ![j] = "pending"]
    /\ clock'  = clock + 1
    /\ runAt'  = [runAt EXCEPT ![j] = clock + 1]
    /\ UNCHANGED <<attempts, lease, slotVars>>

\* The backoff of a retried row ends: run_at <= NOW() becomes true.
RunAtPasses(j) ==
    /\ status[j] \in Waiting
    /\ runAt[j] = 0
    /\ clock' = clock + 1
    /\ runAt' = [runAt EXCEPT ![j] = clock + 1]
    /\ UNCHANGED <<status, attempts, lease, slotVars>>

\* lock_expires_at passes.  A handler whose context times out before
\* WORKER_LOCK_TTL has returned and saved by then; the others (Overrun) may
\* still be running, since nothing extends the lock while a handler runs.
LeaseExpires(j) ==
    /\ status[j] = "running"
    /\ lease[j] = "live"
    /\ j \in Overrun \/ \A s \in Slots : holds[s] # j
    /\ lease' = [lease EXCEPT ![j] = "expired"]
    /\ UNCHANGED <<status, attempts, runAt, clock, slotVars>>

-----------------------------------------------------------------------------
(* ClaimNext.                                                              *)

\* Mutants of Claimable: the lock is not looked at; interrupted rows are left;
\* retried rows are left.
ClaimableWhileLocked(j) ==
    \/ status[j] \in Waiting /\ runAt[j] > 0
    \/ status[j] = "running" /\ attempts[j] < MaxAttempts[j]
ClaimableOnceOnly(j) == status[j] \in Waiting /\ runAt[j] > 0
ClaimableNotRetried(j) ==
    \/ status[j] = "pending" /\ runAt[j] > 0
    \/ /\ status[j] = "running"
       /\ lease[j] = "expired"
       /\ attempts[j] < MaxAttempts[j]

\* The WHERE clause: due rows, and running rows whose lock has expired and
\* that have an attempt left.
Claimable(j) ==
    \/ status[j] \in Waiting /\ runAt[j] > 0
    \/ /\ status[j] = "running"
       /\ lease[j] = "expired"
       /\ attempts[j] < MaxAttempts[j]

\* ORDER BY priority DESC, run_at ASC
Precedes(j, k) ==
    \/ Priority[j] > Priority[k]
    \/ Priority[j] = Priority[k] /\ runAt[j] <= runAt[k]

IsHead(j) == Claimable(j) /\ \A k \in Jobs : Claimable(k) => Precedes(j, k)

\* Mutant of ClaimAllowed: no CHECK on the column.
ClaimUnchecked(j) == status[j] = status[j]

\* The UPDATE satisfies background_jobs_attempts_check.  When the head row
\* does not, ClaimNext returns an error, the loop sleeps and asks again, and
\* no row changes: that is no step at all.
ClaimAllowed(j) == attempts[j] + 1 <= MaxAttempts[j]

\* Mutant of NextAttempt: the claim does not count.
AttemptNotCounted(j) == attempts[j]

\* attempts = attempts + 1, returned to the worker as job.Attempts.
NextAttempt(j) == attempts[j] + 1

Claim(s) ==
    /\ holds[s] = NoJob
    /\ \E j \in Jobs :
        /\ IsHead(j)
        /\ ClaimAllowed(j)
        /\ status'   = [status EXCEPT ![j] = "running"]
        /\ attempts' = [attempts EXCEPT ![j] = NextAttempt(j)]
        /\ lease'    = [lease EXCEPT ![j] = "live"]
        /\ holds'    = [holds EXCEPT ![s] = j]
        /\ tryNo'    = [tryNo EXCEPT ![s] = NextAttempt(j)]
    /\ UNCHANGED <<runAt, clock, outcome>>

-----------------------------------------------------------------------------
(* The handler's verdict, by job type (processJob and process*Job).        *)

\* sku_import: Retryable is also returned when the import log could not be
\* finished, whatever the attempt; a job whose import cannot be marked
\* running fails without a result document.
ImportOutcomes ==
    {WithJSON("succeed"), WithNil("retry"), WithJSON("fail"), WithNil("fail")}

\* Mutant of OtherOutcomes: an error is always retried.
OutcomesUnguarded(j, n) == {WithNil("succeed"), WithNil("retry")}

\* Every other kind saves with a nil result.  An error is retried while
\* job.Attempts < job.MaxAttempts.
OtherOutcomes(j, n) ==
    {WithNil("succeed")}
    \cup (IF n < MaxAttempts[j] THEN {WithNil("retry")} ELSE {WithNil("fail")})
    \cup (IF Kind[j] \in {"price_dispatch", "competitor_refresh"}
          THEN {WithNil("fail")}      \* ErrUnauthorized, ErrCompetitorNotFound
          ELSE {})

Outcomes(j, n) ==
    IF Kind[j] = "sku_import" THEN ImportOutcomes ELSE OtherOutcomes(j, n)

Decide(s, o) ==
    /\ holds[s] # NoJob
    /\ outcome[s] = Undecided
    /\ outcome' = [outcome EXCEPT ![s] = o]
    /\ UNCHANGED rowVars
    /\ UNCHANGED <<holds, tryNo>>

HandlerReturns(s) ==
    /\ holds[s] # NoJob
    /\ \E o \in Outcomes(holds[s], tryNo[s]) : Decide(s, o)

-----------------------------------------------------------------------------
(* Settling the row.  The statements match on id and status='running' only,*)
(* not on locked_by; when no row matches the worker logs ErrNotFound.      *)

Release(s) ==
    /\ holds'   = [holds EXCEPT ![s] = NoJob]
    /\ tryNo'   = [tryNo EXCEPT ![s] = 0]
    /\ outcome' = [outcome EXCEPT ![s] = Undecided]

\* Retry: run_at moves to the future, the lock is dropped.
SaveRetry(s) ==
    LET j == holds[s] IN
    /\ j # NoJob
    /\ outcome[s].verdict = "retry"
    /\ IF status[j] = "running"
       THEN /\ status' = [status EXCEPT ![j] = "retrying"]
            /\ runAt'  = [runAt EXCEPT ![j] = 0]
            /\ lease'  = [lease EXCEPT ![j] = "none"]
       ELSE UNCHANGED <<status, runAt, lease>>
    /\ Release(s)
    /\ UNCHANGED <<attempts, clock>>

\* The shape of Succeed and Fail.  A nil result becomes SQL NULL, which the
\* column result JSONB NOT NULL rejects: the statement fails and the row
\* stays as it was.
SettleRow(s, st) ==
    LET j == holds[s] IN
    /\ IF status[j] = "running" /\ outcome[s].result = "json"
       THEN /\ status' = [status EXCEPT ![j] = st]
            /\ lease'  = [lease EXCEPT ![j] = "none"]
       ELSE UNCHANGED <<status, lease>>
    /\ Release(s)
    /\ UNCHANGED <<attempts, runAt, clock>>

SaveSucceed(s) ==
    /\ holds[s] # NoJob
    /\ outcome[s].verdict = "succeed"
    /\ SettleRow(s, "succeeded")

SaveFail(s) ==
    /\ holds[s] # NoJob
    /\ outcome[s].verdict = "fail"
    /\ SettleRow(s, "failed")

\* The statement does not reach the database: logged, the goroutine ends.
SaveLost(s) ==
    /\ holds[s] # NoJob
    /\ outcome[s] # Undecided
    /\ Release(s)
    /\ UNCHANGED rowVars

\* Mutant of CancelImport: the UPDATE of the job row has no condition.
CancelAnyImport(j) ==
    /\ Kind[j] = "sku_import"
    /\ status[j] # "absent"
    /\ status' = [status EXCEPT ![j] = "canceled"]
    /\ UNCHANGED <<attempts, runAt, lease, clock, slotVars>>

\* importLogPg.Cancel touches the job row only while it waits.
CancelImport(j) ==
    /\ Kind[j] = "sku_import"
    /\ status[j] \in Waiting
    /\ status' = [status EXCEPT ![j] = "canceled"]
    /\ UNCHANGED <<attempts, runAt, lease, clock, slotVars>>

\* The process dies, or WORKER_SHUTDOWN_TIMEOUT ends with goroutines busy.
Crash ==
    /\ \E s \in Slots : holds[s] # NoJob
    /\ holds'   = [s \in Slots |-> NoJob]
    /\ tryNo'   = [s \in Slots |-> 0]
    /\ outcome' = [s \in Slots |-> Undecided]
    /\ UNCHANGED rowVars

-----------------------------------------------------------------------------
TableStep == \E j \in Jobs :
    Enqueue(j) \/ RunAtPasses(j) \/ LeaseExpires(j) \/ CancelImport(j)

Save(s) == SaveRetry(s) \/ SaveSucceed(s) \/ SaveFail(s) \/ SaveLost(s)

WorkerStep == \E s \in Slots : Claim(s) \/ HandlerReturns(s) \/ Save(s)

Next == TableStep \/ WorkerStep \/ Crash

Spec == Init /\ [][Next]_vars

\* Clocks advance, the loop keeps polling, and every handler returns because
\* its context has a deadline; a save is tried once and may be lost.
Fairness ==
    /\ \A j \in Jobs : WF_vars(RunAtPasses(j)) /\ WF_vars(LeaseExpires(j))
    /\ \A s \in Slots : WF_vars(Claim(s)) /\ WF_vars(HandlerReturns(s))
                                          /\ WF_vars(Save(s))

FairSpec == Spec /\ Fairness

-----------------------------------------------------------------------------
(* Properties.                                                             *)

\* Types; attempts stays within background_jobs_attempts_check.
TypeOK ==
    /\ status   \in [Jobs -> Statuses]
    /\ attempts \in [Jobs -> Nat]
    /\ runAt    \in [Jobs -> Nat]
    /\ lease    \in [Jobs -> {"none", "live", "expired"}]
    /\ clock    \in Nat
    /\ holds    \in [Slots -> Jobs \cup {NoJob}]
    /\ tryNo    \in [Slots -> Nat]
    /\ outcome  \in [Slots -> Outcome]
    /\ \A j \in Jobs : attempts[j] <= MaxAttempts[j]

\* Two goroutines never execute the same attempt of a job, not even when a
\* lock expires under a running handler and another goroutine claims the row.
AttemptRunsOnce ==
    \A s, t \in Slots :
        /\ holds[s] = holds[t]
        /\ holds[s] # NoJob
        /\ tryNo[s] = tryNo[t]
        => s = t

\* A goroutine whose job cannot outlive its lock is the current owner of the
\* row, so the save that matches on id and status alone (background_jobs_pg
\* Succeed, Retry, Fail) settles the attempt it ran and no other.
HolderIsCurrent ==
    \A s \in Slots :
        holds[s] \in Jobs \ Overrun =>
            /\ status[holds[s]] = "running"
            /\ lease[holds[s]] = "live"
            /\ attempts[holds[s]] = tryNo[s]

\* Such a job is executed by one goroutine at a time.
SoleHolder ==
    \A s, t \in Slots :
        holds[s] = holds[t] /\ holds[s] \in Jobs \ Overrun => s = t

\* Every kind that checks job.Attempts < job.MaxAttempts before Retry leaves a
\* waiting row with an attempt to spend, so that the next ClaimNext succeeds
\* (imports do not check, jobs whose lock was lost check a stale count).
WaitingHasAttemptLeft ==
    \A j \in Jobs \ Overrun :
        Kind[j] # "sku_import" /\ status[j] \in Waiting
            => attempts[j] < MaxAttempts[j]

\* A settled or canceled job never comes back to life, whichever goroutine
\* saves late.
TerminalIsFinal ==
    [][\A j \in Jobs : status[j] \in Terminal => status'[j] = status[j]]_vars

\* The head of the order has no attempt left, so that every ClaimNext violates
\* the CHECK and no job at all is claimed.  An import whose log could not be
\* finished is retried whatever its attempt, and a save that comes after its
\* lock has expired may retry a row another goroutine has claimed since.
QueueStuck == \E k \in Jobs : IsHead(k) /\ ~ClaimAllowed(k)

\* Unless the head of the queue comes to be a row without an attempt left, no
\* queued or retried job waits for ever, whatever overtakes it.
NoJobWaitsForever ==
    \A j \in Jobs : status[j] \in Waiting ~> status[j] \notin Waiting \/ QueueStuck

\* With the same exception, a running job with an attempt left is not lost with
\* the worker that held it: it is settled, rescheduled, or claimed again.
InterruptedJobResumes ==
    \A j \in Jobs : \A n \in 1..(MaxAttempts[j] - 1) :
        status[j] = "running" /\ attempts[j] = n
            ~> status[j] # "running" \/ attempts[j] > n \/ QueueStuck

\* The contract of processNotifierJob and its siblings, "nil -> Succeed": the
\* goroutine that saves a success leaves the job settled.
SuccessIsRecorded ==
    [][\A s \in Slots : SaveSucceed(s) => status'[holds[s]] \in Terminal]_vars
=============================================================================
