# A formal model of RepricerX

RepricerX reprices the goods that a seller offers on Wildberries and Ozon. A
user connects a shop, imports its products, assigns pricing strategies to them
and has the prices recalculated, reviewed and sent to the marketplace, by hand
or on a schedule. This directory holds TLA+ modules of the parts of the program
that decide something, configurations that check them with TLC, and theorems
about them that TLAPS proves. Paths below are relative to the repository's root.

## 1. Inventory

The program is four processes (`cmd/api`, `cmd/worker`, `cmd/scheduler`,
`cmd/bot`) that share one PostgreSQL database and, optionally, one Redis. They
never call each other: the API and the scheduler insert rows of
`background_jobs`, the worker claims and executes them.

| component | state | operations | what is hard | what makes it correct |
|---|---|---|---|---|
| Job queue (`internal/repository/background_jobs_pg.go`, migration 000006) | table `background_jobs`: status, attempts, run_at, lock | Enqueue, ClaimNext, Succeed, Retry, Fail; the cancel of an import | locks that expire under a running handler; saves matched on id and status only; CHECK and NOT NULL constraints | an attempt runs once; one owner; a settled job stays settled; every waiting job is claimed |
| Worker (`cmd/worker/main.go`) | goroutines, the claimed job, its context | claim loop, verdict by job type, backoff, shutdown | crashes and lost saves after the handler's effects | a verdict is one the queue's table allows |
| Price plans (`internal/service/pricing`, `internal/repository/price_plans_pg.go`) | tables `price_plans`, `price_plan_items` | Recalculate, ExecuteRecalcJob, UpdateStatus, TransitionStatus, InsertItems | a plan and its job are two inserts; the job's steps race cancel, dispatch and their own retry | one dispatch per calculation; a plan never hangs |
| Dispatch (`internal/service/dispatcher`) | the same tables | EnqueueDispatch, Cancel, ExecuteDispatchJob, MarkExhausted, finalizePlanStatus | chunks, partial failure, calls whose answer is lost, retries | a row marked dispatched was sent and answered; the final status agrees with the rows; a cancel stops the sending |
| Calculator (`internal/service/pricing/calculator.go`) | none | Calculate: formula, fallback, limits, rounding | limits that contradict each other; order of the clamps | a limit yields only to a stronger one |
| Strategies (`internal/service/strategy`, `strategies_pg.go`) | table `strategies`, the assignment to a product | Create, Update, Delete, assign | Update validates against a row read earlier | stored limits agree, stored parameters fit the type |
| Product catalogue (`internal/service/product`, `products_pg.go`) | table `products` | POST, PATCH, bulk patch, soft delete, upsert from the marketplace, price sync | patches validated against a row read earlier; an import and a sync overwrite what a user changes | the price bounds of a row stay in order; a recalculation uses one consistent row |
| Product import (`internal/service/product`, `import_log_pg.go`) | table `import_log`, its job | StartImport, MarkRunning, ListSKUs, UpsertImported, Finish, Cancel | log and job are settled by separate statements, each of which may be lost; late attempts | one active import, which has a job; a finished log stays; a cancelled import writes nothing |
| Scheduler (`internal/scheduler`, `internal/pkg/dblock`) | `last_recalc_at`, the cron's due minutes, advisory locks | ScheduledRecalcTick, CompetitorRefreshTick, DigestFlushTick, cleanup ticks | replicas; two clocks; locks that belong to sessions; a crash between noting a run and enqueueing it | a due minute runs once; everything stale is taken up |
| Notifications (`internal/service/notifier`, `cmd/bot`) | tables of notifications, deliveries, preferences, channel settings, webhooks, chat links | Emit, deliver, digests, quiet hours, settings | duplicates; a digest locked by one statement and enqueued by another; settings that change meanwhile | a delivery is in one pair of hands; what is settled is not sent in a digest again; digests leave |
| Competitors (`internal/service/competitor`) | table `product_competitors` | create, update, delete, refresh by request and by job | a check reads, asks for a minute and writes by id | a price offered to the strategies is the target's; what is stale is checked again |
| Authentication (`internal/service/auth`) | users, sessions, reset and verification tokens, the cookie | register, login with lockout, logout, reset, verify, resend | several database calls per request, interleaved; counters read and written apart | a reset leaves no session of the old password; a lock has failures behind it; a blocked account gets no session |
| OAuth (`internal/service/auth/oauth.go`, `internal/pkg/oauthstate`) | one-time states in Redis, identities | begin, callback, confirm a link | callbacks and links of one external account; a crash between account and identity | a state is consumed once; one external account leads into one account |
| Rate limits (`internal/pkg/ratelimit`, `internal/pkg/redislimit`) | counters by key and window | Allow | concurrent increments, windows that end | never more than the limit in a window |
| Shops (`internal/service/shop`, `cmd/credbackfill`) | table `shops` with encrypted credentials | create, update, test the connection, delete, backfill | read-modify-write of a row other processes write too | a request never undoes the scheduler's mark |
| Marketplace clients (`internal/integration`) | none | list products, update prices | timeouts, partial success, whole roubles | – |
| HTTP transport, mail, front end | no state of their own that the rest depends on | – | – | – |

Interaction: the API's `Recalculate` inserts a plan and a job; the worker's
`ExecuteRecalcJob` fills the plan with rows from the calculator and, for shops
with auto-update, calls `EnqueueDispatch`; a user may click the same button;
`ExecuteDispatchJob` sends the rows in chunks; `Cancel` and the scheduler's
cleanup write the plan's status from outside at any moment. The scheduler starts
recalculations and refreshes by the clock; handlers and ticks emit notifications,
whose deliveries come back as jobs. All of it goes
through single SQL statements without explicit locks, so the statements of
different processes interleave freely. The list `hazards` of `PROJECT.json`
gives the points of the code where this can go wrong, with the properties that
watch them.

## 2. Modules

| module | models | builds on |
|---|---|---|
| `JobQueue` | `background_jobs`, the statements on its rows, the worker's loop and verdicts | – |
| `JobLedger` | abstract: what the queue promises, without locks, clocks, order or goroutines | – |
| `JobQueueRefinement` | the mapping under which `JobQueue` implements `JobLedger` | INSTANCE of `JobLedger` |
| `PlanFlow` | plans, their rows, the two handlers, the HTTP requests, the cleanup | extends `JobQueue` and runs its actions |
| `Calculator` | `Calculate` as operators | – |
| `Repricing` | one product, its strategy, recalculation, simulation, sending | extends `Calculator` |
| `Catalog` | products and imports of a shop, the import's handler | extends `JobQueue` and runs its actions |
| `Access` | accounts, sessions, one-time tokens, the requests on them | – |
| `SocialLogin` | OAuth login and linking; the specification of the whole of auth | extends `Access` |
| `Notifier` | notifications, deliveries, digests, settings, chat links, the bot | – |
| `Shops` | the table `shops` and the requests on it | – |
| `Competitors` | `product_competitors`, its requests, lookups and refresh jobs | extends `Shops` |
| `Scheduler` | the cron ticks of several replicas over both tables, the advisory lock | extends `Competitors` |
| `MCJobQueue`, `MCPlanFlow`, `MCRepricing`, `MCCatalog`, `MCSocialLogin`, `MCNotifier`, `MCScheduler` | the constants of the small instances | – |
| `JobQueueProofs`, `RepricingProofs`, `SocialLoginProofs`, `NotifierProofs`, `SchedulerProofs` | theorems about the module of the name and what it extends | – |
| `PlanFlowProofs`, `CatalogProofs` | theorems about a user of the queue | extend `JobQueueProofs` |
| `PlanFlowOneProofs` | theorems about the plans when one goroutine runs | extends `PlanFlowProofs` |

### JobQueue

Each SQL statement is one action. `status`, `attempts` are the columns;
`lease` is `lock_expires_at` seen against `NOW()` (`none`, `live`, `expired`);
`runAt` is the rank of `run_at` among the rows already due, which is all that
`ORDER BY priority DESC, run_at` can see. `Claim` is `ClaimNext` together with
the start of a goroutine; `HandlerReturns` picks any verdict the `process*Job`
function of the job's type can reach, from the attempt number the goroutine got
when it claimed; `SaveRetry`, `SaveSucceed`, `SaveFail` are the statements, with
the constraint `result NOT NULL` that a nil document violates; `SaveLost` is a
statement that does not reach the database; `Crash` is the end of the process
or of its shutdown timeout. `Overrun` names the jobs whose handler may outlive
`WORKER_LOCK_TTL`: nothing extends a lock while a handler runs. For the others
the handler's context ends first. `ClaimNext`'s failure on the CHECK
`attempts <= max_attempts` changes no row and is therefore no step.

### PlanFlow

`plan` and `item` are the status columns; a row of `price_plan_items` is named
by its plan, its product and the attempt of the recalculation that inserted it,
since each attempt inserts a batch of its own. `pc`, `todo`, `chunk`,
`final`, `ret` are the local state of a handler between two statements; `api` is
what an HTTP request still has to write. `accepted` (the rows whose price the
marketplace took), `answered` (those of a call that returned nil), `calcRuns` and
`lateCalls` are observations that no action reads. `FlowClaim`, `FlowSave`, `FlowCrash`,
`FlowTime` and the enqueueing actions conjoin the action of `JobQueue` of the same
name, so the queue is not simplified here. `UpdateStatus` writes without a
condition and `TransitionStatus` compares and sets, as in the repository. A call
of the marketplace returns nil or an error, and whichever it is, any part of the
chunk may have been taken (`Take`): the Ozon client finds no fault in an item the answer
leaves out, and the Wildberries client does not read the answer of an upload task that
runs later. The handler's branch for `ErrUnauthorized` is not modelled: neither
client's `UpdatePrices` returns it. Credentials that cannot be used are found when the
client is built (`BuildClient`). An enqueue either inserts its job or fails; one
that commits and is reported as failed, after which the status is rolled back although
a job exists, is not modelled here. The unique index over pending rows is `Conflict`. A
plan's cleanup by the scheduler is one step per plan; `Old` stands for the 24
hours.

### Calculator and Repricing

Money is counted in 1/200 of a kopeck, so that halves and whole percentages of a
price in kopecks are exact; the binary error of `float64`, and percentages with a
fraction, are left out. The chain `Constrain` keeps the order of the code: cost
and profit, maximum, minimum, the band of `max_change_pct`, the cost again.
`Repricing` keeps the order of reads: a recalculation reads the product
(`LoadProduct`), other requests run, then it reads the strategy and calculates
(`Recalculate`); an update of a strategy validates against the row it read
(`BeginUpdate`) and writes later (`EndUpdate`), field by field. `offer` is the
product's latest row with a price; whether it holds the next recalculation back
depends on its status and age. Left out: the currency check, which refuses a
product as an archived one is refused; reasons and texts; rows of earlier plans
that are still pending.

### Catalog

A row of `import_log` is named by its job, since `EnqueueProductImport` inserts
both in one transaction. `pc` says before which statement the handler stands:
`MarkRunning`, the loading of shop and credentials, the upsert, `Finish`. Any
statement of the handler may fail, which also stands for the end of its context
(`WORKER_JOB_TIMEOUT`); the queue's own steps are conjoined, so a handler that is
past its lock shares its row with the next attempt. A listing of the marketplace
is a sequence of items, good or refused by `normalizeImportRows`; the two clients
differ in which failing call ends a listing and which is passed over
(`OzonListSKUs`, `WildberriesListSKUs`). The cooldown is read before the
transaction (`StartImport`) and the unique index speaks inside it
(`NoActiveImport`). A price patch is validated item by item against rows read then
(`ValidateItem`) and written by one statement (`WritePatch`) under the table's
CHECK (`CheckHolds`); a bulk item that sets both bounds or only clears them does not read
its row (`bulkPatchNeedsCurrentBounds`). `lost` is an observation: imports whose last statement never
reached the database.

### Access and SocialLogin

A request runs in a slot and makes one call per step; `row` is what it has read.
Tokens of all kinds are numbers, drawn from one supply, since the code only
compares them. Passwords stand for their hashes.

The transaction `Consume` that resets a password runs under READ COMMITTED and is a step
for each of its statements: `ConsumeToken`, `ChangePassword`, `SweepSessions` (the DELETE
takes the sessions that are there then) and `CommitReset`, before which nobody sees what
it wrote; an error or a crash rolls it back (`Abort`). Rows it has written are locked
until then, and the statements of others that write them wait (`TokenFree`, `UserFree`,
`SessionFree`); the INSERT of a session needs only the key of the account, which the
UPDATE leaves alone, and does not wait. The two statements of `Issue`, which touch one
table, are one step that waits for those locks.

Observations: `under`, the password that the request of a session had verified; `raced`,
whether a reset of the account committed between what the request read and the session
it stored, or was between its DELETE and its COMMIT when it stored it; `via`, the external
account it came through; `barred`, the accounts blocked when the request began.

`RequireAuth` is `AuthLoad`, then `Admit` or `Expel`. Its sliding of the idle lifetime is
`TouchIdleIfNeeded`, with the cookie. An error of `GetUser` expels as a blocked account does, an
error of `GetSessionByToken` drops the cookie (`AuthReject`), and a login goes on when the
reset of its counter fails (`PasswordRight`). What a refused request does not change is no
step.

### Notifier

The row of a notification and its deliveries are one transaction (`EmitCommit`),
preceded by the check for a duplicate (`EmitDedupe`) and followed by one insert of a
job per instant channel (`EmitFanOut`). The check may fail, which
counts as nothing found, and two checks may both find nothing: it promises nothing, and no
property is about it. A flush locks, filters and enqueues
in separate statements (`FlushBegin` to `FlushEnqueue`), and gives rows back with
`unlockBack`, also when the INSERT of the job was committed and only reported as failed:
the job is then not `acked`, and its deliveries are `Doubted`. After an error of a single
delivery its status is put back to `pending`, or that statement is lost too (`RunSend`). Windows are not counted: that one has passed is a step of its own
(`DedupeWindowEnds`, `DigestWindowEnds`, `TelegramTimePasses`). `in_app` deliveries,
which send nothing, are left out.

### Shops, Competitors and Scheduler

`call` is what a request on a shop has read and is about to write: PATCH and test
read the row and write selected columns later (`Written`), whatever happened in
between. A schedule is a period in minutes or one of two texts that never fire.
`last_recalc_at` is stored from `NOW()` of the database while the due minute is
computed from the host's clock; `lag` is the difference. (The column is a
`TIMESTAMP` without time zone, so a session that is not in UTC is a lag too.)
A tick works through the list it read (`todo`), with the row as it was then: a
shop paused, deleted or rescheduled in between is still compared by
`last_recalc_at` alone. `early` observes minutes taken before the database's clock
reached them.

`checked` stands for `last_checked_at`: a row keeps the set of the rows checked before
it, which is all that `ORDER BY last_checked_at NULLS FIRST` can see, and rows never
checked come first in any order (`ListStaleForRefresh`).

A competitor's target is a marketplace and a number; a price is the product
whose price it is, which is what the two exceptions of `QuotesMatchTarget` are
about. `SelectOzonLookup` and the lookups say what is asked for: the number in the
address, on the marketplace of the row. Which
widget of Ozon's page the price stands in, down to the fallback to any widget with one
(`internal/service/competitor/ozon_bff_lookup.go:130`), is outside the model: the answer
to a question about a product counts as its price. The row's `market` never changes, its
target does. Of the queue the handler of `competitor_refresh` needs only its attempts:
since its results are nil, every attempt comes back until they are used up
(`AfterTry`). The advisory lock belongs to a session of a replica's pool: the same
session gets it again, and a failed unlock leaves it there until the connection ends.

## 3. Runs

| run | question | bounds |
|---|---|---|
| `JobQueue` | Do attempts, ownership and ends of jobs hold under crashes, lost saves and locks that expire under a handler; does the queue implement `JobLedger`; is every waiting job claimed and every interrupted one resumed, unless the head of the queue has no attempt left? | 3 jobs of three kinds and two priorities, 2 goroutines, 1 attempt of the import and 2 of the others, one job in `Overrun` |
| `PlanFlow_one` | With one goroutine (the default of `WORKER_CONCURRENCY`): final status against rows, cancel against sending, resending, the use of the queue; and does the cleanup alone free every plan? | 1 plan, 2 products, chunks of one, 2 attempts of each job, 1 concurrent request |
| `PlanFlow_two` | With two goroutines and expiring locks: one dispatch per calculation, no row marked before a call with it was answered without an error | 1 plan calculated twice, two dispatch jobs, 1 product |
| `Repricing` | The price for every formula and every combination of limits, in agreement and in conflict; the simulation on every list of up to 3 prices, and of 4 with two values; do races of patches, syncs and deletions keep the strategy well-formed? | 4 formulas × 48 sets of limits × 3 costs, with and without a competitor; 2 editors, 4 patches |
| `Catalog` | Does a shop have one import at a time, one that a job will end; do results stay; does a cancelled import write nothing; do racing patches keep the bounds in order? | 2 imports (2 attempts and 1), 2 goroutines, 3 listings, one import in `Overrun`; or 1 import among 2 edits |
| `SocialLogin` | Sessions against passwords, lockouts, blocking, bindings, for every interleaving of two requests call by call, a reset statement by statement | 1 real and 1 placeholder account, 2 slots, 3 requests, 3 tokens, 2 failures, 3 instants |
| `Notifier` | Is each delivery in one pair of hands, does a digest leave out what is settled, does every digest leave? | 1 account, 2 kinds of event, 1 emitter, 2 notifications, 2 jobs of 2 attempts, 1 change of the settings or deletion |
| `Schedule` | Does a due minute run once, does an offered price belong to its target, is everything stale checked again? | 2 replicas, 1 shop, 2 competitors, 3 targets, 3 minutes, `Budgets` |

Why these bounds are enough: the rules of the queue compare one row with one
goroutine, and every conflict in them is between two holders of a row or between
a row and the head of the order, which three rows and two goroutines show; two
attempts are the least at which a retry, an exhausted job and a stale count
differ. A dispatch can be interrupted before, between and after chunks with two
of them. The limits are compared in pairs; the chosen values put each of them
below, between and above the others. The theorems of section 5 hold without
bounds. Two requests at a time are the least that race; a third one only repeats what
one of the two did. With three requests in all, `SocialLogin` has an account registered or
a token issued, and then two requests that race about it. `Notifier` has one emitter: two emitters meet only in the check for a duplicate, about
which nothing is claimed, and what they write belongs to different notifications. `FewSteps` leaves out steps that reach
no delivery (an event that is switched off, a request without effect), and leaves one
request or deletion in a story. Digests of errors, with their own rule in
`shouldDigest`, do not occur in the run and are covered by the proofs. `Catalog` and `Scheduler` spread their requests and faults
over `Budgets`: each budget is one kind of story, and TLC explores them all in one
run. `OzonSource` is `bff`, the default; the HTML source differs only in that it
asks for the address itself. `Repricing` asks its two questions in one run (`OneQuestion`): a strategy is
followed to its first price, or it is edited. `WithoutAccepted` leaves `accepted`, which no
step reads, out of the fingerprint of the two passing runs of `PlanFlow`; its value matters
only to `PlanFlow_accepted`, which has no view. `CHECK_DEADLOCK FALSE` is set
because every model stops when its bounded supply of jobs, requests, minutes and
faults is used up, as the system does when nobody asks for anything.

Fairness. `JobQueue` assumes that clocks advance (`RunAtPasses`,
`LeaseExpires`), that the worker's loop goes on polling (`Claim`; the loop sleeps
and asks again after every error), that handlers return because their contexts
have deadlines, and that a goroutine whose handler returned ends; not that a save
succeeds (`SaveLost` satisfies it) and not that the worker stays up.
`PlanFlow_one` assumes only the scheduler's daily cron and that a request to the
API ends, by whatever outcome; of the worker nothing is assumed.

`Notifier` assumes that the flush ticks (cron, every five minutes), that its
statements end, that an hour follows an hour and a window closes; nothing of the
emitters or of the worker. `Schedule` assumes that the ticks of every replica
fire and go on, that a competitor's job is claimed in the end, as
`NoJobWaitsForever` says of a queue that is not stuck, that its check has a deadline, and that a
connection nobody uses is closed: without the last a lock left behind would stop
the refresh for good. `Catalog` and `SocialLogin` are checked for safety only: nothing
in the code ends an import whose last statement is lost, and a request may be
given up at any call.

### Runs that show a disagreement

| run | what the code does |
|---|---|
| `JobQueue_nil_result` | Four of the five handlers save success and final failure with a nil document, SQL NULL in a column that is NOT NULL: the row stays running, its lock expires, the finished job is executed again until its attempts are spent, and then it stays running. |
| `PlanFlow_revived` | A recalculation job takes up a plan that was cancelled before it started, and may dispatch it. |
| `PlanFlow_accepted` | A row is marked `dispatched`, "sent to the marketplace and accepted", because `UpdatePrices` returned nil, which says neither of an item that Ozon's answer leaves out nor of a Wildberries task that has yet to run. |
| `SocialLogin_reset` | A login that verified the old password stores its session between the DELETE and the COMMIT of a reset that promises to revoke all sessions; the session stays. (One stored after the COMMIT stays too.) |

Noticed while modelling, without a run of their own; where a definition is named
the modules contain the behaviour.

Queue, plans, prices:

- an import whose log cannot be finished is retried without comparing attempts
  (`cmd/worker/main.go:243`, `internal/service/product/service.go:322`): the row
  waits with no attempt left, the next claim violates the CHECK of migration 000006
  (`ClaimAllowed`), and nothing behind it in the order is claimed. This is `QueueStuck`, the
  exception of the queue's liveness properties;
- `Cancel` decides on a status read earlier (`internal/service/dispatcher/service.go:149`
  says "only from non-terminal statuses") and overwrites the end a dispatch reached in
  between (`WriteCancel`);
- `UpdatePrices` may return an error though the chunk was taken: a retry sends it again, and
  when the attempts are spent the rows are failed though sent (`CallFails`);
- the clock of `min_interval_minutes` counts rows pending or applied, but sent rows
  are now dispatched: once a price has been sent the interval no longer holds
  (`TooSoon`);
- a patch of a strategy's type alone is not validated against the stored
  parameters (`internal/service/strategy/service.go:129`): a fixed strategy then
  reads 0 as its value, though `validator.go:80` requires a positive one, and a
  `pct` that was stored beside another type's field is read unvalidated: one below 0
  would put the target above the median (the exception of `UndercutsHalf`);
- Wildberries is sent `int(price)` (`internal/integration/wildberries/client.go:319`),
  which may fall below the cost that the calculated price covered, and a band of
  `max_change_pct` narrower than a rouble never moves such a price;
- `set_fixed` without a fallback price sets `min_price`, when there is one, where
  the comment at `internal/service/pricing/calculator.go:251` says that the
  current price is kept;
- with rows still pending `finalizePlanStatus` returns nil
  (`internal/service/dispatcher/service.go:218`): the job counts as done, no retry
  comes as the comment below expects, and the plan waits for the daily cleanup;
- imports and notifications have a lower priority than recalculations, so an endless
  stream of the latter would starve them.

Catalogue and imports:

- `finishImportFailure` writes the log with the context of the job, which may be
  the reason of the failure, and drops the error: the log stays `running` and the
  unique index refuses every later import of the shop. `ActiveHasJob` holds except for
  such lost statements;
- `product_handler.go:334` says that an import in status pending or running can be
  cancelled, `Cancel` takes only pending ones;
- Ozon's client reads a 4xx answer other than 401, 403 and 429 to the listing as an empty page
  (`Answered`): the import succeeds with no items;
- an import or a price sync makes a product active again that the user deleted
  meanwhile; a stale listing overwrites newer prices; a retry counts what the first
  attempt added as updated.

Accounts:

- `failed_login_count` is read and written apart, so parallel failures are
  counted once (`RegisterFailedLogin`); a lock nevertheless never exceeds its cause;
- account and identity are two inserts in the OAuth callback: after a crash in
  between the placeholder address is taken and every later callback of that external
  account fails (`CreateAccount`, `AttachIdentity`);
- `ConfirmOAuthLink` opens a session for an account whose address is not verified,
  which `Login` refuses (`internal/service/auth/service.go:97`);
- a request that is past its check of the status opens a session although the account is
  blocked meanwhile; the session's first request removes it (`Expel`);
- `Register` stores the address as typed, the OAuth callback in lower case.

Notifications:

- a crash or a failed insert after the commit of `Emit` leaves an instant delivery
  pending for ever (`EmitLost`), one between lock and insert of a digest leaves
  `queued_digest` for ever (`FlushLost`): nothing looks for either again;
- a digest window is accepted for Telegram and webhooks, whose deliveries then wait
  for ever: only email is flushed (`internal/scheduler/scheduler.go:408`);
- two reports of one event may both be notified, since the check for a duplicate and the
  insertion are apart (`EmitDedupe`);
- an INSERT of a digest's job that commits and is reported as failed gives its deliveries to
  a second digest (`Doubted`);
- with the nil results of the queue an instant message is sent once per attempt, up
  to five times (`RunSend` does not look at the status).

Shops, schedule, competitors:

- a database clock behind the host's repeats a recalculation a minute later, even with
  one replica, although `internal/repository/shops_pg.go:146` says that the comparison
  protects against a double start (`early` in `ScheduledOnce`);
- a crash between `TouchLastRecalcAt` and the job skips a run; an invalid
  `schedule_cron` is stored and never fires; concurrent PATCHes lose updates;
- a test of the connection writes its verdict whatever became of the credentials, and
  a rate limit or an outage also sets the status to error, which stops the schedule;
- `Update` of a competitor keeps its marketplace: an Ozon address on a Wildberries row
  is looked up as a Wildberries number, and the price of an unrelated product is stored
  as `ok` (`Lookup`); an update during a check gives the new target the old one's
  price. These are the exceptions of `QuotesMatchTarget`;
- failed competitors are not refreshed by the scheduler again, and a competitor may
  get a second job while the first one waits;
- `SelectOzonLookup` without a key for MPStats falls through to HTML, its comment
  says BFF (`internal/service/competitor/service.go:87`).

## 4. Properties

The type invariants are `TypeOK`, `FlowTypeOK`, `RepricingTypeOK`, `CatalogTypeOK`,
`AccessTypeOK`, `NotifierTypeOK`, `ScheduleTypeOK`; some of them also carry a constraint
of the tables that several writers could break. The others, each with its comment
in the module, are

- queue: `AttemptRunsOnce`, `HolderIsCurrent`, `WaitingHasAttemptLeft`,
  `TerminalIsFinal`, `ImplementsLedger`, `NoJobWaitsForever`, `InterruptedJobResumes`;
- plans: `RunsTheQueue` (the flow implements the specification of the queue),
  `DispatchedWasAnswered`, `NoDoubleDispatch`, `CancelStopsWithinChunk`,
  `SentUntilMarked`, `StatusMatchesRows`, `PlanNeverHangs`;
- prices: `LimitsAgree`, `LimitsYieldInOrder`, `NearestAdmissible`,
  `HitExplainsPrice`, `UndercutsHalf`;
- catalogue: `OneActiveImport`, `ActiveHasJob`, `CanceledWritesNothing`,
  `FinishedStays`;
- accounts: `SessionsFollowPassword`, `LockHasCause`, `NoEntryForBarred`,
  `OneAccountBehind`;
- notifications: `HeldOnce`, `SettledNotResent`, `DigestsLeave`;
- schedule: `ScheduledOnce`, `QuotesMatchTarget`, `StaleIsRechecked`.

`CancelStopsWithinChunk`, `SentUntilMarked` and `StatusMatchesRows` are stated for one
goroutine. With two on the same dispatch job, after a lock that expired, they do
not hold, and nothing in the repository says they should. Properties with an
exception (`NoJobWaitsForever`, `InterruptedJobResumes`, `ActiveHasJob`, `ScheduledOnce`,
`QuotesMatchTarget`, `SessionsFollowPassword`, `HeldOnce`, `SettledNotResent`, `UndercutsHalf`)
name the one circumstance under which the code does not keep them: that there is
no other is what the run shows. Each property has a mutant in `PROJECT.json`: a definition
changed as a plausible bug would change it, with which TLC finds the property violated.

## 5. Proofs

Every safety property that a run checks, and both refinements, are theorems: each
invariant and each action property of section 4 holds for every value of the
constants that satisfies the named assumptions of the modules, which TLC evaluates
in the runs: `QueueAssumption`, `FlowAssumption`; `NoValueAssumption`,
`RepricingAssumption`; `CatalogAssumption`; `AccessAssumption`, `NoValIsNoRow`,
`FirstUsersAssumption`, `SocialAssumption`, `NoValIsNoKey`; `NotifierAssumption`,
`AccountAssumption`; `ShopAssumption`, `ExistingAssumption`, `CompetitorAssumption`,
`TargetAssumption`, `SchedulerAssumption`. They give the constants their types, keep
the null value apart from the values of a column, and say that the rows a model starts
with are ones the program can have stored. Each proof follows one pattern: an inductive
invariant, one step per action, and the property as a consequence.

**JobQueueProofs.** The invariant `QueueInv` adds four facts to the properties:
`TryCounted` (the attempt number a goroutine holds has been counted in the row,
which is what makes a second claim get another number), `IdleUndecided`,
`RetryDecidedInTime` (a verdict of retry was taken with an attempt left; a save
comes later, so the property alone is not inductive), `AbsentUntried`. From it
follow `TypeCorrect`, `AttemptsRunOnce`, `HoldersAreCurrent`, `HoldersAreUnique`,
`WaitingRowsAreClaimable`, `TerminalRowsAreFinal`; `HoldersAreUnique` (`SoleHolder`: one
holder at a time) is a consequence of two of them and has no run of its own. `QueueImplementsLedger` is the
refinement: a claim starts an attempt, a save, lost or not, stops one, a crash
halts them all, everything else submits, withdraws or stutters.

**PlanFlowProofs.** `FlowInv` says where a handler may stand and which verdict it
may be heading for; with it every step of the flow is a step of the queue
(`FlowRunsTheQueue`), so that each theorem about the queue holds of the flow too.
`FlowTypes` adds the types of the handlers' local state and that a handler about to
write a status writes an end. `AnsweredInv` adds that a chunk being marked belongs to a call
that was answered without an error; from it follows `DispatchedRowsWereAnswered`. Whether the
marketplace took it is another matter, see `PlanFlow_accepted`. `AccountInv` is an account of
rights to dispatch: a calculation that completes puts the plan into `calculated`, that
status is taken once, by a click or by the handler itself, whoever took it holds it
until his job is in the table, and only the roll-back gives it back. Jobs, callers about
to insert one and the calculated plan together never exceed the calculations;
`OneDispatchPerCalculation` is the part of the account that the property reads. All hold for any plans, products, chunk size and number of
goroutines.

**PlanFlowOneProofs.** `OneGoroutine` (two slots are the same slot) is a hypothesis of
these theorems, since with two goroutines the properties do not hold. `OneInv`
has a part for each region of the dispatch handler: while it sends, what is left to do
and the chunk of the call under way are pending; before its last statement, the end it
computed agrees with the rows; once a call was late, the plan is still cancelled.
`FreshInv` is the part that makes it inductive: of the writes that may come between two
statements of a dispatch, only that of a `Recalculate` whose job could not be enqueued
(`RecalcNotEnqueued`) has no condition and would bring a cancelled plan back, and it
comes before any dispatch of the plan exists.
`PricesSentUntilMarked`, `EndsMatchRows`, `CancelStopsSending` follow.

**RepricingProofs.** Lemmas on rounding (monotone, exact on kopecks), on raising
and lowering, and on each stage of the chain of limits lead to
`ConstrainYieldsInOrder` and, through rounding, to `PricesYieldInOrder`: every price
of every plan breaks a limit only where a stronger one forbids it. Two more
passes over the same chain show that no stage parts the price from the name it
carries (`ConstrainExplains`, `NamedLimitSetThePrice`) and that, where every lower
bound fits under every upper one, each stage leaves the price at the target, at a
lower bound above it or at an upper bound below it (`ConstrainNear`), which makes it
the nearest admissible one (`NearestPriceIsChosen`). `TargetUndercutsHalf` is about
lists of any length: `Highest` (any positions of a list have a highest one)
replaces the induction, since the numbers of elements above each have a
least one; from it come the n-th smallest element (`NthSmallest`) and the median
(`MedianSplits`). The proof needs a validated percentage and showed that the
property, as stated before, did not hold of a strategy whose type alone was
patched. The inductive invariant `RepricingInv` is the type invariant with
`LimitsAgree`, which are inductive together because a patch in progress carries
limits that agree by themselves: `RepricingTypeCorrect`, `LimitsAlwaysAgree`.

**CatalogProofs.** `PcInv` gives the handler the shape of a user of the queue;
`CatalogRefinesQueue` follows, and with it the queue's theorems hold of the imports.
`LogInv` ties the row of `import_log` to its job: only an import marked running
reaches its products, so a cancelled one wrote none (`CanceledImportsAreClean`).
`ActiveInv` says that an active log is `Pursued`: its job is waiting with an attempt
left, or a goroutine with the newest attempt still stands before a statement that
ends it, unless that statement was lost (`ActiveImportsHaveJobs`). `ImportsExclusive`
and `ResultsStay` use the index and the conditions of the statements. The bounds of
`CatalogTypes` need `Ordered` of every row, which the table's CHECK keeps when two
patches race.

**SocialLoginProofs.** The invariant has two parts. `LoginInv` says what a request knows at
each of its stages (`TasksShaped`): the account it read exists, and was not barred when the
code had looked; an account is never deleted and a blocked one never released, so that what
was read once still stands. `OwnersExist` and `SessionsOwned` keep tokens, keys, sessions
and identities attached to accounts. From it follow `LoginTypes` and `NoLockWithoutCause`
(one statement writes the counter and the lock, both from one read, and a reset clears
both). `EntryInv` rests on it and says what a request brings to the session it opens: the
password it verified is the account's unless a reset has raced it, the external account is
bound to the account it enters, and a reset about to commit has deleted every session of the
account but those stored since its DELETE (`Sweeps`). The last fact is what makes
`SessionsAreUnderTheirPassword` inductive: the COMMIT changes the password and marks the
requests in flight, but it takes only the sessions its DELETE had found.
`OneAccountBehindEach` is the same argument for the binding, which a request either read
or wrote itself. `BarredStaysOut` goes through each of the five ways in.

**NotifierProofs.** `HandsInv` says of every key what its status may be in the hands of an
emitter, the flush or a job, and that these are disjoint for keys that are not `Doubted`;
`NotesInv` and `EmitInv` number the notifications in the order of their transactions, so that
the jobs and the emitters name rows that stand. `SettledNotResent` is inductive with it: the
rows a digest has loaded are in no other hands, so nobody settles them before its
attempt ends. Results: `NotifierTypes`, `HeldByOne`, `SettledStaysSettled`.

**SchedulerProofs.** `RunsInv` is the reason for `OncePerDueMinute`: a due minute taken in
time lies at or before `last_recalc_at` for good (`Settled`), so that the
compare-and-set of every other tick fails, whatever row it read; requests never
write `last_recalc_at` and identities are not reused. `CompInv` and `CheckInv` carry
`PricesMatchTargets`: a price is explained by the target, by a marketplace that
differs, or by an update during the check, and a check's row keeps its marketplace.

Changes to the models the proofs asked for: in `Catalog` two arms of a CASE overlapped
(`UpsertImported`), which TLC resolves by order and the semantics does not: they are an
IF now; in `Competitors`, `checked` was a sequence of all rows, and is now a set
per row.

Only model-checked: liveness (`NoJobWaitsForever`, `InterruptedJobResumes`,
`PlanNeverHangs`, `DigestsLeave`, `StaleIsRechecked`), whose proofs need ENABLED of the
fair actions.

## 6. Not modelled

- Rate limits (`internal/pkg/ratelimit`, `internal/pkg/redislimit`): their correctness
  is arithmetic on clocks in fractions of a second. Seen while reading: `wait` of the
  registry sleeps with the mutex held and then counts the time asleep once more, so that
  twice the rate passes; the fixed window in Redis lets twice the limit pass around its
  edge; an error of the limiter refuses the request.
- Search and parsing of competitor pages, price snapshots and the warnings computed
  from them; lists, filters and exports of products; the reading of notifications;
  the ticks that only warn or delete old log rows.
- The writes to `price_change_log`, `integration_log` and the audit log, which nothing in
  these modules reads back; the deletion of plans.
- HTTP, routing, CSRF, JSON, HTML, encryption, hashing, mail, logging, the Telegram API
  and the front end: input/output, without state the rest depends on.
- `Simulate` only reads. Results `invalid_params` and `invalid_constraints` of the
  calculator cannot be reached with documents that passed validation, except for a
  type patched alone, where the parameters read as zero.

`PROJECT.json` lists every component with its state.

## 7. Plan

With every checked safety property proved, what is left is depth:

1. the scheduler's lock: that one replica at a time refreshes, from `LockInv`, and what
   a crash of the holder leaves;
2. of the queue, an abstract specification of imports and of dispatches that hides the
   handler's statements, as `JobLedger` does for jobs;
3. facts on `Conveyed`: how far the price sent may lie from the one calculated.
