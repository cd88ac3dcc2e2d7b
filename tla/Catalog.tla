------------------------------- MODULE Catalog ------------------------------
(***************************************************************************)
(* The products of one shop and the imports that fill them: the HTTP       *)
(* operations on products and imports (service/product), the tables        *)
(* products and import_log, the listing calls of the marketplace clients,  *)
(* and the worker's handler ExecuteImportJob on top of the job queue of    *)
(* JobQueue.  A row of import_log is named by its job.  Every statement is *)
(* a step, and any statement of a handler may fail, which also stands for  *)
(* its context reaching WORKER_JOB_TIMEOUT.  Prices, names and stocks are  *)
(* left out; what an item of a listing lacks is the flag ok, FALSE when    *)
(* normalizeImportRows refuses it.                                         *)
(***************************************************************************)
EXTENDS JobQueue, FiniteSets, Sequences

CONSTANTS
    Skus,         \* external_sku of the products
    Listings,     \* what the shop may hold: sequences of [sku, ok]
    Marketplaces, \* the marketplaces a shop may belong to
    MaxRows,      \* rows an import takes (10000)
    MaxErrors,    \* errors an import keeps (50)
    Money,        \* values of min_price and max_price
    NoVal,        \* NULL
    Editors,      \* concurrent price patches
    NewProducts,  \* the bodies of POST requests: [status, min, max]
    Patches,      \* the bodies of PATCH and bulk-patch requests
    Budgets       \* bounds: how many imports and edits a behaviour may have

ProductRow == [status : {"active", "archived"},
               min : Money \cup {NoVal}, max : Money \cup {NoVal}]

ASSUME CatalogAssumption ==
    /\ \A j \in Jobs : Kind[j] = "sku_import"
    /\ \A l \in Listings : l \in Seq([sku : Skus, ok : BOOLEAN])
    /\ Money \subseteq Nat
    /\ NoVal \notin Money
    /\ Marketplaces \subseteq {"ozon", "wb"}
    /\ Budgets \subseteq [imports : Nat, edits : Nat]
    /\ NewProducts \subseteq ProductRow
    /\ \A p \in Patches : \A k \in DOMAIN p :
          \E D \in SUBSET {"min", "max"} : p[k] \in [D -> Money \cup {NoVal}]

VARIABLES
    shop,      \* shops.marketplace, NoVal once the shop is deleted
    products,  \* the rows of products by SKU
    log,       \* the rows of import_log by job
    recent,    \* imports requested in the last 15 minutes, oldest first
    asking,    \* EnqueueProductImport has passed the cooldown, not inserted
    pc,        \* where the handler run by a slot stands
    found,     \* the row of import_log the slot is about to write
    patch,     \* price patches between validation and UPDATE
    left,      \* what is left of the budget
    \* Observed, never read by the program:
    wrote,     \* imports that have upserted products
    lost       \* imports whose last statement was lost

shopVars == <<shop, products, patch, left>>
logVars  == <<log, recent, asking>>
runVars  == <<pc, found, wrote, lost>>
allVars  == <<vars, shopVars, logVars, runVars>>

ActiveLog   == {"pending", "running"}
TerminalLog == {"succeeded", "partial", "failed", "canceled"}
LogStatus   == {"absent", "deleted"} \cup ActiveLog \cup TerminalLog
NewLog(st)  == [status |-> st, total |-> 0, added |-> 0, updated |-> 0,
                skipped |-> 0, failed |-> 0]
Idle        == [items |-> <<>>, left |-> {}]

\* validatePatchPrices: a missing bound orders with everything.
Ordered(r) == NoVal \notin {r.min, r.max} => r.min <= r.max

CatalogInit ==
    /\ Init
    /\ shop \in Marketplaces
    /\ products = [k \in Skus |-> NoVal]
    /\ log      = [j \in Jobs |-> NewLog("absent")]
    /\ recent   = <<>>
    /\ asking   = {}
    /\ pc       = [s \in Slots |-> "idle"]
    /\ found    = [s \in Slots |-> NewLog("absent")]
    /\ patch    = [e \in Editors |-> Idle]
    /\ left \in Budgets
    /\ wrote    = {}
    /\ lost     = {}

-----------------------------------------------------------------------------
(* The marketplace clients.  An answer to a request is 200, 401 or 403     *)
(* (denied), another 4xx (refused), 429 (limited), or no answer below 500  *)
(* after three retries (down).                                             *)

Answers == {"ok", "denied", "refused", "limited", "down"}
Failure == NoVal

\* doWithRetry gives up at once on 429 and after the retries on 5xx.
Answered(a) == a \notin {"limited", "down"}

\* One call per batch of products, and only 200 will do.
fetchStocks(a) == a = "ok"

\* The list call checks 401 and 403 only, the details call checks nothing:
\* any other error body decodes to a page without items.
OzonListSKUs(list, stocks, info, l) ==
    IF ~Answered(list) \/ list = "denied" THEN Failure
    ELSE IF list = "refused" \/ l = <<>> THEN <<>>
    ELSE IF ~fetchStocks(stocks) \/ ~Answered(info) THEN Failure
    ELSE IF info = "ok" THEN l ELSE <<>>

fillPrices(a) == a = "ok"

\* Every status but 200 ends the listing.
WildberriesListSKUs(list, prices, l) ==
    IF list # "ok" \/ (l # <<>> /\ ~fillPrices(prices)) THEN Failure ELSE l

ListSKUs == [m \in Marketplaces |->
    IF m = "ozon"
    THEN {OzonListSKUs(a, b, c, l) : a, b, c \in Answers, l \in Listings}
    ELSE {WildberriesListSKUs(a, b, l) : a, b \in Answers, l \in Listings}]

-----------------------------------------------------------------------------
(* Rows of an import.                                                      *)

\* The first acceptable item of each SKU among the first MaxRows items.
normalizeImportRows(l) ==
    {i \in DOMAIN l : /\ i <= MaxRows
                      /\ l[i].ok
                      /\ \A k \in 1..(i - 1) : l[k].ok => l[k].sku # l[i].sku}

Imported(l) == {l[i].sku : i \in normalizeImportRows(l)}

capImportErrors(n) == IF n <= MaxErrors THEN n ELSE MaxErrors + 1

\* ON CONFLICT DO UPDATE: whatever was there is active afterwards and keeps
\* its bounds.
UpsertImported(ks) ==
    products' = [k \in Skus |->
        IF k \notin ks THEN products[k]
        ELSE IF products[k] # NoVal THEN [products[k] EXCEPT !.status = "active"]
        ELSE [status |-> "active", min |-> NoVal, max |-> NoVal]]

\* The row Finish writes after an upsert.
Counted(l) ==
    LET skipped == Len(l) - Cardinality(Imported(l))
        added   == Cardinality({k \in Imported(l) : products[k] = NoVal})
    IN [status  |-> IF skipped > 0 THEN "partial" ELSE "succeeded",
        total   |-> Len(l),
        added   |-> added,
        updated |-> Cardinality(Imported(l)) - added,
        skipped |-> skipped,
        failed  |-> capImportErrors(skipped)]

-----------------------------------------------------------------------------
(* Requests about imports.                                                 *)

\* The latest terminal row is younger than the cooldown.
CoolingDown == \E i \in DOMAIN recent : log[recent[i]].status \in TerminalLog

StartImport(j) ==
    /\ shop # NoVal
    /\ status[j] = "absent"
    /\ j \notin asking
    /\ ~CoolingDown
    /\ left.imports > 0
    /\ left'   = [left EXCEPT !.imports = @ - 1]
    /\ asking' = asking \cup {j}
    /\ UNCHANGED <<vars, shop, products, patch, log, recent, runVars>>

\* Mutant of NoActiveImport: ux_import_log_one_active_per_shop is not there.
AnyImports == \A j \in Jobs : log[j].status \in LogStatus

NoActiveImport == \A j \in Jobs : log[j].status \notin ActiveLog

\* The rest of the transaction: the job and the row, or neither when the
\* unique index or the foreign key refuses the row.
EnqueueProductImport(j) ==
    /\ j \in asking
    /\ asking' = asking \ {j}
    /\ IF shop # NoVal /\ NoActiveImport
       THEN /\ Enqueue(j)
            /\ log'    = [log EXCEPT ![j] = NewLog("pending")]
            /\ recent' = Append(recent, j)
       ELSE UNCHANGED <<vars, log, recent>>
    /\ UNCHANGED <<shopVars, runVars>>

CooldownPasses ==
    /\ recent # <<>>
    /\ recent' = Tail(recent)
    /\ UNCHANGED <<vars, shopVars, log, asking, runVars>>

\* Mutant of Cancelable: what the description of the endpoint says.
CancelableWhileActive(j) == log[j].status \in ActiveLog

Cancelable(j) == log[j].status = "pending"

\* One transaction: the row, and the job while it waits.
Cancel(j) ==
    /\ Cancelable(j)
    /\ log' = [log EXCEPT ![j].status = "canceled"]
    /\ IF status[j] \in Waiting THEN CancelImport(j) ELSE UNCHANGED vars
    /\ UNCHANGED <<shopVars, recent, asking, runVars>>

-----------------------------------------------------------------------------
(* ExecuteImportJob.                                                       *)

Goes(s, where) == pc' = [pc EXCEPT ![s] = where]

\* The handler of s returns o.
Returns(s, o) == Decide(s, o) /\ Goes(s, "idle")

ClaimImport(s) ==
    /\ Claim(s)
    /\ Goes(s, "mark")
    /\ UNCHANGED <<shopVars, logVars, found, wrote, lost>>

Markable(j) == log[j].status \in ActiveLog

\* Mutant of CanRetry: a retryable failure is always retried.
AlwaysRetry(s) == holds[s] # NoJob

CanRetry(s) == tryNo[s] < MaxAttempts[holds[s]]

\* A row that is no longer active, or an error: the verdict is a failure, and the
\* row is left as it is.  The verdict has no result, so the queue refuses it and
\* the job is claimed again while it has attempts left.
MarkRunning(s) ==
    LET j == holds[s] IN
    /\ pc[s] = "mark"
    /\ \/ /\ Markable(j)
          /\ log' = [log EXCEPT ![j].status = "running"]
          /\ Goes(s, "load")
          /\ UNCHANGED <<vars, lost>>
       \/ /\ ~Markable(j)
          /\ Returns(s, WithNil("fail"))
          /\ UNCHANGED <<log, lost>>
       \/ /\ Returns(s, WithNil("fail"))
          /\ lost' = IF CanRetry(s) THEN lost ELSE lost \cup {j}
          /\ UNCHANGED log
    /\ UNCHANGED <<shopVars, recent, asking, found, wrote>>

\* finishImportFailure up to its UPDATE of import_log.
finishImportFailure(s, total, retryable) ==
    /\ IF retryable /\ CanRetry(s)
       THEN Returns(s, WithNil("retry")) /\ UNCHANGED found
       ELSE /\ found' = [found EXCEPT ![s] =
                  [NewLog("failed") EXCEPT !.total = total, !.failed = 1]]
            /\ Goes(s, "abandon")
            /\ UNCHANGED vars
    /\ UNCHANGED <<shopVars, logVars, wrote, lost>>

\* No shop, or credentials that do not decrypt or parse.
LoadFails(s) ==
    /\ pc[s] = "load"
    /\ finishImportFailure(s, 0, FALSE)

\* A failed upsert carries the length of its listing; it also fails when the
\* shop has been deleted since it was read.
ListOrUpsertFails(s) ==
    /\ pc[s] = "load"
    /\ \E n \in {0} \cup {Len(l) : l \in Listings} : finishImportFailure(s, n, TRUE)

\* One step, since any listing may come at any time.
ListAndUpsert(s) ==
    /\ pc[s] = "load"
    /\ shop # NoVal
    /\ \E l \in ListSKUs[shop] \ {Failure} :
        /\ UpsertImported(Imported(l))
        /\ found' = [found EXCEPT ![s] = Counted(l)]
        /\ wrote' = IF Imported(l) = {} THEN wrote ELSE wrote \cup {holds[s]}
    /\ Goes(s, "finish")
    /\ UNCHANGED <<vars, shop, patch, left, logVars, lost>>

\* Mutant of Finishable: the UPDATE matches on id only.
FinishableAlways(j) == log[j].status \notin {"absent", "deleted"}

Finishable(j) == log[j].status \in ActiveLog

\* The outcome of an upsert; ErrNotFound is retried like any other error.
Finish(s) ==
    LET j == holds[s] IN
    /\ pc[s] = "finish"
    /\ \/ /\ Finishable(j)
          /\ log' = [log EXCEPT ![j] = found[s]]
          /\ Returns(s, WithJSON("succeed"))
          /\ UNCHANGED lost
       \/ /\ ~Finishable(j)
          /\ Returns(s, WithNil("retry"))
          /\ UNCHANGED <<log, lost>>
       \/ /\ Returns(s, WithNil("retry"))
          /\ lost' = IF CanRetry(s) THEN lost ELSE lost \cup {j}
          /\ UNCHANGED log
    /\ found' = [found EXCEPT ![s] = NewLog("absent")]
    /\ UNCHANGED <<shopVars, recent, asking, wrote>>

\* The outcome of a failure: the error of Finish is ignored.
FinishFailed(s) ==
    LET j == holds[s] IN
    /\ pc[s] = "abandon"
    /\ Returns(s, WithJSON("fail"))
    /\ \/ /\ log' = IF Finishable(j) THEN [log EXCEPT ![j] = found[s]] ELSE log
          /\ UNCHANGED lost
       \/ /\ lost' = lost \cup {j}
          /\ UNCHANGED log
    /\ found' = [found EXCEPT ![s] = NewLog("absent")]
    /\ UNCHANGED <<shopVars, recent, asking, wrote>>

-----------------------------------------------------------------------------
(* The worker around it.                                                   *)

SaveImport(s) == Save(s) /\ UNCHANGED <<shopVars, logVars, runVars>>

ClockTicks ==
    /\ \E j \in Jobs : RunAtPasses(j) \/ LeaseExpires(j)
    /\ UNCHANGED <<shopVars, logVars, runVars>>

CrashImports ==
    /\ Crash
    /\ pc'    = [s \in Slots |-> "idle"]
    /\ found' = [s \in Slots |-> NewLog("absent")]
    /\ lost'  = lost \cup {holds[s] : s \in {t \in Slots :
                    holds[t] # NoJob /\ ~CanRetry(t)}}
    /\ UNCHANGED <<shopVars, logVars, wrote>>

-----------------------------------------------------------------------------
(* Edits of the catalogue.                                                 *)

Edit ==
    /\ left.edits > 0
    /\ left' = [left EXCEPT !.edits = @ - 1]

\* The only fields the model keeps that a body may get wrong.
normalizeCreate(r) == Ordered(r)

\* INSERT ... SELECT FROM shops; the SKU is unique within the shop.
Create(k, r) ==
    /\ shop # NoVal
    /\ products[k] = NoVal
    /\ products' = [products EXCEPT ![k] = r]

CreateManual(k) ==
    /\ Edit
    /\ \E r \in NewProducts : normalizeCreate(r) /\ Create(k, r)
    /\ UNCHANGED <<vars, shop, patch, logVars, runVars>>

SoftDelete(k) ==
    /\ Edit
    /\ products[k] # NoVal
    /\ products[k].status # "archived"
    /\ products' = [products EXCEPT ![k].status = "archived"]
    /\ UNCHANGED <<vars, shop, patch, logVars, runVars>>

\* A patch names the bounds it sets: a function from some of "min", "max" to
\* a value or NULL.
Patched(row, p) ==
    [b \in DOMAIN row |-> IF b \in DOMAIN p THEN p[b] ELSE row[b]]

\* The row is read when a body sets one bound alone, to a value.  A PATCH of one
\* product reads it in any case, which tells nothing else but that it is gone.
bulkPatchNeedsCurrentBounds(p) == \E b \in {"min", "max"} : DOMAIN p = {b} /\ p[b] # NoVal

SendPatch(e) ==
    /\ Edit
    /\ patch[e] = Idle
    /\ \E p \in Patches :
        patch' = [patch EXCEPT ![e] = [items |-> p, left |-> DOMAIN p]]
    /\ UNCHANGED <<vars, shop, products, logVars, runVars>>

\* Each item is validated on its own, or against the row as it is read.
ValidateItem(e) ==
    /\ \E k \in patch[e].left :
        LET p    == patch[e].items[k]
            free == [min |-> NoVal, max |-> NoVal]
            good == IF bulkPatchNeedsCurrentBounds(p)
                    THEN products[k] # NoVal /\ Ordered(Patched(products[k], p))
                    ELSE Ordered(Patched(free, p))
        IN patch' = [patch EXCEPT ![e] =
                        IF good THEN [patch[e] EXCEPT !.left = @ \ {k}] ELSE Idle]
    /\ UNCHANGED <<vars, shop, products, left, logVars, runVars>>

\* Mutant of CheckHolds: the table has no products_price_bounds_check.
NoCheck(r) == r.status \in {"active", "archived"}

\* products_price_bounds_check
CheckHolds(r) == Ordered(r)

\* One statement, or one transaction of them: all the rows or none.
WritePatch(e) ==
    LET items == patch[e].items
        new   == [k \in Skus |->
                    IF k \in DOMAIN items /\ products[k] # NoVal
                    THEN Patched(products[k], items[k]) ELSE products[k]]
    IN
    /\ patch[e] # Idle
    /\ patch[e].left = {}
    /\ products' = IF \A k \in Skus : new[k] = NoVal \/ CheckHolds(new[k])
                   THEN new ELSE products
    /\ patch' = [patch EXCEPT ![e] = Idle]
    /\ UNCHANGED <<vars, shop, left, logVars, runVars>>

\* syncShopPricesIfStale of a recalculation upserts a listing as it came; a
\* SKU that is in it twice makes the statement fail.
SyncShopPrices ==
    /\ Edit
    /\ shop # NoVal
    /\ \E l \in ListSKUs[shop] \ {Failure} :
        /\ \A i, k \in DOMAIN l : i # k => l[i].sku # l[k].sku
        /\ UpsertImported({l[i].sku : i \in DOMAIN l})
    /\ UNCHANGED <<vars, shop, patch, logVars, runVars>>

\* DELETE of the shop takes its products and its rows of import_log along,
\* and leaves the jobs.
DeleteShop ==
    /\ shop # NoVal
    /\ shop'     = NoVal
    /\ products' = [k \in Skus |-> NoVal]
    /\ log'      = [j \in Jobs |-> IF log[j].status = "absent" THEN log[j]
                                   ELSE NewLog("deleted")]
    /\ recent'   = <<>>
    /\ UNCHANGED <<vars, patch, left, asking, runVars>>

-----------------------------------------------------------------------------
ImportRequest ==
    \/ \E j \in Jobs : StartImport(j) \/ EnqueueProductImport(j) \/ Cancel(j)
    \/ CooldownPasses

ImportStep == \E s \in Slots :
    \/ ClaimImport(s) \/ MarkRunning(s)
    \/ LoadFails(s) \/ ListOrUpsertFails(s) \/ ListAndUpsert(s)
    \/ Finish(s) \/ FinishFailed(s) \/ SaveImport(s)

CatalogEdit ==
    \/ \E k \in Skus : CreateManual(k) \/ SoftDelete(k)
    \/ \E e \in Editors : SendPatch(e) \/ ValidateItem(e) \/ WritePatch(e)
    \/ SyncShopPrices
    \/ DeleteShop

CatalogNext ==
    ImportRequest \/ ImportStep \/ ClockTicks \/ CrashImports \/ CatalogEdit

CatalogSpec == CatalogInit /\ [][CatalogNext]_allVars

-----------------------------------------------------------------------------
(* Properties.                                                             *)

\* Types; the bounds of a product stay in order although a patch is validated
\* against a row that another patch may change before the UPDATE.
CatalogTypeOK ==
    /\ shop \in Marketplaces \cup {NoVal}
    /\ \A k \in Skus : products[k] # NoVal =>
        products[k] \in ProductRow /\ Ordered(products[k])
    /\ \A j \in Jobs : log[j].status \in LogStatus
    /\ asking \subseteq Jobs
    /\ pc \in [Slots -> {"idle", "mark", "load", "finish", "abandon"}]
    /\ wrote \cup lost \subseteq Jobs

\* A shop never has two imports under way, although the cooldown is checked
\* by a read that sees no active import (importLogPg.EnqueueProductImport).
OneActiveImport ==
    Cardinality({j \in Jobs : log[j].status \in ActiveLog}) <= 1

\* The job can still bring its import to an end: it waits with an attempt to
\* spend, or is executed, or will be claimed again.
Alive(j) ==
    \/ status[j] \in Waiting \cup {"running"} /\ attempts[j] < MaxAttempts[j]
    \/ \E s \in Slots : holds[s] = j /\ pc[s] # "idle"

\* An import that refuses others as "already running" (ErrImportAlreadyRunning)
\* has a job that will end it, unless a statement of its last attempt was lost.
ActiveHasJob ==
    \A j \in Jobs : log[j].status \in ActiveLog => Alive(j) \/ j \in lost

\* The result of an import never changes once it is shown, whichever attempt
\* comes late; it leaves only with the shop.
FinishedStays ==
    [][\A j \in Jobs : log[j].status \in TerminalLog =>
        log'[j] = log[j] \/ shop' = NoVal]_allVars

\* An import the user was told is canceled has not touched a product, and its
\* job never will (importLogPg.Cancel against the claim of the job).
CanceledWritesNothing ==
    \A j \in Jobs : log[j].status = "canceled" => j \notin wrote
=============================================================================
