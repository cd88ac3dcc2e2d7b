----------------------------- MODULE Competitors -----------------------------
(***************************************************************************)
(* The competitors of one product of every shop and the checks of their    *)
(* prices: service/competitor, product_competitors_pg.go, and the worker's *)
(* handler of competitor_refresh.  A target is the marketplace and number  *)
(* of a product; a price is the product whose price it is.  A check reads  *)
(* the row, asks the marketplace and writes by id alone, whatever became   *)
(* of the row meanwhile.                                                   *)
(*                                                                         *)
(* Of the queue (JobQueue) only what this handler meets is kept.  A        *)
(* settled check stores a nil result, which the table refuses, so every    *)
(* attempt, good or bad, leaves the row to be claimed again while it has   *)
(* attempts: as a retry, or once its lock has expired.                     *)
(***************************************************************************)
EXTENDS Shops, FiniteSets, SequencesExt

CONSTANTS
    CompIds,      \* identities of rows of product_competitors
    ShopOf,       \* the shop of the product a competitor belongs to
    Targets,      \* [market, id]: products of the marketplaces
    OzonSource,   \* OZON_PRICE_SOURCE
    JobIds,       \* bound: refresh jobs at a time
    MaxTries      \* max_attempts of a refresh job

ASSUME CompetitorAssumption ==
    /\ ShopOf \in [CompIds -> ShopIds]
    /\ IsFiniteSet(CompIds)
    /\ Clients \cap JobIds = {}
    /\ OzonSource \in {"bff", "html", "mpstats"}
    /\ MaxTries \in Nat \ {0}

VARIABLES
    comp,       \* the rows of product_competitors, or NoVal
    checked,    \* last_checked_at: the rows checked before it, or NoVal
    stale,      \* those of them checked more than 30 minutes ago
    job,        \* refresh jobs that can still run: [comp, tries], or NoVal
    check,      \* what a check has read: [id, row], or NoVal
    overtaken   \* observed: rows whose target changed under their last check

compVars == <<comp, checked, stale, job, check, overtaken>>

Checkers == Clients \cup JobIds
Markets  == {"ozon", "wb"}
\* Every number a target has, read on either marketplace.
Quotes   == [market : Markets, id : {t.id : t \in Targets}]
CompRow  == [market : Markets, target : Targets, price : Quotes \cup {NoVal},
             status : {"pending", "ok", "failed"}]

CheckRow == [id : CompIds, row : CompRow]
JobRow   == [comp : CompIds, tries : 0..MaxTries]

ASSUME TargetAssumption ==
    /\ Targets \subseteq Quotes
    /\ NoVal \notin CompRow /\ NoVal \notin CheckRow
    /\ \A cs \in SUBSET CompIds : cs # NoVal

CompetitorsInit ==
    /\ comp      = [c \in CompIds |-> NoVal]
    /\ checked   = [c \in CompIds |-> NoVal]
    /\ stale     = {}
    /\ job       = [j \in JobIds |-> NoVal]
    /\ check     = [x \in Checkers |-> NoVal]
    /\ overtaken = {}

\* Rows of the same product.
Siblings(c) == {d \in CompIds : ShopOf[d] = ShopOf[c] /\ comp[d] # NoVal}

\* Mutant of Duplicate: the index is not there.
NeverDuplicate(c, market, t) == FALSE

\* ux_product_competitors_product_url, in which market is the row's own.
Duplicate(c, market, t) ==
    \E d \in Siblings(c) \ {c} : comp[d].market = market /\ comp[d].target = t

Forget(cs) ==
    /\ checked'   = [d \in CompIds |-> IF d \in cs \/ checked[d] = NoVal THEN NoVal
                                       ELSE checked[d] \ cs]
    /\ stale'     = stale \ cs
    /\ overtaken' = overtaken \ cs

-----------------------------------------------------------------------------
(* Requests.                                                               *)

\* createOzon, createWB
CreateCompetitor(c, t) ==
    /\ c \notin used
    /\ shop[ShopOf[c]] # NoVal
    /\ ~Duplicate(c, t.market, t)
    /\ comp' = [comp EXCEPT ![c] = [market |-> t.market, target |-> t,
                                    price |-> NoVal, status |-> "pending"]]
    /\ used' = used \cup {c}
    /\ UNCHANGED <<shop, call, checked, stale, job, check, overtaken>>

\* Mutant of Retargeted: the result of the last check is kept.
RetargetedOnly(row, t) == [row EXCEPT !.target = t]

\* What Update sets; the columns marketplace and source stay.
Retargeted(row, t) ==
    [row EXCEPT !.target = t, !.price = NoVal, !.status = "pending"]

UpdateCompetitor(c, t) ==
    /\ comp[c] # NoVal
    /\ ~Duplicate(c, comp[c].market, t)
    /\ comp' = [comp EXCEPT ![c] = Retargeted(@, t)]
    /\ Forget({c})
    /\ UNCHANGED <<shopVars, job, check>>

DeleteCompetitor(c) ==
    /\ comp[c] # NoVal
    /\ comp' = [comp EXCEPT ![c] = NoVal]
    /\ Forget({c})
    /\ UNCHANGED <<shopVars, job, check>>

\* Products and competitors go with their shop; jobs and checks go on.
DeleteShop(s) ==
    /\ DropShop(s)
    /\ comp' = [c \in CompIds |-> IF ShopOf[c] = s THEN NoVal ELSE comp[c]]
    /\ Forget({c \in CompIds : ShopOf[c] = s})
    /\ UNCHANGED <<job, check>>

-----------------------------------------------------------------------------
(* Refresh.                                                                *)

\* Whose price each adapter asks for.  The number in the address of the
\* target is looked up on the row's marketplace, whichever it came from; only
\* the HTML adapter fetches the address itself; mpstats is a stub.  Which
\* widget of the page an adapter takes the price from (ozon_bff_lookup.go:109-143,
\* down to any widget that shows one) is left out: the answer to a question
\* about a product counts as that product's price.
WBLookup(row)      == {[market |-> "wb", id |-> row.target.id]}
BFFLookup(row)     == {[market |-> "ozon", id |-> row.target.id]}
HTMLLookup(row)    == {row.target}
MPStatsLookup(row) == {}

SelectOzonLookup(row) ==
    CASE OzonSource = "bff"     -> BFFLookup(row)
      [] OzonSource = "html"    -> HTMLLookup(row)
      [] OzonSource = "mpstats" -> MPStatsLookup(row)

Lookup(row) == IF row.market = "wb" THEN WBLookup(row) ELSE SelectOzonLookup(row)

\* A price; no price, as for a product that is gone; or a failure.
CheckResults(row) ==
    {[status |-> "ok", price |-> q] : q \in Lookup(row)}
    \cup {[status |-> "ok", price |-> NoVal], [status |-> "failed", price |-> NoVal]}

\* GetByIDForUser
BeginCheck(x, c) ==
    /\ check[x] = NoVal
    /\ comp[c] # NoVal
    /\ check' = [check EXCEPT ![x] = [id |-> c, row |-> comp[c]]]

Verified == {c \in CompIds : checked[c] # NoVal}

\* SaveCheckResult: by id; ErrNotFound when the row has gone.
SaveCheckResult(x) ==
    LET c == check[x].id IN
    IF comp[c] = NoVal THEN UNCHANGED <<comp, checked, stale, overtaken>>
    ELSE /\ \E r \in CheckResults(check[x].row) :
               comp' = [comp EXCEPT ![c].status = r.status, ![c].price = r.price]
         /\ checked' = [d \in CompIds |-> IF d = c THEN Verified \ {c}
                                          ELSE IF checked[d] = NoVal THEN NoVal
                                          ELSE checked[d] \ {c}]
         /\ stale'   = stale \ {c}
         /\ overtaken' = IF comp[c].target # check[x].row.target
                         THEN overtaken \cup {c} ELSE overtaken \ {c}

\* POST .../refresh
RequestCheck(x, c) ==
    /\ x \in Clients
    /\ BeginCheck(x, c)
    /\ UNCHANGED <<shopVars, comp, checked, stale, job, overtaken>>

AnswerCheck(x) ==
    /\ x \in Clients
    /\ check[x] # NoVal
    /\ SaveCheckResult(x)
    /\ check' = [check EXCEPT ![x] = NoVal]
    /\ UNCHANGED <<shopVars, job>>

-----------------------------------------------------------------------------
(* processCompetitorRefreshJob.                                            *)

EnqueueRefresh(j, c) ==
    /\ job[j] = NoVal
    /\ job' = [job EXCEPT ![j] = [comp |-> c, tries |-> 0]]

\* A row without attempts left is never claimed again.
AfterTry(row) == IF row.tries < MaxTries THEN row ELSE NoVal

AfterAttempt(j) == job' = [job EXCEPT ![j] = AfterTry(@)]

\* Claim and GetByIDForUser; without the competitor the attempt is over.
ClaimRefresh(j) ==
    LET tried == [job[j] EXCEPT !.tries = @ + 1] IN
    /\ job[j] # NoVal
    /\ check[j] = NoVal
    /\ IF comp[job[j].comp] # NoVal
       THEN /\ BeginCheck(j, job[j].comp)
            /\ job' = [job EXCEPT ![j] = tried]
       ELSE /\ job' = [job EXCEPT ![j] = AfterTry(tried)]
            /\ UNCHANGED check
    /\ UNCHANGED <<shopVars, comp, checked, stale, overtaken>>

FinishRefresh(j) ==
    /\ check[j] # NoVal
    /\ SaveCheckResult(j)
    /\ AfterAttempt(j)
    /\ check' = [check EXCEPT ![j] = NoVal]
    /\ UNCHANGED shopVars

\* Any statement of the check fails, its minute is over, or its process dies.
LoseCheck(x) ==
    /\ check[x] # NoVal
    /\ IF x \in JobIds THEN AfterAttempt(x) ELSE UNCHANGED job
    /\ check' = [check EXCEPT ![x] = NoVal]
    /\ UNCHANGED <<shopVars, comp, checked, stale, overtaken>>

\* Half an hour passes since a check; older checks are stale already.
GoesStale ==
    /\ \E c \in Verified \ stale :
        /\ checked[c] \subseteq stale
        /\ stale' = stale \cup {c}
    /\ UNCHANGED <<shopVars, comp, checked, job, check, overtaken>>

-----------------------------------------------------------------------------
(* What others ask of the table.                                           *)

Never(c) == comp[c] # NoVal /\ checked[c] = NoVal

\* Mutant of Due: last_checked_at < since alone, which NULL does not satisfy.
DueOnceChecked(c) ==
    comp[c] # NoVal /\ c \in stale /\ comp[c].status \in {"pending", "ok"}

\* Rows with status failed are left to the user.
Due(c) ==
    /\ comp[c] # NoVal
    /\ Never(c) \/ c \in stale
    /\ comp[c].status \in {"pending", "ok"}

\* NULLS FIRST, then the oldest.
Earlier(c, d) == checked[d] # NoVal /\ (checked[c] = NoVal \/ c \in checked[d])

\* ListStaleForRefresh: what may come back for this limit.  Rows that were never
\* checked come in any order; whatever is earlier than a row comes before it.
ListStaleForRefresh(limit) ==
    LET due == {c \in CompIds : Due(c)}
        len == IF Cardinality(due) < limit THEN Cardinality(due) ELSE limit
    IN  {list \in [1..len -> due] :
            /\ IsInjective(list)
            /\ \A i \in 1..len : \A c \in due :
                   Earlier(c, list[i]) => \E k \in 1..(i - 1) : list[k] = c}

\* The prices LatestFreshPrice chooses the lowest of.
OfferedPrices ==
    {c \in CompIds : comp[c] # NoVal /\ comp[c].status = "ok" /\ comp[c].price # NoVal}
=============================================================================
