--------------------------- MODULE SchedulerProofs ---------------------------
(***************************************************************************)
(* Proofs about Scheduler: a due minute of a schedule starts one           *)
(* recalculation, a price is offered for the product it belongs to unless  *)
(* the target was changed, and the tables keep their shape.                *)
(***************************************************************************)
EXTENDS Scheduler, FiniteSetTheorems, TLAPS

-----------------------------------------------------------------------------
(* The inductive invariant.                                                *)

\* Requests write back a copy of a row; identities are never given twice.
CallRec == [op : {"update", "test", "backfill"}, id : ShopIds, row : ShopRow(Int)]

ShopInv ==
    /\ shop \in [ShopIds -> ShopRow(Int) \cup {NoVal}]
    /\ \A s \in ShopIds : shop[s] # NoVal => s \in used
    /\ call \in [Clients -> CallRec \cup {NoCall}]

\* Where a price may come from.
Explained(c) ==
    \/ comp[c].price = comp[c].target
    \/ comp[c].target.market # comp[c].market
    \/ c \in overtaken

CompInv ==
    /\ comp \in [CompIds -> CompRow \cup {NoVal}]
    /\ checked \in [CompIds -> (SUBSET CompIds) \cup {NoVal}]
    /\ stale \subseteq Verified
    /\ \A c \in CompIds : checked[c] # NoVal => comp[c] # NoVal
    /\ \A c \in CompIds : comp[c] # NoVal =>
        /\ c \in used
        /\ checked[c] = NoVal <=> comp[c].status = "pending"
        /\ comp[c].price # NoVal => comp[c].status = "ok" /\ Explained(c)
        /\ ~Duplicate(c, comp[c].market, comp[c].target)

\* A check goes by a row whose marketplace never changed since; a job that can
\* be claimed has an attempt left.
CheckInv ==
    /\ check \in [Checkers -> CheckRow \cup {NoVal}]
    /\ \A x \in Checkers : check[x] # NoVal =>
        /\ check[x].id \in used
        /\ comp[check[x].id] # NoVal => comp[check[x].id].market = check[x].row.market
    /\ job \in [JobIds -> JobRow \cup {NoVal}]
    /\ \A j \in JobIds :
        /\ check[j] # NoVal => job[j] \in JobRow
        /\ check[j] = NoVal /\ job[j] # NoVal => job[j].tries < MaxTries

\* A minute is due later than the last_recalc_at it was computed from.
Entry == {e \in ShopIds \X ShopRow(Int) \X Int : e[2].last = NoVal \/ e[2].last < e[3]}

TickRec == {NoTick}
    \cup [stage : {"shops"}, todo : SUBSET Entry]
    \cup [stage : {"recalculate"}, todo : SUBSET Entry, taken : ShopIds \X Int]
    \cup [stage : {"refresh"}, todo : Seq(CompIds)]

TickInv ==
    /\ now \in Int
    /\ left \in [{"lag", "minutes", "shops", "comps", "faults"} -> Nat]
    /\ tick \in [Replicas -> TickRec]

\* One session has the lock of the refresh.
LockInv ==
    /\ held \in [Replicas -> Int]
    /\ \A r, q \in Replicas : held[r] > 0 /\ held[q] > 0 => r = q

\* A minute that was taken in time is behind last_recalc_at for good: the
\* compare-and-set of every other tick fails.
Recalculating == {r \in Replicas : tick[r].stage = "recalculate"}
Recorded == DOMAIN runs \cup {tick[r].taken : r \in Recalculating}

Settled(s, m) ==
    /\ s \in used /\ m <= DbNow
    /\ shop[s] # NoVal => shop[s].last # NoVal /\ m <= shop[s].last

RunsInv ==
    /\ DOMAIN runs \subseteq ShopIds \X Int
    /\ \A due \in Recorded \ early : Settled(due[1], due[2])
    /\ \A due \in DOMAIN runs \ early : runs[due] = 1
    /\ \A r \in Recalculating : tick[r].taken \notin early =>
        /\ tick[r].taken \notin DOMAIN runs
        /\ \A q \in Recalculating : tick[q].taken = tick[r].taken => q = r

SchedInv == ShopInv /\ CompInv /\ CheckInv /\ TickInv /\ LockInv /\ RunsInv

-----------------------------------------------------------------------------
(* What one module's step leaves alone in the others.                      *)

\* A request may remove a shop or give a new one an identity; it never writes
\* last_recalc_at.
ShopMoves ==
    /\ used \subseteq used'
    /\ \A s \in ShopIds : s \in used =>
           shop'[s] = NoVal \/ (shop[s] # NoVal /\ shop'[s].last = shop[s].last)

LEMMA CompKept ==
    ASSUME CompInv, CheckInv, UNCHANGED compVars, used \subseteq used'
    PROVE  CompInv' /\ CheckInv'
BY DEF CompInv, CheckInv, compVars, Verified, Explained, Duplicate, Siblings

LEMMA ShopKept ==
    ASSUME ShopInv, UNCHANGED <<shop, call>>, used \subseteq used'
    PROVE  ShopInv' /\ ShopMoves
BY DEF ShopInv, ShopMoves

LEMMA Spent ==
    ASSUME TickInv, NEW what \in {"minutes", "shops", "comps", "faults"}, Spend(what)
    PROVE  /\ left' \in [{"lag", "minutes", "shops", "comps", "faults"} -> Nat]
           /\ left'.lag = left.lag
BY DEF TickInv, Spend

LEMMA TicksKept ==
    ASSUME TickInv, UNCHANGED <<now, tick>>,
           left' \in [{"lag", "minutes", "shops", "comps", "faults"} -> Nat]
    PROVE  TickInv'
BY DEF TickInv

\* What was settled stays settled while the clock goes on.
LEMMA StaysSettled ==
    ASSUME NEW s \in ShopIds, NEW m \in Int, ShopMoves, Settled(s, m),
           DbNow \in Int, DbNow' \in Int, DbNow <= DbNow'
    PROVE  Settled(s, m)'
BY DEF ShopMoves, Settled

LEMMA RecordedTyped ==
    ASSUME TickInv, RunsInv
    PROVE  Recorded \subseteq ShopIds \X Int
BY DEF TickInv, RunsInv, Recorded, Recalculating, TickRec, NoTick

LEMMA RunsKept ==
    ASSUME SchedInv, ShopMoves, UNCHANGED <<tick, runs, early>>,
           DbNow' \in Int, DbNow <= DbNow'
    PROVE  RunsInv'
<1> USE DEF SchedInv
<1>1. Recorded' = Recorded /\ Recalculating' = Recalculating
    BY DEF Recorded, Recalculating
<1>2. DbNow \in Int
    BY DEF TickInv, DbNow
<1>3. \A due \in Recorded \ early : Settled(due[1], due[2])'
  <2> SUFFICES ASSUME NEW due \in Recorded \ early PROVE Settled(due[1], due[2])'
      OBVIOUS
  <2>1. due[1] \in ShopIds /\ due[2] \in Int
      BY RecordedTyped
  <2>2. Settled(due[1], due[2])
      BY DEF RunsInv
  <2> QED  BY <1>2, <2>1, <2>2, StaysSettled
<1> QED  BY <1>1, <1>3 DEF RunsInv

\* A step of requests and checks alone.
LEMMA RequestsKeep ==
    ASSUME SchedInv, ShopInv', CompInv', CheckInv', ShopMoves,
           UNCHANGED <<now, tick, held, runs, early>>,
           UNCHANGED left \/ \E what \in {"minutes", "shops", "comps", "faults"} : Spend(what)
    PROVE  SchedInv'
<1>1. /\ left' \in [{"lag", "minutes", "shops", "comps", "faults"} -> Nat]
      /\ left'.lag = left.lag
    BY Spent DEF SchedInv, TickInv
<1>2. DbNow' = DbNow /\ DbNow \in Int /\ DbNow <= DbNow'
    BY <1>1 DEF DbNow, SchedInv, TickInv
<1> QED  BY <1>1, <1>2, TicksKept, RunsKept DEF SchedInv, LockInv

-----------------------------------------------------------------------------
(* Requests about shops.                                                   *)

LEMMA CreateShopKeeps ==
    ASSUME SchedInv, NEW s \in ShopIds, CreateShop(s, now)
    PROVE  ShopInv' /\ ShopMoves
<1> DEFINE row == [status |-> "draft", creds |-> "sealed", cron |-> DefaultCron,
                   last |-> NoVal, created |-> now]
<1>1. row \in ShopRow(Int)
    BY ShopAssumption DEF SchedInv, TickInv, ShopRow, ShopStatuses, ShopAssumption
<1>2. /\ shop' = [shop EXCEPT ![s] = row] /\ s \notin used
      /\ used' = used \cup {s} /\ call' = call
    BY DEF CreateShop
<1> HIDE DEF row
<1> QED  BY <1>1, <1>2 DEF SchedInv, ShopInv, ShopMoves

LEMMA ReadShopKeeps ==
    ASSUME ShopInv, NEW c \in Clients, NEW s \in ShopIds,
           BeginUpdate(c, s) \/ BeginTest(c, s) \/ BeginBackfill(c, s)
    PROVE  ShopInv' /\ ShopMoves
<1>1. ASSUME NEW op \in {"update", "test", "backfill"}, NEW row \in ShopRow(Int),
             ReadShop(c, op, s, row)
      PROVE  ShopInv' /\ ShopMoves
  <2>1. [op |-> op, id |-> s, row |-> row] \in CallRec
      BY DEF CallRec
  <2> QED  BY <1>1, <2>1 DEF ReadShop, ShopInv, ShopMoves
<1>2. ASSUME NEW p \in ShopPatches, shop[s] # NoVal
      PROVE  [f \in DOMAIN shop[s] |-> IF f \in DOMAIN p THEN p[f] ELSE shop[s][f]] \in ShopRow(Int)
  <2> DEFINE row == shop[s]
             new == [f \in DOMAIN row |-> IF f \in DOMAIN p THEN p[f] ELSE row[f]]
  <2>1. row \in ShopRow(Int)
      BY <1>2 DEF ShopInv
  <2> HIDE DEF row
  <2>2. DOMAIN row = {"status", "creds", "cron", "last", "created"}
      BY <2>1 DEF ShopRow
  <2>3. /\ new.status = row.status /\ new.last = row.last /\ new.created = row.created
        /\ new.creds \in {"plain", "sealed"} /\ new.cron \in Crons
      BY <2>1, <2>2, ShopAssumption DEF ShopRow, ShopAssumption
  <2>4. new = [status |-> new.status, creds |-> new.creds, cron |-> new.cron,
               last |-> new.last, created |-> new.created]
      BY <2>2
  <2> HIDE DEF new
  <2>5. new \in ShopRow(Int)
      BY <2>1, <2>3, <2>4 DEF ShopRow
  <2> QED  BY <2>5 DEF new, row
<1>3. CASE BeginUpdate(c, s)
    BY <1>1, <1>2, <1>3 DEF BeginUpdate, ReadShop
<1>4. CASE BeginTest(c, s) \/ BeginBackfill(c, s)
  <2>1. shop[s] \in ShopRow(Int)
      BY <1>4 DEF BeginTest, BeginBackfill, ReadShop, ShopInv
  <2> QED  BY <1>1, <1>4, <2>1 DEF BeginTest, BeginBackfill
<1> QED  BY <1>3, <1>4

LEMMA WriteShopKeeps ==
    ASSUME ShopInv, NEW c \in Clients,
           WriteUpdate(c) \/ WriteStatus(c) \/ WriteSealed(c) \/ LoseWrite(c)
    PROVE  ShopInv' /\ ShopMoves
<1>1. ASSUME NEW new, call[c] # NoCall, UNCHANGED used, call' = [call EXCEPT ![c] = NoCall],
             shop' = [shop EXCEPT ![Target(c)] = IF @ = NoVal THEN NoVal ELSE new],
             shop[Target(c)] # NoVal =>
                 new \in ShopRow(Int) /\ new.last = shop[Target(c)].last
      PROVE  ShopInv' /\ ShopMoves
    BY <1>1 DEF ShopInv, ShopMoves
<1>2. ASSUME call[c].op # "none"
      PROVE  call[c] \in CallRec /\ Target(c) \in ShopIds /\ call[c] # NoCall
    BY <1>2 DEF ShopInv, CallRec, NoCall, Target
<1>3. CASE WriteUpdate(c)
  <2> DEFINE new == Written(shop[Target(c)], call[c].row)
  <2>1. call[c] \in CallRec /\ call[c] # NoCall /\ Target(c) \in ShopIds
      BY <1>2, <1>3 DEF WriteUpdate, WriteRow
  <2>2. shop[Target(c)] # NoVal => new \in ShopRow(Int) /\ new.last = shop[Target(c)].last
      BY <2>1 DEF Written, ShopInv, ShopRow, CallRec
  <2> HIDE DEF new
  <2> QED  BY <1>1, <1>3, <2>1, <2>2 DEF WriteUpdate, WriteRow, new
<1>4. CASE WriteStatus(c)
  <2> PICK st \in {"active", "error"} : WriteRow(c, "test", [shop[Target(c)] EXCEPT !.status = st])
      BY <1>4 DEF WriteStatus
  <2> DEFINE new == [shop[Target(c)] EXCEPT !.status = st]
  <2>1. call[c] # NoCall /\ Target(c) \in ShopIds
      BY <1>2 DEF WriteRow
  <2>2. shop[Target(c)] # NoVal => new \in ShopRow(Int) /\ new.last = shop[Target(c)].last
      BY <2>1 DEF ShopInv, ShopRow, ShopStatuses
  <2>3. WriteRow(c, "test", new)
      OBVIOUS
  <2> HIDE DEF new
  <2> QED  BY <1>1, <2>1, <2>2, <2>3 DEF WriteRow
<1>5. CASE WriteSealed(c)
  <2> DEFINE new == [shop[Target(c)] EXCEPT !.creds = "sealed"]
  <2>1. call[c] # NoCall /\ Target(c) \in ShopIds
      BY <1>2, <1>5 DEF WriteSealed, WriteRow
  <2>2. shop[Target(c)] # NoVal => new \in ShopRow(Int) /\ new.last = shop[Target(c)].last
      BY <2>1 DEF ShopInv, ShopRow
  <2>3. WriteRow(c, "backfill", new)
      BY <1>5 DEF WriteSealed
  <2> HIDE DEF new
  <2> QED  BY <1>1, <2>1, <2>2, <2>3 DEF WriteRow
<1>6. CASE LoseWrite(c)
    BY <1>6 DEF LoseWrite, ShopInv, ShopMoves
<1> QED  BY <1>3, <1>4, <1>5, <1>6

-----------------------------------------------------------------------------
(* Requests about competitors.                                             *)

LEMMA Forgotten ==
    ASSUME CompInv, NEW cs \in SUBSET CompIds, Forget(cs)
    PROVE  /\ checked' \in [CompIds -> (SUBSET CompIds) \cup {NoVal}]
           /\ \A c \in CompIds : checked'[c] = NoVal <=> c \in cs \/ checked[c] = NoVal
           /\ stale' \subseteq Verified'
           /\ \A c \in CompIds : c \in overtaken /\ c \notin cs => c \in overtaken'
<1>1. /\ checked' \in [CompIds -> (SUBSET CompIds) \cup {NoVal}]
      /\ \A c \in CompIds : checked'[c] = NoVal <=> c \in cs \/ checked[c] = NoVal
    BY TargetAssumption DEF CompInv, Forget, TargetAssumption
<1> QED  BY <1>1 DEF CompInv, Forget, Verified

\* Rows that go: they are forgotten, and nobody gets their identity again.
LEMMA RemovedKeeps ==
    ASSUME CompInv, CheckInv, NEW cs \in SUBSET CompIds, Forget(cs),
           comp' = [c \in CompIds |-> IF c \in cs THEN NoVal ELSE comp[c]],
           UNCHANGED <<used, job, check>>
    PROVE  CompInv' /\ CheckInv'
<1>1. \A c \in CompIds : comp'[c] # NoVal => c \notin cs /\ comp'[c] = comp[c] /\ comp[c] # NoVal
    OBVIOUS
<1>2. \A c \in CompIds : comp'[c] # NoVal =>
        /\ c \in used
        /\ checked'[c] = NoVal <=> comp'[c].status = "pending"
        /\ comp'[c].price # NoVal => comp'[c].status = "ok"
        /\ comp'[c].price # NoVal => Explained(c)'
    BY <1>1, Forgotten DEF CompInv, Explained
<1>3. \A c \in CompIds : comp'[c] # NoVal => ~Duplicate(c, comp[c].market, comp[c].target)'
    BY <1>1 DEF CompInv, Duplicate, Siblings
<1>4. \A c \in CompIds : checked'[c] # NoVal => comp'[c] # NoVal
    BY Forgotten DEF CompInv
<1>5. comp' \in [CompIds -> CompRow \cup {NoVal}]
    BY DEF CompInv
<1>6. CompInv'
    BY <1>1, <1>2, <1>3, <1>4, <1>5, Forgotten DEF CompInv, Duplicate, Siblings
<1>7. CheckInv'
    BY <1>1 DEF CheckInv, CheckRow
<1> QED  BY <1>6, <1>7

\* A row that comes new, or whose target changes, and has not been checked.
LEMMA RetargetKeeps ==
    ASSUME CompInv, CheckInv, NEW c \in CompIds, NEW m \in Markets, NEW t \in Targets,
           ~Duplicate(c, m, t), Forget({c}) \/ (checked[c] = NoVal /\ UNCHANGED <<checked, stale, overtaken>>),
           NEW row, row \in CompRow, row.market = m, row.target = t, row.price = NoVal,
           row.status = "pending",
           comp' = [comp EXCEPT ![c] = row],
           comp[c] # NoVal => comp[c].market = m, 
           comp[c] # NoVal \/ c \notin used,
           used' = used \cup {c}, UNCHANGED <<job, check>>
    PROVE  CompInv' /\ CheckInv'
<1>1. /\ checked' \in [CompIds -> (SUBSET CompIds) \cup {NoVal}]
      /\ \A d \in CompIds : checked'[d] = NoVal <=> d = c \/ checked[d] = NoVal
      /\ stale' \subseteq Verified'
      /\ \A d \in CompIds : d \in overtaken /\ d # c => d \in overtaken'
  <2>1. CASE Forget({c})
      BY <2>1, Forgotten
  <2>2. CASE checked[c] = NoVal /\ UNCHANGED <<checked, stale, overtaken>>
      BY <2>2 DEF CompInv, Verified
  <2> QED  BY <2>1, <2>2
<1>2. comp'[c] = row /\ \A d \in CompIds \ {c} : comp'[d] = comp[d]
    BY DEF CompInv
<1>3. comp' \in [CompIds -> CompRow \cup {NoVal}]
    BY DEF CompInv
<1>4. \A d \in CompIds : comp'[d] # NoVal =>
        /\ d \in used'
        /\ checked'[d] = NoVal <=> comp'[d].status = "pending"
        /\ comp'[d].price # NoVal => comp'[d].status = "ok"
        /\ comp'[d].price # NoVal => Explained(d)'
    BY <1>1, <1>2 DEF CompInv, Explained
<1>5. \A d \in CompIds : comp'[d] # NoVal => ~Duplicate(d, comp[d].market, comp[d].target)'
  <2> SUFFICES ASSUME NEW d \in CompIds, comp'[d] # NoVal,
                      NEW e \in CompIds, e # d, ShopOf[e] = ShopOf[d], comp'[e] # NoVal,
                      comp'[e].market = comp'[d].market, comp'[e].target = comp'[d].target
               PROVE  FALSE
      BY DEF Duplicate, Siblings
  <2>1. CASE d = c
      BY <1>2, <2>1 DEF Duplicate, Siblings
  <2>2. CASE e = c
      BY <1>2, <2>2 DEF Duplicate, Siblings
  <2>3. CASE d # c /\ e # c
      BY <1>2, <2>3 DEF CompInv, Duplicate, Siblings
  <2> QED  BY <2>1, <2>2, <2>3
<1>6. \A d \in CompIds : checked'[d] # NoVal => comp'[d] # NoVal
    BY <1>1, <1>2 DEF CompInv
<1>7. CompInv'
    BY <1>1, <1>3, <1>4, <1>5, <1>6 DEF CompInv, Duplicate, Siblings
<1>8. \A x \in Checkers : check[x] # NoVal =>
        /\ check[x].id \in used'
        /\ comp'[check[x].id] # NoVal => comp'[check[x].id].market = check[x].row.market
  <2> SUFFICES ASSUME NEW x \in Checkers, check[x] # NoVal, comp'[check[x].id] # NoVal
               PROVE  comp'[check[x].id].market = check[x].row.market
      BY DEF CheckInv
  <2>1. check[x].id \in CompIds /\ check[x].id \in used
      BY DEF CheckInv, CheckRow
  <2> QED  BY <1>2, <2>1 DEF CheckInv
<1>9. CheckInv'
    BY <1>8 DEF CheckInv
<1> QED  BY <1>7, <1>9

LEMMA MarketOf ==
    ASSUME NEW t \in Targets
    PROVE  t.market \in Markets /\ t = [market |-> t.market, id |-> t.id] /\ t \in Quotes
BY TargetAssumption DEF TargetAssumption, Quotes

LEMMA CompetitorRequestKeeps ==
    ASSUME SchedInv, CompetitorRequest
    PROVE  SchedInv'
<1> USE DEF SchedInv
<1>1. PICK c \in CompIds :
        \/ \E t \in Targets : CreateCompetitor(c, t) \/ UpdateCompetitor(c, t)
        \/ DeleteCompetitor(c)
        \/ \E x \in Clients : RequestCheck(x, c)
    BY DEF CompetitorRequest
<1>2. UNCHANGED <<now, tick, held, runs, early>> /\ Spend("comps")
    BY DEF CompetitorRequest
<1>3. ASSUME NEW t \in Targets, CreateCompetitor(c, t)
      PROVE  SchedInv'
  <2> DEFINE row == [market |-> t.market, target |-> t, price |-> NoVal, status |-> "pending"]
  <2>1. /\ row \in CompRow /\ row.market = t.market /\ row.target = t
        /\ row.price = NoVal /\ row.status = "pending"
      BY MarketOf DEF CompRow
  <2>2. /\ c \notin used /\ ~Duplicate(c, t.market, t) /\ comp' = [comp EXCEPT ![c] = row]
        /\ used' = used \cup {c}
        /\ UNCHANGED <<shop, call, checked, stale, job, check, overtaken>>
      BY <1>3 DEF CreateCompetitor
  <2> HIDE DEF row
  <2>3. comp[c] = NoVal /\ checked[c] = NoVal /\ t.market \in Markets
      BY <2>2, MarketOf DEF CompInv
  <2>4. CompInv' /\ CheckInv'
      BY <2>1, <2>2, <2>3, RetargetKeeps
  <2> QED  BY <1>2, <2>2, <2>4, ShopKept, RequestsKeep
<1>4. ASSUME NEW t \in Targets, UpdateCompetitor(c, t)
      PROVE  SchedInv'
  <2> DEFINE row == [comp[c] EXCEPT !.target = t, !.price = NoVal, !.status = "pending"]
  <2>1. /\ comp[c] # NoVal /\ ~Duplicate(c, comp[c].market, t) /\ comp' = [comp EXCEPT ![c] = row]
        /\ Forget({c}) /\ UNCHANGED <<shop, used, call, job, check>>
      BY <1>4 DEF UpdateCompetitor, Retargeted, shopVars
  <2>2. comp[c] \in CompRow /\ c \in used
      BY <2>1 DEF CompInv
  <2>3. /\ row \in CompRow /\ row.market = comp[c].market /\ row.target = t
        /\ row.price = NoVal /\ row.status = "pending"
      BY <2>2 DEF CompRow
  <2> HIDE DEF row
  <2>4. comp[c].market \in Markets /\ used' = used \cup {c}
      BY <2>1, <2>2 DEF CompRow
  <2>5. CompInv' /\ CheckInv'
      BY <2>1, <2>3, <2>4, RetargetKeeps
  <2> QED  BY <1>2, <2>1, <2>5, ShopKept, RequestsKeep
<1>5. ASSUME DeleteCompetitor(c)
      PROVE  SchedInv'
  <2>1. /\ comp' = [d \in CompIds |-> IF d \in {c} THEN NoVal ELSE comp[d]]
        /\ Forget({c}) /\ UNCHANGED <<shop, used, call, job, check>>
      BY <1>5 DEF DeleteCompetitor, shopVars, CompInv
  <2>2. CompInv' /\ CheckInv'
      BY <2>1, RemovedKeeps
  <2> QED  BY <1>2, <2>1, <2>2, ShopKept, RequestsKeep
<1>6. ASSUME NEW x \in Clients, RequestCheck(x, c)
      PROVE  SchedInv'
  <2> DEFINE row == [id |-> c, row |-> comp[c]]
  <2>1. /\ check' = [check EXCEPT ![x] = row] /\ comp[c] # NoVal
        /\ UNCHANGED <<shop, used, call, comp, checked, stale, job, overtaken>>
      BY <1>6 DEF RequestCheck, BeginCheck, shopVars
  <2>2. row \in CheckRow /\ row.id = c /\ row.row = comp[c] /\ c \in used
      BY <2>1 DEF CheckRow, CompInv
  <2> HIDE DEF row
  <2>3. x \in Checkers /\ x \notin JobIds
      BY CompetitorAssumption DEF Checkers, CompetitorAssumption
  <2>4. check'[x] = row /\ \A y \in Checkers \ {x} : check'[y] = check[y]
      BY <2>1, <2>3 DEF CheckInv
  <2>5. CheckInv'
      BY <2>1, <2>2, <2>3, <2>4 DEF CheckInv, Checkers
  <2>6. CompInv'
      BY <2>1 DEF CompInv, Verified, Explained, Duplicate, Siblings
  <2> QED  BY <1>2, <2>1, <2>5, <2>6, ShopKept, RequestsKeep
<1> QED  BY <1>1, <1>3, <1>4, <1>5, <1>6

LEMMA DeleteShopKeeps ==
    ASSUME SchedInv, NEW s \in ShopIds, DeleteShop(s)
    PROVE  ShopInv' /\ ShopMoves /\ CompInv' /\ CheckInv'
<1> USE DEF SchedInv
<1> DEFINE cs == {c \in CompIds : ShopOf[c] = s}
<1>1. /\ shop' = [shop EXCEPT ![s] = NoVal] /\ UNCHANGED <<used, call, job, check>>
      /\ comp' = [c \in CompIds |-> IF c \in cs THEN NoVal ELSE comp[c]]
      /\ Forget(cs)
    BY DEF DeleteShop, DropShop
<1>2. cs \in SUBSET CompIds
    OBVIOUS
<1> HIDE DEF cs
<1>3. CompInv' /\ CheckInv'
    BY <1>1, <1>2, RemovedKeeps
<1> QED  BY <1>1, <1>3 DEF ShopInv, ShopMoves

LEMMA ShopStepKeeps ==
    ASSUME SchedInv, ShopRequest \/ ShopAnswer
    PROVE  SchedInv'
<1>1. ASSUME ShopInv', ShopMoves, UNCHANGED compVars
      PROVE  CompInv' /\ CheckInv'
    BY <1>1, CompKept DEF SchedInv, ShopMoves
<1>2. CASE ShopRequest
  <2>1. UNCHANGED <<now, tick, held, runs, early>> /\ Spend("shops")
      BY <1>2 DEF ShopRequest
  <2>2. PICK s \in ShopIds :
          \/ CreateShop(s, now) /\ UNCHANGED compVars
          \/ \E c \in Clients : /\ BeginUpdate(c, s) \/ BeginTest(c, s) \/ BeginBackfill(c, s)
                                /\ UNCHANGED compVars
          \/ DeleteShop(s)
      BY <1>2 DEF ShopRequest
  <2>3. ShopInv' /\ ShopMoves /\ CompInv' /\ CheckInv'
      BY <1>1, <2>2, CreateShopKeeps, ReadShopKeeps, DeleteShopKeeps DEF SchedInv
  <2> QED  BY <2>1, <2>3, RequestsKeep
<1>3. CASE ShopAnswer
  <2>1. UNCHANGED <<now, tick, held, runs, early, left>> /\ UNCHANGED compVars
      BY <1>3 DEF ShopAnswer, schedVars
  <2>2. ShopInv' /\ ShopMoves
      BY <1>3, WriteShopKeeps DEF ShopAnswer, SchedInv
  <2> QED  BY <1>1, <2>1, <2>2, RequestsKeep
<1> QED  BY <1>2, <1>3

-----------------------------------------------------------------------------
(* Checks.                                                                 *)

\* Every marketplace adapter answers for the number it was asked about.
LEMMA LookupTyped ==
    ASSUME NEW row \in CompRow
    PROVE  /\ Lookup(row) \subseteq Quotes
           /\ row.target.market = row.market => \A q \in Lookup(row) : q = row.target
<1>1. /\ row.target \in Targets /\ row.target \in Quotes /\ row.market \in Markets
      /\ row.target = [market |-> row.target.market, id |-> row.target.id]
    BY MarketOf DEF CompRow
<1>2. /\ WBLookup(row) \subseteq Quotes /\ BFFLookup(row) \subseteq Quotes
      /\ HTMLLookup(row) \subseteq Quotes /\ MPStatsLookup(row) \subseteq Quotes
    BY <1>1 DEF WBLookup, BFFLookup, HTMLLookup, MPStatsLookup, Quotes, Markets
<1>3. /\ row.target.market = "wb" => \A q \in WBLookup(row) : q = row.target
      /\ row.target.market = "ozon" => \A q \in BFFLookup(row) : q = row.target
      /\ \A q \in HTMLLookup(row) : q = row.target
      /\ \A q \in MPStatsLookup(row) : q = row.target
    BY <1>1 DEF WBLookup, BFFLookup, HTMLLookup, MPStatsLookup
<1>4. SelectOzonLookup(row) \in {BFFLookup(row), HTMLLookup(row), MPStatsLookup(row)}
    BY CompetitorAssumption DEF SelectOzonLookup, CompetitorAssumption
<1> QED  BY <1>1, <1>2, <1>3, <1>4 DEF Lookup, Markets

\* The answer of a check is written by id, whatever became of the row.
LEMMA SavedKeeps ==
    ASSUME CompInv, CheckInv, NEW x \in Checkers, check[x] # NoVal, SaveCheckResult(x),
           UNCHANGED used
    PROVE  /\ CompInv'
           /\ \A c \in CompIds : comp'[c] # NoVal => comp[c] # NoVal /\ comp'[c].market = comp[c].market
<1> PICK c : c = check[x].id
    OBVIOUS
<1>1. /\ c \in CompIds /\ check[x].row \in CompRow
      /\ comp[c] # NoVal => comp[c].market = check[x].row.market
    BY DEF CheckInv, CheckRow
<1>2. CASE comp[c] = NoVal
  <2>1. UNCHANGED <<comp, checked, stale, overtaken>>
      BY <1>2 DEF SaveCheckResult
  <2> QED  BY <2>1 DEF CompInv, Verified, Explained, Duplicate, Siblings
<1>3. CASE comp[c] # NoVal
  <2>1. PICK r \in CheckResults(check[x].row) :
          comp' = [comp EXCEPT ![c].status = r.status, ![c].price = r.price]
      BY <1>3 DEF SaveCheckResult
  <2>2. /\ checked' = [d \in CompIds |-> IF d = c THEN Verified \ {c}
                                         ELSE IF checked[d] = NoVal THEN NoVal
                                         ELSE checked[d] \ {c}]
        /\ stale' = stale \ {c}
        /\ overtaken' = IF comp[c].target # check[x].row.target
                        THEN overtaken \cup {c} ELSE overtaken \ {c}
      BY <1>3 DEF SaveCheckResult
  <2> DEFINE row == [comp[c] EXCEPT !.status = r.status, !.price = r.price]
             asked == check[x].row
  <2>3. /\ r.status \in {"ok", "failed"}
        /\ r.price \in Lookup(asked) \cup {NoVal}
        /\ r.price # NoVal => r.status = "ok"
      BY DEF CheckResults
  <2>4. r.price \in Quotes \cup {NoVal}
      BY <1>1, <2>3, LookupTyped
  <2>5. comp[c] \in CompRow
      BY <1>1, <1>3 DEF CompInv
  <2>6. /\ row \in CompRow /\ row.market = comp[c].market /\ row.target = comp[c].target
        /\ row.status = r.status /\ row.price = r.price
      BY <2>3, <2>4, <2>5 DEF CompRow
  <2>7. comp' = [comp EXCEPT ![c] = row]
      BY <2>1
  <2> HIDE DEF row
  <2>8. comp'[c] = row /\ \A d \in CompIds \ {c} : comp'[d] = comp[d]
      BY <1>1, <2>7 DEF CompInv
  <2>9. comp' \in [CompIds -> CompRow \cup {NoVal}]
      BY <2>6, <2>7 DEF CompInv
  <2>10. /\ checked' \in [CompIds -> (SUBSET CompIds) \cup {NoVal}]
         /\ \A d \in CompIds : checked'[d] = NoVal <=> d # c /\ checked[d] = NoVal
      BY <2>2, TargetAssumption DEF CompInv, Verified, TargetAssumption
  <2>11. stale' \subseteq Verified'
      BY <2>2, <2>10 DEF CompInv, Verified
  <2>12. ASSUME r.price # NoVal PROVE Explained(c)'
    <3>1. CASE comp[c].target # check[x].row.target
        BY <2>2, <3>1 DEF Explained
    <3>2. CASE comp[c].target = check[x].row.target
      <4>1. asked.target.market = asked.market => r.price = asked.target
          BY <1>1, <2>3, <2>12, LookupTyped
      <4> QED  BY <1>1, <1>3, <2>6, <2>8, <3>2, <4>1 DEF Explained
    <3> QED  BY <3>1, <3>2
  <2>13. \A d \in CompIds : comp'[d] # NoVal =>
          /\ comp[d] # NoVal /\ comp'[d].market = comp[d].market /\ comp'[d].target = comp[d].target
          /\ d \in used
          /\ checked'[d] = NoVal <=> comp'[d].status = "pending"
          /\ comp'[d].price # NoVal => comp'[d].status = "ok"
          /\ comp'[d].price # NoVal => Explained(d)'
    <3> SUFFICES ASSUME NEW d \in CompIds, comp'[d] # NoVal
                 PROVE  /\ comp[d] # NoVal /\ comp'[d].market = comp[d].market
                        /\ comp'[d].target = comp[d].target
                        /\ d \in used
                        /\ checked'[d] = NoVal <=> comp'[d].status = "pending"
                        /\ comp'[d].price # NoVal => comp'[d].status = "ok"
                        /\ comp'[d].price # NoVal => Explained(d)'
        OBVIOUS
    <3>1. CASE d = c
        BY <1>3, <2>3, <2>6, <2>8, <2>10, <2>12, <3>1 DEF CompInv
    <3>2. CASE d # c
      <4>1. comp'[d] = comp[d] /\ (d \in overtaken => d \in overtaken')
          BY <2>2, <2>8, <3>2
      <4> QED  BY <2>10, <3>2, <4>1 DEF CompInv, Explained
    <3> QED  BY <3>1, <3>2
  <2>14. \A d \in CompIds : comp'[d] # NoVal => ~Duplicate(d, comp[d].market, comp[d].target)'
      BY <2>13 DEF CompInv, Duplicate, Siblings
  <2>15. \A d \in CompIds : checked'[d] # NoVal => comp'[d] # NoVal
    <3>1. row # NoVal
        BY <2>6, TargetAssumption DEF TargetAssumption
    <3> QED  BY <2>8, <2>10, <3>1 DEF CompInv
  <2>16. CompInv'
      BY <2>9, <2>10, <2>11, <2>13, <2>14, <2>15 DEF CompInv, Duplicate, Siblings
  <2> QED  BY <2>13, <2>16
<1> QED  BY <1>2, <1>3

LEMMA JobTried ==
    ASSUME NEW row \in JobRow
    PROVE  AfterTry(row) \in JobRow \cup {NoVal}
           /\ (AfterTry(row) # NoVal => AfterTry(row).tries < MaxTries)
BY DEF AfterTry

\* A check ends: its marketplace facts stay, and its job keeps an attempt or goes.
LEMMA CheckEnds ==
    ASSUME CheckInv, NEW x \in Checkers, check' = [check EXCEPT ![x] = NoVal],
           used \subseteq used',
           \A c \in CompIds : comp'[c] # NoVal => comp[c] # NoVal /\ comp'[c].market = comp[c].market,
           IF x \in JobIds THEN check[x] # NoVal /\ AfterAttempt(x) ELSE UNCHANGED job
    PROVE  CheckInv'
<1>1. check'[x] = NoVal /\ \A y \in Checkers \ {x} : check'[y] = check[y]
    BY DEF CheckInv
<1>2. check' \in [Checkers -> CheckRow \cup {NoVal}]
    BY DEF CheckInv
<1>3. \A y \in Checkers : check'[y] # NoVal =>
        /\ check'[y].id \in used'
        /\ comp'[check'[y].id] # NoVal => comp'[check'[y].id].market = check'[y].row.market
    BY <1>1 DEF CheckInv, CheckRow
<1>4. /\ job' \in [JobIds -> JobRow \cup {NoVal}]
      /\ \A j \in JobIds :
            /\ check'[j] # NoVal => job'[j] \in JobRow
            /\ check'[j] = NoVal /\ job'[j] # NoVal => job'[j].tries < MaxTries
  <2>1. CASE x \in JobIds
    <3>1. job[x] \in JobRow /\ job' = [job EXCEPT ![x] = AfterTry(job[x])]
        BY <2>1 DEF CheckInv, AfterAttempt
    <3> QED  BY <1>1, <2>1, <3>1, JobTried DEF CheckInv, Checkers
  <2>2. CASE x \notin JobIds
      BY <1>1, <2>2 DEF CheckInv, Checkers
  <2> QED  BY <2>1, <2>2
<1> QED  BY <1>2, <1>3, <1>4 DEF CheckInv

LEMMA FinishKeeps ==
    ASSUME SchedInv, NEW j \in JobIds, FinishRefresh(j)
    PROVE  CompInv' /\ CheckInv' /\ UNCHANGED <<shop, used, call>>
<1>1. /\ check[j] # NoVal /\ SaveCheckResult(j) /\ check' = [check EXCEPT ![j] = NoVal]
      /\ UNCHANGED <<shop, used, call>> /\ AfterAttempt(j) /\ j \in Checkers
    BY DEF FinishRefresh, shopVars, Checkers
<1>2. /\ CompInv'
      /\ \A c \in CompIds : comp'[c] # NoVal => comp[c] # NoVal /\ comp'[c].market = comp[c].market
    BY <1>1, SavedKeeps DEF SchedInv
<1> QED  BY <1>1, <1>2, CheckEnds DEF SchedInv

LEMMA ClaimKeeps ==
    ASSUME SchedInv, NEW j \in JobIds, ClaimRefresh(j)
    PROVE  CompInv' /\ CheckInv'
<1> USE DEF SchedInv
<1> DEFINE tried == [job[j] EXCEPT !.tries = @ + 1]
<1>1. /\ job[j] # NoVal /\ check[j] = NoVal
      /\ UNCHANGED <<shop, used, call, comp, checked, stale, overtaken>>
    BY DEF ClaimRefresh, shopVars
<1>2. job[j] \in JobRow /\ job[j].tries < MaxTries /\ j \in Checkers
    BY <1>1 DEF CheckInv, Checkers
<1>3. tried \in JobRow
  <2>1. job[j].tries + 1 \in 0..MaxTries
      BY <1>2, CompetitorAssumption DEF JobRow, CompetitorAssumption
  <2> PICK n : n = job[j].tries + 1
      OBVIOUS
  <2>2. tried = [job[j] EXCEPT !.tries = n]
      OBVIOUS
  <2> QED  BY <1>2, <2>1, <2>2 DEF JobRow
<1>4. CompInv'
    BY <1>1 DEF CompInv, Verified, Explained, Duplicate, Siblings
<1>5. CASE comp[job[j].comp] # NoVal
  <2> PICK c : c = job[j].comp
      OBVIOUS
  <2>1. BeginCheck(j, c) /\ job' = [job EXCEPT ![j] = tried]
      BY <1>5 DEF ClaimRefresh
  <2> HIDE DEF tried
  <2> PICK row : row = [id |-> c, row |-> comp[c]]
      OBVIOUS
  <2>2. comp[c] # NoVal /\ c \in CompIds
      BY <1>2, <1>5 DEF JobRow
  <2>3. row \in CheckRow /\ row.id = c /\ row.row = comp[c] /\ c \in used
      BY <2>2 DEF CheckRow, CompInv
  <2>4. check'[j] = row /\ \A y \in Checkers \ {j} : check'[y] = check[y]
      BY <1>2, <2>1 DEF BeginCheck, CheckInv
  <2>5. check' \in [Checkers -> CheckRow \cup {NoVal}]
      BY <2>1, <2>3 DEF BeginCheck, CheckInv
  <2>6. \A y \in Checkers : check'[y] # NoVal =>
          /\ check'[y].id \in used'
          /\ comp'[check'[y].id] # NoVal => comp'[check'[y].id].market = check'[y].row.market
      BY <1>1, <2>3, <2>4 DEF CheckInv
  <2>7. /\ job' \in [JobIds -> JobRow \cup {NoVal}]
        /\ job'[j] = tried /\ \A i \in JobIds \ {j} : job'[i] = job[i]
      BY <1>3, <2>1 DEF CheckInv
  <2>8. row # NoVal
      BY <2>3, TargetAssumption DEF TargetAssumption
  <2>9. CheckInv'
      BY <1>3, <2>4, <2>5, <2>6, <2>7, <2>8 DEF CheckInv, Checkers
  <2> QED  BY <1>4, <2>9
<1>6. CASE comp[job[j].comp] = NoVal
  <2>1. job' = [job EXCEPT ![j] = AfterTry(tried)] /\ UNCHANGED check
      BY <1>6 DEF ClaimRefresh
  <2> HIDE DEF tried
  <2>2. CheckInv'
      BY <1>1, <1>3, <2>1, JobTried DEF CheckInv
  <2> QED  BY <1>4, <2>2
<1> QED  BY <1>5, <1>6

LEMMA LoseCheckKeeps ==
    ASSUME SchedInv, NEW x \in Checkers, LoseCheck(x)
    PROVE  CompInv' /\ CheckInv' /\ UNCHANGED <<shop, used, call>>
<1>1. /\ check[x] # NoVal /\ check' = [check EXCEPT ![x] = NoVal]
      /\ UNCHANGED <<shop, used, call, comp, checked, stale, overtaken>>
      /\ IF x \in JobIds THEN check[x] # NoVal /\ AfterAttempt(x) ELSE UNCHANGED job
    BY DEF LoseCheck, shopVars
<1>2. CompInv'
    BY <1>1 DEF SchedInv, CompInv, Verified, Explained, Duplicate, Siblings
<1> QED  BY <1>1, <1>2, CheckEnds DEF SchedInv

LEMMA CheckStepKeeps ==
    ASSUME SchedInv, CheckStep \/ LoseOneCheck
    PROVE  SchedInv'
<1>1. ASSUME NEW x \in Clients, AnswerCheck(x)
      PROVE  CompInv' /\ CheckInv' /\ UNCHANGED <<shop, used, call>>
  <2>1. x \in Checkers /\ x \notin JobIds
      BY CompetitorAssumption DEF Checkers, CompetitorAssumption
  <2>2. SaveCheckResult(x) /\ check[x] # NoVal /\ check' = [check EXCEPT ![x] = NoVal]
        /\ UNCHANGED <<shop, used, call, job>>
      BY <1>1 DEF AnswerCheck, shopVars
  <2>3. /\ CompInv'
        /\ \A c \in CompIds : comp'[c] # NoVal => comp[c] # NoVal /\ comp'[c].market = comp[c].market
      BY <2>1, <2>2, SavedKeeps DEF SchedInv
  <2>4. CheckInv'
      BY <2>1, <2>2, <2>3, CheckEnds DEF SchedInv
  <2> QED  BY <2>2, <2>3, <2>4
<1>2. ASSUME GoesStale
      PROVE  CompInv' /\ CheckInv' /\ UNCHANGED <<shop, used, call>>
  <2>1. UNCHANGED <<shop, used, call, comp, checked, job, check, overtaken>>
      BY <1>2 DEF GoesStale, shopVars
  <2>2. stale' \subseteq Verified
      BY <1>2 DEF GoesStale, SchedInv, CompInv
  <2> QED  BY <2>1, <2>2 DEF SchedInv, CompInv, CheckInv, Verified, Explained, Duplicate, Siblings
<1>3. CompInv' /\ CheckInv' /\ UNCHANGED <<shop, used, call>>
    BY <1>1, <1>2, FinishKeeps, ClaimKeeps, LoseCheckKeeps DEF CheckStep, LoseOneCheck, ClaimRefresh, shopVars
<1>4. /\ UNCHANGED <<now, tick, held, runs, early>>
      /\ UNCHANGED left \/ Spend("faults")
    BY DEF CheckStep, LoseOneCheck, schedVars
<1> QED  BY <1>3, <1>4, ShopKept, RequestsKeep DEF SchedInv

-----------------------------------------------------------------------------
(* Ticks.                                                                  *)

\* The next minute of a schedule is later than the one it is computed from.
LEMMA NextRunLater ==
    ASSUME NEW cron \in Nat \ {0}, NEW t \in Int
    PROVE  NextRun(cron, t) \in Int /\ NextRun(cron, t) > t
<1>1. PICK q \in Int : q = t \div cron
    OBVIOUS
<1>2. t < (q + 1) * cron
    BY <1>1
<1> QED  BY <1>1, <1>2 DEF NextRun

LEMMA DueTyped ==
    ASSUME SchedInv
    PROVE  DueShops \subseteq Entry
<1> SUFFICES ASSUME NEW s \in ListSchedulable, DueMinute(shop[s], now) # NoVal
             PROVE  <<s, shop[s], DueMinute(shop[s], now)>> \in Entry
    BY DEF DueShops
<1>1. s \in ShopIds /\ shop[s] \in ShopRow(Int) /\ shop[s].cron # NoCron
    BY DEF ListSchedulable, SchedInv, ShopInv
<1> DEFINE row == shop[s]
           base == IF row.last = NoVal THEN row.created ELSE row.last
           due == DueMinute(row, now)
<1>2. row.cron # BadCron /\ due = NextRun(row.cron, base)
    BY DEF DueMinute
<1>3. row.cron \in Nat \ {0} /\ base \in Int
    BY <1>1, <1>2, ShopAssumption DEF ShopRow, ShopAssumption, NoCron, BadCron
<1>4. due \in Int /\ due > base
    BY <1>2, <1>3, NextRunLater
<1> HIDE DEF due
<1>5. row.last = NoVal \/ row.last < due
    BY <1>4
<1> HIDE DEF row
<1>6. <<s, row, due>> \in Entry
    BY <1>1, <1>4, <1>5 DEF Entry, row
<1> QED  BY <1>6 DEF row, due

\* Steps of one replica that only change its tick.
LEMMA TickTyped ==
    ASSUME TickInv, NEW r \in Replicas, NEW t \in TickRec, tick' = [tick EXCEPT ![r] = t],
           UNCHANGED now,
           UNCHANGED left \/ \E what \in {"minutes", "shops", "comps", "faults"} : Spend(what)
    PROVE  TickInv' /\ DbNow' = DbNow
<1>1. /\ left' \in [{"lag", "minutes", "shops", "comps", "faults"} -> Nat]
      /\ left'.lag = left.lag
    BY Spent DEF TickInv
<1> QED  BY <1>1 DEF TickInv, DbNow

LEMMA ProceedTyped ==
    ASSUME NEW todo \in SUBSET Entry
    PROVE  (IF todo = {} THEN NoTick ELSE [stage |-> "shops", todo |-> todo]) \in TickRec
           /\ (IF todo = {} THEN NoTick ELSE [stage |-> "shops", todo |-> todo]).stage # "recalculate"
BY DEF TickRec, NoTick

\* A tick that lets go of a shop, or starts: nothing new is recorded.
LEMMA TickKeeps ==
    ASSUME SchedInv, NEW r \in Replicas, NEW t \in TickRec, tick' = [tick EXCEPT ![r] = t],
           t.stage # "recalculate", UNCHANGED <<shopVars, now, runs, early>>,
           UNCHANGED left \/ \E what \in {"minutes", "shops", "comps", "faults"} : Spend(what),
           CompInv', CheckInv', LockInv'
    PROVE  SchedInv'
<1> USE DEF SchedInv
<1>1. TickInv' /\ DbNow' = DbNow
    BY TickTyped
<1>2. ShopInv' /\ used' = used /\ shop' = shop
    BY DEF ShopInv, shopVars
<1>3. \A q \in Recalculating' : q \in Recalculating /\ tick'[q] = tick[q]
    BY DEF Recalculating, TickInv
<1>4. Recorded' \subseteq Recorded
    BY <1>3 DEF Recorded
<1>5. \A due \in Recorded' \ early : Settled(due[1], due[2])'
    BY <1>1, <1>2, <1>4 DEF RunsInv, Settled
<1>6. RunsInv'
    BY <1>3, <1>5 DEF RunsInv
<1> QED  BY <1>1, <1>2, <1>6

LEMMA MinuteKeeps ==
    ASSUME SchedInv, MinutePasses
    PROVE  SchedInv'
<1>1. /\ Spend("minutes") /\ now' = now + 1 /\ UNCHANGED <<tick, held, runs, early>>
      /\ UNCHANGED compVars /\ UNCHANGED <<shop, used, call>>
    BY DEF MinutePasses, shopVars
<1>2. /\ left' \in [{"lag", "minutes", "shops", "comps", "faults"} -> Nat]
      /\ left'.lag = left.lag
    BY <1>1, Spent DEF SchedInv
<1>3. DbNow' \in Int /\ DbNow <= DbNow'
    BY <1>1, <1>2 DEF DbNow, SchedInv, TickInv
<1>4. TickInv' /\ LockInv'
    BY <1>1, <1>2 DEF SchedInv, TickInv, LockInv
<1>5. ShopInv' /\ ShopMoves
    BY <1>1, ShopKept DEF SchedInv
<1> QED  BY <1>1, <1>3, <1>4, <1>5, CompKept, RunsKept DEF SchedInv

\* The compare-and-set: a minute that was taken in time is not taken again.
LEMMA TakeKeeps ==
    ASSUME SchedInv, NEW r \in Replicas, TakeShop(r)
    PROVE  SchedInv'
<1> USE DEF SchedInv
<1>1. /\ tick[r].stage = "shops"
      /\ UNCHANGED <<used, call, compVars, now, ticked, held, left, runs>>
    BY DEF TakeShop
<1>2. PICK e \in tick[r].todo :
        IF StillLast(e[1], e[2].last)
        THEN /\ TouchLastRecalcAt(e[1], DbNow)
             /\ early' = IF DbNow < e[3] THEN early \cup {<<e[1], e[3]>>} ELSE early
             /\ tick' = [tick EXCEPT ![r] = [stage |-> "recalculate", todo |-> tick[r].todo \ {e},
                                             taken |-> <<e[1], e[3]>>]]
        ELSE Proceed(r, tick[r].todo \ {e}) /\ UNCHANGED <<shop, early>>
    BY DEF TakeShop
<1>3. tick[r].todo \in SUBSET Entry
    BY <1>1 DEF TickInv, TickRec, NoTick
<1>4. CompInv' /\ CheckInv' /\ LockInv'
    BY <1>1, CompKept DEF LockInv
<1>5. CASE ~StillLast(e[1], e[2].last)
  <2> PICK t : t = IF tick[r].todo \ {e} = {} THEN NoTick
                   ELSE [stage |-> "shops", todo |-> tick[r].todo \ {e}]
      OBVIOUS
  <2>1. t \in TickRec /\ t.stage # "recalculate"
      BY <1>3, ProceedTyped
  <2>2. tick' = [tick EXCEPT ![r] = t] /\ UNCHANGED <<shop, early>>
      BY <1>2, <1>5 DEF Proceed
  <2> QED  BY <1>1, <1>4, <2>1, <2>2, TickKeeps DEF shopVars
<1>6. CASE StillLast(e[1], e[2].last)
  <2> PICK s \in ShopIds, m \in Int : s = e[1] /\ m = e[3]
      BY <1>3 DEF Entry
  <2> PICK t : t = [stage |-> "recalculate", todo |-> tick[r].todo \ {e}, taken |-> <<s, m>>]
      OBVIOUS
  <2>1. t \in TickRec /\ t.stage = "recalculate" /\ t.taken = <<s, m>>
      BY <1>3 DEF TickRec
  <2>2. /\ shop[s] # NoVal /\ shop[s].last = e[2].last
        /\ shop' = [shop EXCEPT ![s].last = DbNow]
        /\ early' = IF DbNow < m THEN early \cup {<<s, m>>} ELSE early
        /\ tick' = [tick EXCEPT ![r] = t]
      BY <1>2, <1>6 DEF StillLast, TouchLastRecalcAt
  <2>3. shop[s].last # NoVal => shop[s].last < m
      BY <1>3, <2>2 DEF Entry
  <2>4. DbNow \in Int /\ DbNow # NoVal
      BY ShopAssumption DEF TickInv, DbNow, ShopAssumption
  <2>5. TickInv' /\ DbNow' = DbNow
      BY <1>1, <2>1, <2>2, TickTyped
  <2> DEFINE row == [shop[s] EXCEPT !.last = DbNow]
  <2>6. row \in ShopRow(Int) /\ row.last = DbNow
      BY <2>2, <2>4 DEF ShopInv, ShopRow
  <2>7. shop' = [shop EXCEPT ![s] = row]
      BY <2>2
  <2> HIDE DEF row
  <2>8. shop'[s] = row /\ \A q \in ShopIds \ {s} : shop'[q] = shop[q]
      BY <2>7 DEF ShopInv
  <2>9. ShopInv'
      BY <1>1, <2>2, <2>6, <2>7 DEF ShopInv
  <2>10. /\ tick'[r] = t /\ \A q \in Replicas \ {r} : tick'[q] = tick[q]
         /\ Recalculating' = Recalculating \cup {r} /\ r \notin Recalculating
      BY <1>1, <2>1, <2>2 DEF TickInv, Recalculating
  <2>11. Recorded' \subseteq Recorded \cup {<<s, m>>}
    <3>1. \A q \in Recalculating' : q = r \/ (q \in Recalculating /\ tick'[q] = tick[q])
        BY <2>10 DEF Recalculating
    <3> QED  BY <1>1, <2>1, <2>10, <3>1 DEF Recorded
  <2>12. <<s, m>> \notin early => <<s, m>> \notin Recorded
    <3>1. ~(shop[s].last # NoVal /\ m <= shop[s].last)
        BY <2>2, <2>3 DEF ShopInv, ShopRow
    <3> QED  BY <2>2, <3>1 DEF RunsInv, Settled
  <2>13. <<s, m>> \notin early' => m <= DbNow
      BY <2>2, <2>4
  <2>14. \A due \in Recorded' \ early' : Settled(due[1], due[2])'
    <3> SUFFICES ASSUME NEW due \in Recorded' \ early' PROVE Settled(due[1], due[2])'
        OBVIOUS
    <3>1. CASE due = <<s, m>>
        BY <1>1, <2>2, <2>4, <2>5, <2>6, <2>8, <2>13, <3>1 DEF Settled, ShopInv
    <3>2. CASE due # <<s, m>>
      <4>1. due \in Recorded \ early /\ due \in ShopIds \X Int
          BY <2>2, <2>11, <3>2, RecordedTyped
      <4>2. due[1] \in used /\ due[2] <= DbNow /\ due[1] \in ShopIds
            /\ (shop[due[1]] # NoVal => shop[due[1]].last # NoVal /\ due[2] <= shop[due[1]].last)
          BY <4>1 DEF RunsInv, Settled
      <4> QED  BY <1>1, <2>4, <2>5, <2>6, <2>8, <4>2 DEF Settled
    <3> QED  BY <3>1, <3>2
  <2>15. \A q \in Recalculating' : tick'[q].taken \notin early' =>
          /\ tick'[q].taken \notin DOMAIN runs
          /\ \A p \in Recalculating' : tick'[p].taken = tick'[q].taken => p = q
    <3> SUFFICES ASSUME NEW q \in Recalculating', tick'[q].taken \notin early'
                 PROVE  /\ tick'[q].taken \notin DOMAIN runs
                        /\ \A p \in Recalculating' : tick'[p].taken = tick'[q].taken => p = q
        OBVIOUS
    <3>1. tick'[q].taken \notin early
        BY <2>2
    <3>2. CASE q = r
        BY <2>1, <2>10, <2>12, <3>1, <3>2 DEF Recorded, Recalculating
    <3>3. CASE q # r
      <4>1. q \in Recalculating /\ tick'[q] = tick[q] /\ tick[q].taken \in Recorded
          BY <2>10, <3>3 DEF Recorded, Recalculating
      <4>2. tick[q].taken # <<s, m>>
          BY <2>12, <3>1, <4>1
      <4> QED  BY <2>1, <2>10, <3>1, <4>1, <4>2 DEF RunsInv, Recalculating
    <3> QED  BY <3>2, <3>3
  <2>16. RunsInv'
      BY <1>1, <2>2, <2>14, <2>15 DEF RunsInv
  <2> QED  BY <1>4, <2>5, <2>9, <2>16
<1> QED  BY <1>5, <1>6

LEMMA RecalculateKeeps ==
    ASSUME SchedInv, NEW r \in Replicas, Recalculate(r)
    PROVE  SchedInv'
<1> USE DEF SchedInv
<1> PICK due : due = tick[r].taken
    OBVIOUS
<1>1. /\ tick[r].stage = "recalculate" /\ Proceed(r, tick[r].todo)
      /\ UNCHANGED <<shopVars, compVars, now, ticked, held, left, early>>
      /\ runs' = IF shop[due[1]] = NoVal THEN runs
                 ELSE [d \in DOMAIN runs \cup {due} |->
                          IF d # due THEN runs[d]
                          ELSE IF due \in DOMAIN runs THEN runs[due] + 1 ELSE 1]
    BY DEF Recalculate
<1>2. tick[r].todo \in SUBSET Entry /\ due \in ShopIds \X Int /\ r \in Recalculating
    BY <1>1 DEF TickInv, TickRec, NoTick, Recalculating
<1> PICK t : t = IF tick[r].todo = {} THEN NoTick ELSE [stage |-> "shops", todo |-> tick[r].todo]
    OBVIOUS
<1>3. t \in TickRec /\ t.stage # "recalculate" /\ tick' = [tick EXCEPT ![r] = t]
    BY <1>1, <1>2, ProceedTyped DEF Proceed
<1>4. TickInv' /\ DbNow' = DbNow
    BY <1>1, <1>3, TickTyped
<1>5. CompInv' /\ CheckInv' /\ LockInv' /\ ShopInv'
    BY <1>1, CompKept DEF LockInv, ShopInv, shopVars
<1>6. \A q \in Recalculating' : q \in Recalculating \ {r} /\ tick'[q] = tick[q]
    BY <1>3 DEF Recalculating, TickInv
<1>7. /\ DOMAIN runs' \subseteq DOMAIN runs \cup {due}
      /\ \A d \in DOMAIN runs : d # due => runs'[d] = runs[d]
      /\ due \in DOMAIN runs' /\ due \notin DOMAIN runs => runs'[due] = 1
    BY <1>1
<1>8. Recorded' \subseteq Recorded
    BY <1>2, <1>6, <1>7 DEF Recorded
<1>9. \A d \in Recorded' \ early' : Settled(d[1], d[2])'
    BY <1>1, <1>4, <1>8 DEF RunsInv, Settled, shopVars
<1>10. due \notin early => due \notin DOMAIN runs
    BY <1>2 DEF RunsInv
<1>11. \A d \in DOMAIN runs' \ early' : runs'[d] = 1
    BY <1>1, <1>7, <1>10 DEF RunsInv
<1>12. \A q \in Recalculating' : tick'[q].taken \notin early' =>
        /\ tick'[q].taken \notin DOMAIN runs'
        /\ \A p \in Recalculating' : tick'[p].taken = tick'[q].taken => p = q
    BY <1>1, <1>2, <1>6, <1>7 DEF RunsInv
<1>13. DOMAIN runs' \subseteq ShopIds \X Int
    BY <1>2, <1>7 DEF RunsInv
<1>14. RunsInv'
    BY <1>9, <1>11, <1>12, <1>13 DEF RunsInv
<1> QED  BY <1>4, <1>5, <1>14

\* A list for the refresh: rows of the table, in a sequence.
LEMMA ListTyped ==
    ASSUME NEW list \in ListStaleForRefresh(BatchSize)
    PROVE  list \in Seq(CompIds)
<1> DEFINE due == {c \in CompIds : Due(c)}
           len == IF Cardinality(due) < BatchSize THEN Cardinality(due) ELSE BatchSize
<1>1. IsFiniteSet(due)
    BY CompetitorAssumption, FS_Subset DEF CompetitorAssumption
<1>2. Cardinality(due) \in Nat
    BY <1>1, FS_CardinalityType
<1>3. len \in Nat
    BY <1>2, SchedulerAssumption DEF SchedulerAssumption
<1>4. list \in [1..len -> due]
    BY DEF ListStaleForRefresh
<1> HIDE DEF len
<1>5. list \in [1..len -> CompIds]
    BY <1>4
<1> QED  BY <1>3, <1>5

LEMMA OthersKept ==
    ASSUME SchedInv, UNCHANGED <<shopVars, compVars>>
    PROVE  CompInv' /\ CheckInv' /\ ShopInv'
BY CompKept DEF SchedInv, ShopInv, shopVars

LEMMA LockKept ==
    ASSUME LockInv, UNCHANGED held
    PROVE  LockInv'
BY DEF LockInv

LEMMA LockMoves ==
    ASSUME LockInv, NEW r \in Replicas,
           \/ TryAcquire(r)
           \/ release(r)
           \/ held' = [held EXCEPT ![r] = 0]
    PROVE  LockInv'
<1>1. PICK n \in Int : /\ held' = [held EXCEPT ![r] = n]
                       /\ n > 0 => \A q \in Replicas \ {r} : ~(held[q] > 0)
    BY DEF LockInv, TryAcquire, release, LockFree
<1> QED  BY <1>1 DEF LockInv

LEMMA RecalcTickKeeps ==
    ASSUME SchedInv, NEW r \in Replicas, StartRecalcTick(r) \/ LoseShop(r)
    PROVE  SchedInv'
<1> USE DEF SchedInv
<1>1. CASE StartRecalcTick(r)
  <2> PICK t : t = IF DueShops = {} THEN NoTick ELSE [stage |-> "shops", todo |-> DueShops]
      OBVIOUS
  <2>1. t \in TickRec /\ t.stage # "recalculate"
      BY DueTyped, ProceedTyped
  <2>2. /\ tick' = [tick EXCEPT ![r] = t]
        /\ UNCHANGED <<shopVars, compVars, now, held, left, runs, early>>
      BY <1>1 DEF StartRecalcTick, Proceed
  <2> QED  BY <2>1, <2>2, OthersKept, LockKept, TickKeeps
<1>2. CASE LoseShop(r)
  <2>1. /\ Spend("faults") /\ UNCHANGED <<shopVars, compVars, now, ticked, held, runs, early>>
        /\ tick[r].stage \in {"shops", "recalculate"}
      BY <1>2 DEF LoseShop
  <2>2. tick[r].todo \in SUBSET Entry
      BY <2>1 DEF TickInv, TickRec, NoTick
  <2>3. PICK todo \in SUBSET Entry : Proceed(r, todo)
      BY <1>2, <2>2 DEF LoseShop
  <2> PICK t : t = IF todo = {} THEN NoTick ELSE [stage |-> "shops", todo |-> todo]
      OBVIOUS
  <2>4. t \in TickRec /\ t.stage # "recalculate" /\ tick' = [tick EXCEPT ![r] = t]
      BY <2>3, ProceedTyped DEF Proceed
  <2> QED  BY <2>1, <2>4, OthersKept, LockKept, TickKeeps
<1> QED  BY <1>1, <1>2

\* The refresh: ticks come and go, jobs are added.
LEMMA RefreshTickKeeps ==
    ASSUME SchedInv, NEW r \in Replicas,
           RefreshTick(r) \/ LoseRefresh(r) \/ SessionEnds(r) \/ Die(r)
    PROVE  SchedInv'
<1> USE DEF SchedInv
<1>1. NoTick \in TickRec /\ NoTick.stage # "recalculate"
    BY DEF TickRec, NoTick
<1>2. ASSUME NEW list \in Seq(CompIds)
      PROVE  /\ [stage |-> "refresh", todo |-> list] \in TickRec
             /\ [stage |-> "refresh", todo |-> list].stage # "recalculate"
    BY <1>2 DEF TickRec
<1>3. ASSUME tick[r].stage = "refresh", tick[r].todo # <<>>
      PROVE  /\ tick[r].todo \in Seq(CompIds) /\ Head(tick[r].todo) \in CompIds
             /\ [tick[r] EXCEPT !.todo = Tail(@)] \in TickRec
             /\ [tick[r] EXCEPT !.todo = Tail(@)].stage # "recalculate"
  <2>1. tick[r] \in [stage : {"refresh"}, todo : Seq(CompIds)]
      BY <1>3 DEF TickInv, TickRec, NoTick
  <2> PICK list : list = Tail(tick[r].todo)
      OBVIOUS
  <2>2. list \in Seq(CompIds) /\ Head(tick[r].todo) \in CompIds
      BY <1>3, <2>1
  <2>3. [tick[r] EXCEPT !.todo = list] \in [stage : {"refresh"}, todo : Seq(CompIds)]
      BY <2>1, <2>2
  <2> QED  BY <2>1, <2>2, <2>3 DEF TickRec
<1>4. CASE StartRefreshTick(r)
  <2>1. PICK list \in ListStaleForRefresh(BatchSize) :
          tick' = [tick EXCEPT ![r] = [stage |-> "refresh", todo |-> list]]
      BY <1>4 DEF StartRefreshTick
  <2>2. TryAcquire(r) /\ UNCHANGED <<shopVars, compVars, now, ticked, left, runs, early>>
      BY <1>4 DEF StartRefreshTick
  <2> QED  BY <1>2, <2>1, <2>2, ListTyped, OthersKept, LockMoves, TickKeeps
<1>5. CASE EnqueueNext(r)
  <2>1. /\ tick[r].stage = "refresh" /\ tick[r].todo # <<>>
        /\ tick' = [tick EXCEPT ![r] = [tick[r] EXCEPT !.todo = Tail(@)]]
        /\ UNCHANGED <<shopVars, comp, checked, stale, check, overtaken,
                       now, ticked, held, left, runs, early>>
      BY <1>5 DEF EnqueueNext
  <2>2. PICK j \in JobIds : EnqueueRefresh(j, Head(tick[r].todo))
      BY <1>5 DEF EnqueueNext
  <2> PICK c \in CompIds : c = Head(tick[r].todo)
      BY <1>3, <2>1
  <2>3. [comp |-> c, tries |-> 0] \in JobRow /\ [comp |-> c, tries |-> 0].tries < MaxTries
      BY CompetitorAssumption DEF JobRow, CompetitorAssumption
  <2> PICK row : row = [comp |-> c, tries |-> 0]
      OBVIOUS
  <2>4. job[j] = NoVal /\ job' = [job EXCEPT ![j] = row]
      BY <2>2 DEF EnqueueRefresh
  <2>5. row \in JobRow /\ row.tries < MaxTries
      BY <2>3
  <2>6. CheckInv'
      BY <2>1, <2>4, <2>5 DEF CheckInv, shopVars
  <2>7. CompInv'
      BY <2>1 DEF CompInv, Verified, Explained, Duplicate, Siblings, shopVars
  <2> QED  BY <1>3, <2>1, <2>6, <2>7, LockKept, TickKeeps
<1>6. CASE EndRefreshTick(r)
  <2>1. /\ release(r) /\ tick' = [tick EXCEPT ![r] = NoTick]
        /\ UNCHANGED <<shopVars, compVars, now, ticked, left, runs, early>>
      BY <1>6 DEF EndRefreshTick
  <2> QED  BY <1>1, <2>1, OthersKept, LockMoves, TickKeeps
<1>7. CASE LoseRefresh(r)
  <2>1. /\ Spend("faults") /\ tick[r].stage = "refresh"
        /\ tick' = [tick EXCEPT ![r] = IF tick[r].todo = <<>> THEN NoTick
                                       ELSE [tick[r] EXCEPT !.todo = Tail(@)]]
        /\ UNCHANGED <<shopVars, compVars, now, ticked, held, runs, early>>
      BY <1>7 DEF LoseRefresh
  <2>2. PICK t \in TickRec : tick' = [tick EXCEPT ![r] = t] /\ t.stage # "recalculate"
      BY <1>1, <1>3, <2>1
  <2> QED  BY <2>1, <2>2, OthersKept, LockKept, TickKeeps
<1>8. CASE SessionEnds(r)
  <2>1. /\ held' = [held EXCEPT ![r] = 0]
        /\ UNCHANGED <<shopVars, compVars, now, tick, ticked, left, runs, early>>
      BY <1>8 DEF SessionEnds
  <2>2. TickInv' /\ RunsInv'
      BY <2>1 DEF TickInv, RunsInv, Settled, DbNow, Recorded, Recalculating, shopVars
  <2> QED  BY <2>1, <2>2, OthersKept, LockMoves
<1>9. CASE Die(r)
  <2>1. /\ Spend("faults") /\ tick' = [tick EXCEPT ![r] = NoTick]
        /\ UNCHANGED <<shopVars, compVars, now, ticked, held, runs, early>>
      BY <1>9 DEF Die
  <2> QED  BY <1>1, <2>1, OthersKept, LockKept, TickKeeps
<1> QED  BY <1>4, <1>5, <1>6, <1>7, <1>8, <1>9 DEF RefreshTick

-----------------------------------------------------------------------------
(* The theorems.                                                           *)

LEMMA SchedInitially == SchedulerInit => SchedInv
<1> SUFFICES ASSUME SchedulerInit PROVE SchedInv
    OBVIOUS
<1>1. ShopInv
    BY ExistingAssumption DEF SchedulerInit, ShopsInit, ShopInv, ExistingAssumption
<1>2. CompInv
    BY DEF SchedulerInit, CompetitorsInit, CompInv, Verified
<1>3. CheckInv
    BY DEF SchedulerInit, CompetitorsInit, CheckInv, Checkers
<1>4. TickInv
    BY SchedulerAssumption DEF SchedulerInit, TickInv, TickRec, SchedulerAssumption
<1>5. LockInv
    BY DEF SchedulerInit, LockInv
<1>6. DOMAIN runs = {} /\ Recalculating = {}
    BY DEF SchedulerInit, Recalculating, NoTick
<1>7. RunsInv
    BY <1>6 DEF RunsInv, Recorded
<1> QED  BY <1>1, <1>2, <1>3, <1>4, <1>5, <1>7 DEF SchedInv

LEMMA SchedStep ==
    ASSUME SchedInv, [SchedulerNext]_allVars
    PROVE  SchedInv'
<1>1. CASE UNCHANGED allVars
  <2>1. TickInv' /\ RunsInv' /\ LockInv'
      BY <1>1 DEF TickInv, LockInv, RunsInv, Settled, DbNow, Recorded, Recalculating, shopVars,
                  allVars, schedVars, SchedInv
  <2> QED  BY <1>1, <2>1, OthersKept DEF allVars, SchedInv
<1>2. CASE SchedulerNext
    BY <1>2, MinuteKeeps, ShopStepKeeps, CompetitorRequestKeeps, CheckStepKeeps, TakeKeeps,
       RecalculateKeeps, RecalcTickKeeps, RefreshTickKeeps DEF SchedulerNext, RecalcTick
<1> QED  BY <1>1, <1>2

\* What stands in every state of the scheduler, its shops and competitors.
THEOREM ScheduleInvariant == SchedulerSpec => []SchedInv
BY SchedInitially, SchedStep, PTL DEF SchedulerSpec

\* However many replicas tick, and whatever is written to the row meanwhile, a
\* due minute is acted on once when the database has reached it
\* (shopsPg.TouchLastRecalcAt).
THEOREM OncePerDueMinute == SchedulerSpec => []ScheduledOnce
<1>1. SchedInv => ScheduledOnce
    BY DEF SchedInv, RunsInv, ScheduledOnce
<1> QED  BY ScheduleInvariant, <1>1, PTL

\* A price is offered for the product it was read for, unless the target was
\* changed: to the other marketplace, or under the check (SaveCheckResult by id).
THEOREM PricesMatchTargets == SchedulerSpec => []QuotesMatchTarget
<1>1. SchedInv => QuotesMatchTarget
    BY DEF SchedInv, CompInv, Explained, QuotesMatchTarget, OfferedPrices
<1> QED  BY ScheduleInvariant, <1>1, PTL

\* The tables keep their shape: a target stands once per product and marketplace,
\* pending is what was never checked, and the refresh lock has one holder.
THEOREM ScheduleTypes == SchedulerSpec => []ScheduleTypeOK
<1>1. SchedInv => ScheduleTypeOK
  <2> SUFFICES ASSUME SchedInv PROVE ScheduleTypeOK
      OBVIOUS
  <2>1. \A c \in CompIds : comp[c] # NoVal =>
          /\ \A d \in Siblings(c) \ {c} :
                <<comp[d].market, comp[d].target>> # <<comp[c].market, comp[c].target>>
          /\ comp[c].price # NoVal => comp[c].status = "ok"
          /\ Never(c) <=> comp[c].status = "pending"
      BY DEF SchedInv, CompInv, Duplicate, Never
  <2>2. Cardinality({r \in Replicas : held[r] > 0}) <= 1
    <3> DEFINE H == {r \in Replicas : held[r] > 0}
    <3>1. \A r, q \in H : r = q
        BY DEF SchedInv, LockInv
    <3>2. CASE H = {}
        BY <3>2, FS_EmptySet
    <3>3. CASE H # {}
      <4>1. PICK r \in H : H = {r}
          BY <3>1, <3>3
      <4> QED  BY <4>1, FS_Singleton, SMTT(30)
    <3> QED  BY <3>2, <3>3
  <2> QED  BY <2>1, <2>2 DEF SchedInv, ShopInv, CompInv, CheckInv, ScheduleTypeOK
<1> QED  BY ScheduleInvariant, <1>1, PTL
=============================================================================
