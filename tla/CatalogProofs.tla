---------------------------- MODULE CatalogProofs ----------------------------
(***************************************************************************)
(* Proofs about Catalog: imports run on the job queue of JobQueue as it    *)
(* is, a shop has one import at a time, an import that refuses others has *)
(* a job that will end it, a canceled one never touched a product, and    *)
(* the result of a finished one stays.                                     *)
(***************************************************************************)
EXTENDS Catalog, JobQueueProofs, FiniteSetTheorems

-----------------------------------------------------------------------------
(* The inductive invariant.                                                *)

PatchUnderWay == [items : Patches \cup {<<>>}, left : SUBSET UNION {DOMAIN p : p \in Patches}]

\* The rows of products, and the patches under way.
RowsTyped ==
    /\ shop \in Marketplaces \cup {NoVal}
    /\ products \in [Skus -> ProductRow \cup {NoVal}]
    /\ \A k \in Skus : products[k] # NoVal => Ordered(products[k])
    /\ patch \in [Editors -> PatchUnderWay]

\* A slot that runs a handler holds a job and has decided nothing; once it has
\* an outcome to write, that outcome is a final one.
PcInv ==
    /\ pc \in [Slots -> {"idle", "mark", "load", "finish", "abandon"}]
    /\ found = [s \in Slots |-> found[s]]
    /\ \A s \in Slots :
        /\ pc[s] # "idle" => holds[s] # NoJob /\ outcome[s] = Undecided
        /\ pc[s] \in {"finish", "abandon"} =>
               "status" \in DOMAIN found[s] /\ found[s].status \in {"succeeded", "partial", "failed"}

Untouched == {"absent", "pending", "canceled"}

\* The row of import_log follows its job: it exists once the job does, and
\* only an import that was marked running has reached its products.
LogInv ==
    /\ log = [j \in Jobs |-> log[j]]
    /\ asking \subseteq Jobs
    /\ wrote \cup lost \subseteq Jobs
    /\ \A j \in Jobs :
        /\ "status" \in DOMAIN log[j] /\ log[j].status \in LogStatus
        /\ status[j] = "absent" => log[j].status = "absent"
        /\ j \in wrote => log[j].status \notin Untouched
    /\ \A s \in Slots :
        pc[s] \in {"load", "finish", "abandon"} => log[holds[s]].status \notin Untouched

OneActive == \A j, k \in Jobs :
    log[j].status \in ActiveLog /\ log[k].status \in ActiveLog => j = k

\* The last attempt of an active import is either still to come or is being
\* executed right now, by the slot that claimed it.
Pursued(j) ==
    /\ status[j] \in Waiting \cup {"running"}
    /\ \/ attempts[j] < MaxAttempts[j]
       \/ \E s \in Slots : holds[s] = j /\ tryNo[s] = attempts[j] /\ pc[s] # "idle"

ActiveInv ==
    /\ \A j \in Jobs : log[j].status \in ActiveLog => Pursued(j) \/ j \in lost
    /\ \A s \in Slots :
        holds[s] # NoJob /\ outcome[s].result = "json" =>
            log[holds[s]].status \notin ActiveLog \/ holds[s] \in lost

ImportInv == PcInv /\ LogInv /\ OneActive /\ ActiveInv
CatalogInv == RowsTyped /\ ImportInv

-----------------------------------------------------------------------------
(* Imports run on the job queue as it is.                                  *)

\* Every verdict of ExecuteImportJob is one the queue knows for an import.
LEMMA ReturnsIsHandler ==
    ASSUME TypeOK, NEW s \in Slots, NEW o \in ImportOutcomes, Returns(s, o)
    PROVE  HandlerReturns(s)
<1>1. holds[s] \in Jobs
  BY DEF Returns, Decide, TypeOK
<1>2. Outcomes(holds[s], tryNo[s]) = ImportOutcomes
  BY <1>1, CatalogAssumption DEF Outcomes
<1>3. QED
  BY <1>2 DEF Returns, HandlerReturns, Decide

LEMMA CatalogStepsQueue ==
    ASSUME TypeOK, [CatalogNext]_allVars
    PROVE  [Next]_vars
<1> USE DEF ImportOutcomes
<1>1. ASSUME NEW j \in Jobs, StartImport(j) \/ EnqueueProductImport(j) \/ Cancel(j)
      PROVE  [Next]_vars
  BY <1>1 DEF StartImport, EnqueueProductImport, Cancel, Next, TableStep, vars
<1>2. ASSUME CooldownPasses \/ CatalogEdit PROVE UNCHANGED vars
  BY <1>2 DEF CooldownPasses, CatalogEdit, CreateManual, SoftDelete, SendPatch, ValidateItem,
     WritePatch, SyncShopPrices, DeleteShop, vars
<1>3. ASSUME NEW s \in Slots, ClaimImport(s) \/ SaveImport(s) PROVE [Next]_vars
  BY <1>3 DEF ClaimImport, SaveImport, Next, WorkerStep, vars
<1>4. ASSUME NEW s \in Slots, MarkRunning(s) PROVE [Next]_vars
  BY <1>4, ReturnsIsHandler DEF MarkRunning, Next, WorkerStep, vars
<1>5. ASSUME NEW s \in Slots, LoadFails(s) \/ ListOrUpsertFails(s) PROVE [Next]_vars
  BY <1>5, ReturnsIsHandler
     DEF LoadFails, ListOrUpsertFails, finishImportFailure, Next, WorkerStep, vars
<1>6. ASSUME NEW s \in Slots, ListAndUpsert(s) PROVE [Next]_vars
  BY <1>6 DEF ListAndUpsert, vars
<1>7. ASSUME NEW s \in Slots, Finish(s) \/ FinishFailed(s) PROVE [Next]_vars
  BY <1>7, ReturnsIsHandler DEF Finish, FinishFailed, Next, WorkerStep, vars
<1>8. ASSUME ClockTicks PROVE [Next]_vars
  BY <1>8 DEF ClockTicks, Next, TableStep, vars
<1>9. ASSUME CrashImports PROVE [Next]_vars
  BY <1>9 DEF CrashImports, Next, vars
<1>10. ASSUME UNCHANGED allVars PROVE UNCHANGED vars
  BY <1>10 DEF allVars
<1>11. QED
  BY <1>1, <1>2, <1>3, <1>4, <1>5, <1>6, <1>7, <1>8, <1>9, <1>10
     DEF CatalogNext, ImportRequest, ImportStep

\* ExecuteImportJob and the requests about imports use the queue as JobQueue
\* describes it: whatever holds of every queue holds of this one.
THEOREM CatalogRefinesQueue == CatalogSpec => Spec
<1>1. CatalogInit => Init /\ TypeOK
  BY QueueAssumption
  DEF CatalogInit, Init, TypeOK, Statuses, Waiting, Terminal, Outcome, Undecided
<1>2. TypeOK /\ [CatalogNext]_allVars => [Next]_vars /\ TypeOK'
  BY CatalogStepsQueue, StepKeepsTypes
<1>3. QED
  BY <1>1, <1>2, PTL DEF CatalogSpec, Spec

-----------------------------------------------------------------------------
(* The rows of products.                                                   *)

\* The bounds a patch leaves out stay as they are.
LEMMA PatchedIsRow ==
    ASSUME NEW row \in ProductRow, NEW D \in SUBSET {"min", "max"},
           NEW p \in [D -> Money \cup {NoVal}]
    PROVE  Patched(row, p) \in ProductRow
<1> DEFINE min == IF "min" \in D THEN p["min"] ELSE row.min
           max == IF "max" \in D THEN p["max"] ELSE row.max
           rec == [status |-> row.status, min |-> min, max |-> max]
<1>1. rec \in ProductRow
  BY DEF ProductRow
<1>2. DOMAIN row = {"status", "min", "max"} /\ DOMAIN p = D
  BY DEF ProductRow
<1>3. "status" \notin D
  OBVIOUS
<1>4. Patched(row, p) = rec
  BY <1>2, <1>3 DEF Patched
<1>5. QED
  BY <1>1, <1>4

\* ON CONFLICT DO UPDATE SET status = 'active'.
LEMMA UpsertKeepsRows ==
    ASSUME products \in [Skus -> ProductRow \cup {NoVal}],
           \A k \in Skus : products[k] # NoVal => Ordered(products[k]),
           NEW ks, UpsertImported(ks)
    PROVE  /\ products' \in [Skus -> ProductRow \cup {NoVal}]
           /\ \A k \in Skus : products'[k] # NoVal => Ordered(products'[k])
<1> DEFINE new == [status |-> "active", min |-> NoVal, max |-> NoVal]
<1>1. new \in ProductRow /\ Ordered(new)
  BY DEF ProductRow, Ordered
<1>2. ASSUME NEW k \in Skus
      PROVE  /\ products'[k] \in ProductRow \cup {NoVal}
             /\ products'[k] # NoVal => Ordered(products'[k])
  <2>1. CASE k \notin ks
    BY <2>1 DEF UpsertImported
  <2>2. CASE k \in ks /\ products[k] # NoVal
    <3> DEFINE row == [products[k] EXCEPT !.status = "active"]
    <3>1. products[k] \in ProductRow /\ Ordered(products[k])
      BY <2>2
    <3>2. row \in ProductRow /\ row.min = products[k].min /\ row.max = products[k].max
      BY <3>1 DEF ProductRow
    <3>3. products'[k] = row
      BY <2>2 DEF UpsertImported
    <3> HIDE DEF row
    <3>4. QED
      BY <3>1, <3>2, <3>3 DEF Ordered
  <2>3. CASE k \in ks /\ products[k] = NoVal
    <3>1. products'[k] = new
      BY <2>3 DEF UpsertImported
    <3>2. QED
      BY <1>1, <3>1
  <2>4. QED
    BY <2>1, <2>2, <2>3
<1>3. products' = [k \in Skus |-> products'[k]]
  BY DEF UpsertImported
<1>4. QED
  BY <1>2, <1>3

\* A patch writes all its rows, or none.
LEMMA WritePatchKeepsRows ==
    ASSUME RowsTyped, NEW e \in Editors, WritePatch(e)
    PROVE  RowsTyped'
<1> DEFINE items == patch[e].items
           new == [k \in Skus |-> IF k \in DOMAIN items /\ products[k] # NoVal
                                  THEN Patched(products[k], items[k]) ELSE products[k]]
<1>1. ASSUME NEW k \in Skus PROVE new[k] \in ProductRow \cup {NoVal}
  <2>1. CASE k \in DOMAIN items /\ products[k] # NoVal
    <3>1. items \in Patches
      <4>1. items # <<>>
        BY <2>1
      <4>2. QED
        BY <4>1 DEF RowsTyped, PatchUnderWay
    <3>2. PICK D \in SUBSET {"min", "max"} : items[k] \in [D -> Money \cup {NoVal}]
      BY <2>1, <3>1, CatalogAssumption
    <3>3. products[k] \in ProductRow
      BY <2>1 DEF RowsTyped
    <3>4. PICK row \in ProductRow, p \in [D -> Money \cup {NoVal}] :
                 row = products[k] /\ p = items[k]
      BY <3>2, <3>3
    <3>5. Patched(row, p) \in ProductRow
      BY PatchedIsRow
    <3>6. QED
      BY <2>1, <3>4, <3>5
  <2>2. CASE ~(k \in DOMAIN items /\ products[k] # NoVal)
    BY <2>2 DEF RowsTyped
  <2>3. QED
    BY <2>1, <2>2
<1>2. /\ products' \in {new, products}
      /\ products' = new => \A k \in Skus : new[k] = NoVal \/ Ordered(new[k])
             \/ products' = products
  BY DEF WritePatch, CheckHolds
<1>3. new = [k \in Skus |-> new[k]]
  OBVIOUS
<1> HIDE DEF new
<1>4. /\ products' \in [Skus -> ProductRow \cup {NoVal}]
      /\ \A k \in Skus : products'[k] # NoVal => Ordered(products'[k])
  BY <1>1, <1>2, <1>3 DEF RowsTyped
<1>5. patch' \in [Editors -> PatchUnderWay]
  BY DEF WritePatch, RowsTyped, Idle, PatchUnderWay
<1>6. QED
  BY <1>4, <1>5 DEF WritePatch, RowsTyped

LEMMA RowsStay ==
    ASSUME RowsTyped, [CatalogNext]_allVars
    PROVE  RowsTyped'
<1>1. CASE UNCHANGED shopVars
  BY <1>1 DEF shopVars, RowsTyped, Ordered
<1>2. ASSUME NEW j \in Jobs, StartImport(j) PROVE RowsTyped'
  BY <1>2 DEF StartImport, RowsTyped, Ordered
<1>3. ASSUME NEW ks, UpsertImported(ks), UNCHANGED <<shop, patch>> PROVE RowsTyped'
  BY <1>3, UpsertKeepsRows DEF RowsTyped
<1>4. ASSUME NEW s \in Slots, ListAndUpsert(s) PROVE RowsTyped'
  BY <1>3, <1>4 DEF ListAndUpsert
<1>5. ASSUME SyncShopPrices PROVE RowsTyped'
  BY <1>3, <1>5 DEF SyncShopPrices
<1>6. ASSUME NEW k \in Skus, CreateManual(k) PROVE RowsTyped'
  BY <1>6, CatalogAssumption DEF CreateManual, Create, normalizeCreate, RowsTyped
<1>7. ASSUME NEW k \in Skus, SoftDelete(k) PROVE RowsTyped'
  <2> DEFINE row == [products[k] EXCEPT !.status = "archived"]
  <2>1. products[k] \in ProductRow /\ Ordered(products[k])
    BY <1>7 DEF SoftDelete, RowsTyped
  <2>2. row \in ProductRow /\ Ordered(row)
    BY <2>1 DEF ProductRow, Ordered
  <2>3. products' = [products EXCEPT ![k] = row] /\ UNCHANGED <<shop, patch>>
    BY <1>7 DEF SoftDelete, RowsTyped
  <2> HIDE DEF row
  <2>4. QED
    BY <2>2, <2>3 DEF RowsTyped
<1>8. ASSUME NEW e \in Editors, SendPatch(e) PROVE RowsTyped'
  <2>1. PICK p \in Patches : patch' = [patch EXCEPT ![e] = [items |-> p, left |-> DOMAIN p]]
    BY <1>8 DEF SendPatch
  <2>2. [items |-> p, left |-> DOMAIN p] \in PatchUnderWay
    BY DEF PatchUnderWay
  <2>3. QED
    BY <1>8, <2>1, <2>2 DEF SendPatch, RowsTyped
<1>9. ASSUME NEW e \in Editors, ValidateItem(e) PROVE RowsTyped'
  <2> DEFINE Good(k) == LET p    == patch[e].items[k]
                            free == [min |-> NoVal, max |-> NoVal]
                        IN  IF bulkPatchNeedsCurrentBounds(p)
                            THEN products[k] # NoVal /\ Ordered(Patched(products[k], p))
                            ELSE Ordered(Patched(free, p))
             Kept(k) == [patch[e] EXCEPT !.left = @ \ {k}]
  <2>1. PICK k \in patch[e].left :
            patch' = [patch EXCEPT ![e] = IF Good(k) THEN Kept(k) ELSE Idle]
    BY <1>9 DEF ValidateItem
  <2>2. Kept(k) \in PatchUnderWay /\ Idle \in PatchUnderWay
    BY DEF RowsTyped, PatchUnderWay, Idle
  <2> HIDE DEF Good, Kept
  <2>3. patch' \in [Editors -> PatchUnderWay]
    BY <2>1, <2>2 DEF RowsTyped
  <2>4. QED
    BY <1>9, <2>3 DEF ValidateItem, RowsTyped
<1>10. ASSUME DeleteShop PROVE RowsTyped'
  BY <1>10 DEF DeleteShop, RowsTyped
<1>11. CASE ImportRequest
  BY <1>1, <1>2, <1>11 DEF ImportRequest, EnqueueProductImport, Cancel, CooldownPasses, shopVars
<1>12. CASE ImportStep
  BY <1>1, <1>4, <1>12 DEF ImportStep, ClaimImport, MarkRunning, LoadFails, ListOrUpsertFails,
     finishImportFailure, Finish, FinishFailed, SaveImport
<1>13. CASE CatalogEdit
  BY <1>5, <1>6, <1>7, <1>8, <1>9, <1>10, <1>13, WritePatchKeepsRows DEF CatalogEdit
<1>14. CASE ClockTicks \/ CrashImports
  BY <1>1, <1>14 DEF ClockTicks, CrashImports
<1>15. CASE UNCHANGED allVars
  BY <1>1, <1>15 DEF allVars
<1>16. QED
  BY <1>11, <1>12, <1>13, <1>14, <1>15 DEF CatalogNext

-----------------------------------------------------------------------------
(* The rows of import_log.                                                 *)

\* A job that is held has been inserted, and is an import.
LEMMA HeldIsPresent ==
    ASSUME QueueInv, NEW s \in Slots, holds[s] # NoJob
    PROVE  /\ holds[s] \in Jobs /\ status[holds[s]] # "absent"
           /\ tryNo[s] \in Nat /\ tryNo[s] =< attempts[holds[s]] /\ attempts[holds[s]] \in Nat
           /\ attempts[holds[s]] =< MaxAttempts[holds[s]] /\ MaxAttempts[holds[s]] \in Nat
BY QueueAssumption DEF QueueInv, TypeOK, TryCounted, AbsentUntried

\* A step that concerns neither jobs nor imports.
LEMMA ImportsStay ==
    ASSUME ImportInv, UNCHANGED <<vars, logVars, runVars>>
    PROVE  ImportInv'
BY DEF ImportInv, PcInv, LogInv, OneActive, ActiveInv, Pursued, vars, logVars, runVars

LEMMA RequestKeepsImports ==
    ASSUME QueueInv, ImportInv, ImportRequest
    PROVE  ImportInv'
<1> USE DEF ImportInv
<1>1. ASSUME NEW j \in Jobs, StartImport(j) PROVE ImportInv'
  BY <1>1 DEF StartImport, PcInv, LogInv, OneActive, ActiveInv, Pursued, vars, runVars
<1>2. ASSUME NEW j \in Jobs, EnqueueProductImport(j), UNCHANGED <<vars, log>> PROVE ImportInv'
  BY <1>2 DEF EnqueueProductImport, PcInv, LogInv, OneActive, ActiveInv, Pursued, vars, runVars
<1>3. ASSUME NEW j \in Jobs, EnqueueProductImport(j), Enqueue(j), NoActiveImport,
             log' = [log EXCEPT ![j] = NewLog("pending")]
      PROVE  ImportInv'
  <2> USE <1>3
  <2>1. /\ NewLog("pending").status = "pending" /\ "status" \in DOMAIN NewLog("pending")
    BY DEF NewLog
  <2>2. /\ status[j] = "absent" /\ attempts[j] = 0 /\ log[j].status = "absent"
        /\ 0 < MaxAttempts[j]
        /\ UNCHANGED <<attempts, holds, tryNo, outcome, pc, found, wrote, lost>>
        /\ status' = [status EXCEPT ![j] = "pending"]
        /\ asking' \subseteq Jobs
    BY QueueAssumption DEF EnqueueProductImport, Enqueue, QueueInv, AbsentUntried, LogInv,
       slotVars, runVars
  <2>3. \A s \in Slots : holds[s] # j
    BY <2>2, HeldIsPresent, QueueAssumption
  <2>4. PcInv'
    BY <2>2 DEF PcInv
  <2>5. j \notin wrote
    BY <2>2 DEF LogInv, Untouched
  <2>6. \A s \in Slots : pc[s] # "idle" => holds[s] \in Jobs \ {j}
    BY <2>3, HeldIsPresent DEF PcInv
  <2>7. LogInv'
    <3>1. \A k \in Jobs \ {j} : log'[k] = log[k] /\ status'[k] = status[k]
      BY <2>2 DEF LogInv, QueueInv, TypeOK
    <3>2. log'[j] = NewLog("pending") /\ status'[j] = "pending" /\ log' = [k \in Jobs |-> log'[k]]
      BY <2>2 DEF LogInv, QueueInv, TypeOK
    <3>3. \A s \in Slots : pc[s] \in {"load", "finish", "abandon"} => log'[holds[s]].status \notin Untouched
      BY <2>6, <3>1 DEF LogInv
    <3>4. QED
      BY <2>1, <2>2, <2>5, <3>1, <3>2, <3>3 DEF LogInv, LogStatus, ActiveLog
  <2>8. OneActive'
    BY <2>1 DEF OneActive, NoActiveImport, LogInv
  <2>9. ActiveInv'
    <3>1. Pursued(j)'
      BY <2>2 DEF Pursued, Waiting, QueueInv, TypeOK
    <3>2. ASSUME NEW k \in Jobs \ {j}, log'[k].status \in ActiveLog
          PROVE  Pursued(k)' \/ k \in lost'
      BY <2>2, <3>2 DEF Pursued, ActiveInv, LogInv
    <3>3. \A s \in Slots : holds[s] # NoJob => log'[holds[s]] = log[holds[s]]
      BY <2>3, HeldIsPresent DEF LogInv
    <3>4. QED
      BY <2>2, <3>1, <3>2, <3>3 DEF ActiveInv
  <2>10. QED
    BY <2>4, <2>7, <2>8, <2>9
<1>4. ASSUME NEW j \in Jobs, Cancel(j) PROVE ImportInv'
  <2> DEFINE row == [log[j] EXCEPT !.status = "canceled"]
  <2>1. /\ log[j].status = "pending" /\ log' = [log EXCEPT ![j] = row]
        /\ row.status = "canceled" /\ "status" \in DOMAIN row
        /\ UNCHANGED <<attempts, holds, tryNo, outcome, asking, pc, found, wrote, lost>>
        /\ \A k \in Jobs \ {j} : status'[k] = status[k]
        /\ status'[j] # "absent"
    BY <1>4 DEF Cancel, Cancelable, CancelImport, LogInv, vars, runVars, slotVars, QueueInv, TypeOK,
       Waiting
  <2> HIDE DEF row
  <2>2. /\ \A k \in Jobs \ {j} : log'[k] = log[k]
        /\ log'[j] = row /\ log' = [k \in Jobs |-> log'[k]]
    BY <2>1 DEF LogInv
  <2>3. PcInv'
    BY <2>1 DEF PcInv
  <2>4. LogInv'
    <3>1. \A s \in Slots : pc[s] \in {"load", "finish", "abandon"} => holds[s] \in Jobs \ {j}
      BY <2>1, HeldIsPresent DEF LogInv, Untouched, PcInv
    <3>2. j \notin wrote
      BY <2>1 DEF LogInv, Untouched
    <3>3. QED
      BY <2>1, <2>2, <3>1, <3>2 DEF LogInv, LogStatus, TerminalLog
  <2>5. OneActive'
    BY <2>1, <2>2 DEF OneActive, ActiveLog
  <2>6. ActiveInv'
    BY <2>1, <2>2, HeldIsPresent DEF ActiveInv, ActiveLog, Pursued
  <2>7. QED
    BY <2>3, <2>4, <2>5, <2>6
<1>5. ASSUME CooldownPasses PROVE ImportInv'
  BY <1>5 DEF CooldownPasses, PcInv, LogInv, OneActive, ActiveInv, Pursued, vars, runVars
<1>6. QED
  BY <1>1, <1>2, <1>3, <1>4, <1>5 DEF ImportRequest, EnqueueProductImport

\* A handler that returns leaves an import that is not under way any more,
\* or that another attempt will end, or that has lost its last statement.
LEMMA ReturnKeepsImports ==
    ASSUME QueueInv, ImportInv, NEW s \in Slots, NEW o \in ImportOutcomes, Returns(s, o),
           UNCHANGED found \/ \E x : found' = [found EXCEPT ![s] = x],
           lost \subseteq lost', lost' \subseteq Jobs, UNCHANGED <<asking, wrote>>,
           \/ UNCHANGED log
           \/ \E row : /\ log' = [log EXCEPT ![holds[s]] = row]
                       /\ "status" \in DOMAIN row
                       /\ row.status \in {"succeeded", "partial", "failed"},
           \/ log'[holds[s]].status \notin ActiveLog
           \/ holds[s] \in lost'
           \/ o.result = "nil" /\ CanRetry(s)
    PROVE  ImportInv'
<1> USE DEF ImportInv
<1> DEFINE j == holds[s]
<1>1. /\ j \in Jobs /\ outcome' = [outcome EXCEPT ![s] = o]
      /\ pc' = [pc EXCEPT ![s] = "idle"]
      /\ UNCHANGED <<status, attempts, holds, tryNo>>
      /\ tryNo[s] \in Nat /\ attempts[j] \in Nat /\ MaxAttempts[j] \in Nat
  BY HeldIsPresent DEF Returns, Goes, Decide, rowVars
<1>2. /\ \A k \in Jobs \ {j} : log'[k] = log[k]
      /\ log' = [k \in Jobs |-> log'[k]]
      /\ "status" \in DOMAIN log'[j]
      /\ log'[j] = log[j] \/ log'[j].status \in {"succeeded", "partial", "failed"}
  BY <1>1 DEF LogInv
<1>3. \A t \in Slots \ {s} : pc'[t] = pc[t] /\ outcome'[t] = outcome[t] /\ found'[t] = found[t]
  BY <1>1 DEF PcInv, QueueInv, TypeOK
<1>4. pc'[s] = "idle" /\ outcome'[s] = o /\ found' = [t \in Slots |-> found'[t]]
  BY <1>1 DEF PcInv, QueueInv, TypeOK
<1>5. PcInv'
  BY <1>1, <1>3, <1>4 DEF PcInv
<1>6. LogInv'
  <2>1. \A k \in Jobs : /\ "status" \in DOMAIN log'[k] /\ log'[k].status \in LogStatus
                        /\ log'[k].status \in Untouched => log'[k] = log[k]
    BY <1>2 DEF LogInv, LogStatus, TerminalLog, Untouched
  <2>2. \A k \in Jobs : /\ status'[k] = "absent" => log'[k].status = "absent"
                        /\ k \in wrote' => log'[k].status \notin Untouched
    <3>1. status[j] # "absent"
      BY <1>1, HeldIsPresent DEF Returns, Decide
    <3>2. QED
      BY <1>1, <1>2, <2>1, <3>1 DEF LogInv
  <2>3. \A t \in Slots : pc'[t] \in {"load", "finish", "abandon"} =>
            log'[holds'[t]].status \notin Untouched
    <3>1. \A t \in Slots \ {s} : pc[t] # "idle" => holds[t] \in Jobs
      BY HeldIsPresent DEF PcInv
    <3>2. QED
      BY <1>1, <1>3, <1>4, <2>1, <3>1 DEF LogInv
  <2>4. asking' \subseteq Jobs /\ wrote' \cup lost' \subseteq Jobs
    BY DEF LogInv
  <2>5. QED
    BY <1>2, <2>1, <2>2, <2>3, <2>4 DEF LogInv
<1>7. \A k \in Jobs : log'[k].status \in ActiveLog => log[k].status \in ActiveLog
  BY <1>2 DEF ActiveLog
<1>8. OneActive'
  BY <1>7 DEF OneActive
<1>9. ActiveInv'
  <2>1. ASSUME NEW k \in Jobs, log'[k].status \in ActiveLog, k \notin lost'
        PROVE  Pursued(k)'
    <3>1. Pursued(k)
      BY <1>7, <2>1 DEF ActiveInv
    <3>2. CASE attempts[k] < MaxAttempts[k]
      BY <1>1, <3>1, <3>2 DEF Pursued
    <3>3. CASE ~(attempts[k] < MaxAttempts[k])
      <4>1. PICK t \in Slots : holds[t] = k /\ tryNo[t] = attempts[k] /\ pc[t] # "idle"
        BY <3>1, <3>3 DEF Pursued
      <4>2. t # s
        BY <1>1, <2>1, <3>3, <4>1 DEF CanRetry
      <4>3. QED
        BY <1>1, <1>3, <3>1, <4>1, <4>2 DEF Pursued
    <3>4. QED
      BY <3>2, <3>3
  <2>2. ASSUME NEW t \in Slots, holds'[t] # NoJob, outcome'[t].result = "json"
        PROVE  log'[holds'[t]].status \notin ActiveLog \/ holds'[t] \in lost'
    <3>1. CASE t = s
      BY <1>1, <1>4, <2>2, <3>1
    <3>2. CASE t # s
      <4>1. holds[t] \in Jobs /\ holds'[t] = holds[t] /\ outcome'[t] = outcome[t]
        BY <1>1, <1>3, <2>2, <3>2, HeldIsPresent
      <4>2. QED
        BY <1>7, <2>2, <4>1 DEF ActiveInv
    <3>3. QED
      BY <3>1, <3>2
  <2>3. QED
    BY <2>1, <2>2 DEF ActiveInv
<1>10. QED
  BY <1>5, <1>6, <1>8, <1>9

\* A handler that goes on to its next statement.
LEMMA MoveKeepsImports ==
    ASSUME QueueInv, ImportInv, NEW s \in Slots, UNCHANGED <<vars, asking, lost>>,
           NEW where \in {"load", "finish", "abandon"}, pc[s] # "idle", Goes(s, where),
           \/ where = "load" /\ UNCHANGED found
           \/ \E x : /\ found' = [found EXCEPT ![s] = x]
                     /\ "status" \in DOMAIN x
                     /\ x.status \in {"succeeded", "partial", "failed"},
           log' \in {log, [log EXCEPT ![holds[s]].status = "running"]},
           log'[holds[s]].status \notin Untouched,
           log[holds[s]].status \in ActiveLog \/ UNCHANGED log,
           wrote' \in {wrote, wrote \cup {holds[s]}}
    PROVE  ImportInv'
<1> USE DEF ImportInv
<1> DEFINE j == holds[s]
           row == [log[j] EXCEPT !.status = "running"]
<1>1. /\ j \in Jobs /\ status[j] # "absent"
      /\ pc' = [pc EXCEPT ![s] = where] /\ outcome[s] = Undecided
      /\ UNCHANGED <<status, attempts, holds, tryNo, outcome>>
  BY HeldIsPresent DEF PcInv, Goes, vars
<1>2. /\ "status" \in DOMAIN log[j] /\ "status" \in DOMAIN row /\ row.status = "running"
      /\ log' \in {log, [log EXCEPT ![j] = row]}
  BY <1>1 DEF LogInv
<1> HIDE DEF row
<1>3. /\ \A k \in Jobs \ {j} : log'[k] = log[k]
      /\ log' = [k \in Jobs |-> log'[k]]
      /\ "status" \in DOMAIN log'[j]
      /\ log'[j] = log[j] \/ log'[j].status = "running"
  BY <1>1, <1>2 DEF LogInv
<1>4. \A t \in Slots \ {s} : pc'[t] = pc[t] /\ found'[t] = found[t]
  BY <1>1 DEF PcInv
<1>5. pc'[s] = where /\ found' = [t \in Slots |-> found'[t]]
  BY <1>1 DEF PcInv
<1>6. pc'[s] # "load" => /\ "status" \in DOMAIN found'[s]
                         /\ found'[s].status \in {"succeeded", "partial", "failed"}
  BY <1>1 DEF PcInv
<1>7. PcInv'
  BY <1>1, <1>4, <1>5, <1>6 DEF PcInv
<1>8. \A k \in Jobs : log'[k].status \in ActiveLog => log[k].status \in ActiveLog
  BY <1>3
<1>9. LogInv'
  <2>1. \A k \in Jobs : /\ "status" \in DOMAIN log'[k] /\ log'[k].status \in LogStatus
                        /\ log'[k].status \in Untouched => log'[k] = log[k]
    BY <1>3 DEF LogInv, LogStatus, ActiveLog, Untouched
  <2>2. \A k \in Jobs : /\ status'[k] = "absent" => log'[k].status = "absent"
                        /\ k \in wrote' => log'[k].status \notin Untouched
    BY <1>1, <1>3, <2>1 DEF LogInv
  <2>3. \A t \in Slots : pc'[t] \in {"load", "finish", "abandon"} =>
            log'[holds'[t]].status \notin Untouched
    <3>1. \A t \in Slots \ {s} : pc[t] # "idle" => holds[t] \in Jobs
      BY HeldIsPresent DEF PcInv
    <3>2. QED
      BY <1>1, <1>4, <1>5, <2>1, <3>1 DEF LogInv
  <2>4. asking' \subseteq Jobs /\ wrote' \cup lost' \subseteq Jobs
    BY <1>1 DEF LogInv
  <2>5. QED
    BY <1>3, <2>1, <2>2, <2>3, <2>4 DEF LogInv
<1>10. OneActive'
  BY <1>8 DEF OneActive
<1>11. ActiveInv'
  <2>1. ASSUME NEW k \in Jobs, log'[k].status \in ActiveLog, k \notin lost'
        PROVE  Pursued(k)'
    <3>1. Pursued(k)
      BY <1>8, <2>1 DEF ActiveInv
    <3>2. \A t \in Slots : pc[t] # "idle" => pc'[t] # "idle"
      BY <1>4, <1>5
    <3>3. QED
      BY <1>1, <3>1, <3>2 DEF Pursued
  <2>2. ASSUME NEW t \in Slots, holds[t] # NoJob, outcome[t].result = "json"
        PROVE  log'[holds[t]].status \notin ActiveLog \/ holds[t] \in lost
    BY <1>8, <2>2, HeldIsPresent DEF ActiveInv
  <2>3. QED
    BY <1>1, <2>1, <2>2 DEF ActiveInv
<1>12. QED
  BY <1>7, <1>9, <1>10, <1>11

LEMMA ClaimKeepsImports ==
    ASSUME QueueInv, QueueInv', ImportInv, NEW s \in Slots, ClaimImport(s)
    PROVE  ImportInv'
<1> USE DEF ImportInv
<1>1. PICK j \in Jobs : /\ holds[s] = NoJob /\ Claimable(j)
                        /\ attempts[j] + 1 =< MaxAttempts[j]
                        /\ status'   = [status EXCEPT ![j] = "running"]
                        /\ attempts' = [attempts EXCEPT ![j] = attempts[j] + 1]
                        /\ holds'    = [holds EXCEPT ![s] = j]
                        /\ tryNo'    = [tryNo EXCEPT ![s] = attempts[j] + 1]
  BY DEF ClaimImport, Claim, IsHead, ClaimAllowed, NextAttempt
<1>2. /\ UNCHANGED <<outcome, log, asking, found, wrote, lost>>
      /\ pc' = [pc EXCEPT ![s] = "mark"]
  BY DEF ClaimImport, Claim, Goes, logVars
<1>3. status[j] # "absent" /\ outcome[s] = Undecided /\ pc[s] = "idle"
  BY <1>1 DEF Claimable, Waiting, QueueInv, IdleUndecided, PcInv
<1>4. /\ \A t \in Slots \ {s} : pc'[t] = pc[t] /\ holds'[t] = holds[t] /\ tryNo'[t] = tryNo[t]
      /\ pc'[s] = "mark" /\ holds'[s] = j /\ tryNo'[s] = attempts'[j]
      /\ \A k \in Jobs \ {j} : status'[k] = status[k] /\ attempts'[k] = attempts[k]
      /\ status'[j] = "running"
  BY <1>1, <1>2 DEF PcInv, QueueInv, TypeOK
<1>5. PcInv'
  BY <1>1, <1>2, <1>3, <1>4, QueueAssumption DEF PcInv
<1>6. LogInv'
  BY <1>2, <1>3, <1>4 DEF LogInv
<1>7. OneActive'
  BY <1>2 DEF OneActive
<1>8. ActiveInv'
  <2>1. Pursued(j)'
    BY <1>4 DEF Pursued
  <2>2. ASSUME NEW k \in Jobs \ {j}, Pursued(k) PROVE Pursued(k)'
    <3>1. \A t \in Slots : holds[t] = k => t # s
      BY <1>1, QueueAssumption
    <3>2. QED
      BY <1>4, <2>2, <3>1 DEF Pursued
  <2>3. outcome'[s].result # "json"
    BY <1>2, <1>3 DEF Undecided
  <2>4. QED
    BY <1>2, <1>4, <2>1, <2>2, <2>3 DEF ActiveInv
<1>9. QED
  BY <1>5, <1>6, <1>7, <1>8

LEMMA SaveKeepsImports ==
    ASSUME QueueInv, ImportInv, NEW s \in Slots, SaveImport(s)
    PROVE  ImportInv'
<1> USE DEF ImportInv
<1> DEFINE j == holds[s]
<1>1. /\ j \in Jobs /\ outcome[s] # Undecided
      /\ UNCHANGED <<attempts, log, asking, pc, found, wrote, lost>>
      /\ holds' = [holds EXCEPT ![s] = NoJob] /\ tryNo' = [tryNo EXCEPT ![s] = 0]
      /\ outcome' = [outcome EXCEPT ![s] = Undecided]
      /\ \A k \in Jobs \ {j} : status'[k] = status[k]
      /\ \/ status'[j] = status[j]
         \/ status[j] = "running" /\ status'[j] = "retrying"
         \/ /\ status[j] = "running" /\ status'[j] \in {"succeeded", "failed"}
            /\ outcome[s].result = "json"
  BY DEF SaveImport, Save, SaveRetry, SaveSucceed, SaveFail, SaveLost, SettleRow, Release,
     Undecided, logVars, runVars, rowVars, QueueInv, TypeOK
<1>2. pc[s] = "idle"
  BY <1>1 DEF PcInv
<1>3. /\ \A t \in Slots \ {s} : holds'[t] = holds[t] /\ tryNo'[t] = tryNo[t]
                                /\ outcome'[t] = outcome[t]
      /\ holds'[s] = NoJob /\ outcome'[s] = Undecided
  BY <1>1 DEF QueueInv, TypeOK
<1>4. PcInv'
  BY <1>1, <1>2, <1>3 DEF PcInv
<1>5. LogInv'
  BY <1>1, <1>2, <1>3 DEF LogInv
<1>6. OneActive'
  BY <1>1 DEF OneActive
<1>7. ActiveInv'
  <2>1. ASSUME NEW k \in Jobs, log[k].status \in ActiveLog, k \notin lost
        PROVE  Pursued(k)'
    <3>1. Pursued(k)
      BY <2>1 DEF ActiveInv
    <3>2. status'[k] \in Waiting \cup {"running"}
      <4>1. CASE k = j
        <5>1. outcome[s].result # "json"
          BY <1>1, <2>1, <4>1, QueueAssumption DEF ActiveInv
        <5>2. QED
          BY <1>1, <3>1, <4>1, <5>1 DEF Pursued, Waiting
      <4>2. CASE k # j
        BY <1>1, <3>1, <4>2 DEF Pursued
      <4>3. QED
        BY <4>1, <4>2
    <3>3. QED
      BY <1>1, <1>2, <1>3, <3>1, <3>2 DEF Pursued
  <2>2. QED
    BY <1>1, <1>3, <2>1 DEF ActiveInv
<1>8. QED
  BY <1>4, <1>5, <1>6, <1>7

LEMMA HandlerKeepsImports ==
    ASSUME QueueInv, ImportInv, NEW s \in Slots,
           \/ MarkRunning(s) \/ LoadFails(s) \/ ListOrUpsertFails(s)
           \/ ListAndUpsert(s) \/ Finish(s) \/ FinishFailed(s)
    PROVE  ImportInv'
<1> USE DEF ImportInv
<1>1. WithNil("fail") \in ImportOutcomes /\ WithNil("retry") \in ImportOutcomes
      /\ WithJSON("succeed") \in ImportOutcomes /\ WithJSON("fail") \in ImportOutcomes
      /\ WithNil("retry").result = "nil" /\ WithNil("fail").result = "nil"
  BY DEF ImportOutcomes, WithNil
<1>2. pc[s] # "idle" /\ holds[s] \in Jobs
  BY HeldIsPresent DEF MarkRunning, LoadFails, ListOrUpsertFails, ListAndUpsert, Finish,
     FinishFailed, PcInv
<1>3. /\ "status" \in DOMAIN log[holds[s]] /\ lost \subseteq Jobs
      /\ lost \cup {holds[s]} \subseteq Jobs
  BY <1>2 DEF LogInv
<1>4. ASSUME MarkRunning(s) PROVE ImportInv'
  <2> USE <1>4
  <2>1. CASE Goes(s, "load")
    <3>1. /\ log[holds[s]].status \in ActiveLog
          /\ log' = [log EXCEPT ![holds[s]].status = "running"]
          /\ UNCHANGED <<vars, asking, lost, found, wrote>>
      BY <1>2, <2>1 DEF MarkRunning, Markable, Returns, Goes, runVars, PcInv
    <3>2. log'[holds[s]].status = "running"
      BY <1>2, <1>3, <3>1 DEF LogInv
    <3>3. log'[holds[s]].status \notin Untouched
      BY <3>2 DEF Untouched
    <3>4. QED
      BY <1>2, <2>1, <3>1, <3>3, MoveKeepsImports
  <2>2. CASE Returns(s, WithNil("fail"))
    <3>1. /\ UNCHANGED <<log, asking, found, wrote>>
          /\ log[holds[s]].status \notin ActiveLog \/ holds[s] \in lost' \/ CanRetry(s)
          /\ lost \subseteq lost' /\ lost' \subseteq Jobs
      BY <1>2, <1>3, <2>2 DEF MarkRunning, Markable, Returns, Goes, PcInv
    <3>2. QED
      BY <1>1, <2>2, <3>1, ReturnKeepsImports
  <2>3. QED
    BY <2>1, <2>2 DEF MarkRunning
<1>5. ASSUME NEW total, NEW retryable, pc[s] = "load", finishImportFailure(s, total, retryable)
      PROVE  ImportInv'
  <2> USE <1>5
  <2>1. UNCHANGED <<log, asking, wrote, lost>>
    BY DEF finishImportFailure, logVars
  <2>2. CASE Returns(s, WithNil("retry")) /\ CanRetry(s) /\ UNCHANGED found
    BY <1>1, <1>3, <2>1, <2>2, ReturnKeepsImports
  <2>3. CASE Goes(s, "abandon") /\ UNCHANGED vars
    <3> DEFINE row == [NewLog("failed") EXCEPT !.total = total, !.failed = 1]
    <3>1. "status" \in DOMAIN row /\ row.status = "failed"
      BY DEF NewLog
    <3>2. found' = [found EXCEPT ![s] = row]
      BY <1>2, <2>3 DEF finishImportFailure, Returns, Goes, PcInv
    <3>3. log[holds[s]].status \notin Untouched
      BY DEF LogInv
    <3> HIDE DEF row
    <3>4. QED
      BY <1>2, <2>1, <2>3, <3>1, <3>2, <3>3, MoveKeepsImports
  <2>4. QED
    BY <2>2, <2>3 DEF finishImportFailure
<1>6. ASSUME ListAndUpsert(s) PROVE ImportInv'
  <2> USE <1>6
  <2>1. PICK l : found' = [found EXCEPT ![s] = Counted(l)]
    BY DEF ListAndUpsert
  <2>2. "status" \in DOMAIN Counted(l) /\ Counted(l).status \in {"succeeded", "partial"}
    BY DEF Counted
  <2>3. /\ UNCHANGED <<vars, log, asking, lost>> /\ Goes(s, "finish")
        /\ wrote' \in {wrote, wrote \cup {holds[s]}}
        /\ pc[s] = "load"
    BY DEF ListAndUpsert, logVars
  <2>4. log[holds[s]].status \notin Untouched
    BY <2>3 DEF LogInv
  <2>5. QED
    BY <2>1, <2>2, <2>3, <2>4, MoveKeepsImports
<1>7. ASSUME Finish(s) PROVE ImportInv'
  <2> USE <1>7
  <2>1. /\ UNCHANGED <<asking, wrote>> /\ found' = [found EXCEPT ![s] = NewLog("absent")]
        /\ "status" \in DOMAIN found[s]
        /\ found[s].status \in {"succeeded", "partial", "failed"}
    BY DEF Finish, PcInv
  <2>2. CASE /\ log' = [log EXCEPT ![holds[s]] = found[s]]
             /\ Returns(s, WithJSON("succeed")) /\ UNCHANGED lost
    <3>1. log'[holds[s]].status \notin ActiveLog
      BY <1>2, <2>1, <2>2 DEF LogInv, ActiveLog
    <3>2. QED
      BY <1>1, <1>3, <2>1, <2>2, <3>1, ReturnKeepsImports
  <2>3. CASE ~Finishable(holds[s]) /\ Returns(s, WithNil("retry")) /\ UNCHANGED <<log, lost>>
    <3>1. log'[holds[s]].status \notin ActiveLog
      BY <2>3 DEF Finishable
    <3>2. QED
      BY <1>1, <1>3, <2>1, <2>3, <3>1, ReturnKeepsImports
  <2>4. CASE /\ Returns(s, WithNil("retry")) /\ UNCHANGED log
             /\ lost' = IF CanRetry(s) THEN lost ELSE lost \cup {holds[s]}
    <3>1. lost \subseteq lost' /\ lost' \subseteq Jobs /\ (CanRetry(s) \/ holds[s] \in lost')
      BY <1>3, <2>4
    <3>2. QED
      BY <1>1, <2>1, <2>4, <3>1, ReturnKeepsImports
  <2>5. QED
    BY <2>2, <2>3, <2>4 DEF Finish
<1>8. ASSUME FinishFailed(s) PROVE ImportInv'
  <2> USE <1>8
  <2>1. /\ UNCHANGED <<asking, wrote>> /\ found' = [found EXCEPT ![s] = NewLog("absent")]
        /\ "status" \in DOMAIN found[s]
        /\ found[s].status \in {"succeeded", "partial", "failed"}
        /\ Returns(s, WithJSON("fail"))
    BY DEF FinishFailed, PcInv
  <2>2. CASE /\ log' = IF Finishable(holds[s]) THEN [log EXCEPT ![holds[s]] = found[s]] ELSE log
             /\ UNCHANGED lost
    <3>1. log'[holds[s]].status \notin ActiveLog
      BY <1>2, <2>1, <2>2 DEF LogInv, ActiveLog, Finishable
    <3>2. log' = log \/ log' = [log EXCEPT ![holds[s]] = found[s]]
      BY <2>2
    <3>3. QED
      BY <1>1, <1>3, <2>1, <2>2, <3>1, <3>2, ReturnKeepsImports
  <2>3. CASE lost' = lost \cup {holds[s]} /\ UNCHANGED log
    BY <1>1, <1>3, <2>1, <2>3, ReturnKeepsImports
  <2>4. QED
    BY <2>2, <2>3 DEF FinishFailed
<1>9. QED
  BY <1>4, <1>5, <1>6, <1>7, <1>8 DEF LoadFails, ListOrUpsertFails

LEMMA TicksKeepImports ==
    ASSUME QueueInv, ImportInv, ClockTicks
    PROVE  ImportInv'
<1> USE DEF ImportInv
<1>1. UNCHANGED <<status, attempts, holds, tryNo, outcome, log, asking, pc, found, wrote, lost>>
  BY DEF ClockTicks, RunAtPasses, LeaseExpires, logVars, runVars, slotVars
<1>2. PcInv'
  BY <1>1 DEF PcInv
<1>3. LogInv'
  BY <1>1 DEF LogInv
<1>4. OneActive'
  BY <1>1 DEF OneActive
<1>5. ActiveInv'
  BY <1>1 DEF ActiveInv, Pursued
<1>6. QED
  BY <1>2, <1>3, <1>4, <1>5

\* A crash loses the last statement of every slot that was on its last
\* attempt; the other jobs have an attempt left.
LEMMA CrashKeepsImports ==
    ASSUME QueueInv, ImportInv, CrashImports
    PROVE  ImportInv'
<1> USE DEF ImportInv
<1>1. /\ holds' = [s \in Slots |-> NoJob] /\ outcome' = [s \in Slots |-> Undecided]
      /\ pc' = [s \in Slots |-> "idle"] /\ found' = [s \in Slots |-> NewLog("absent")]
      /\ lost' = lost \cup {holds[s] : s \in {t \in Slots : holds[t] # NoJob /\ ~CanRetry(t)}}
      /\ UNCHANGED <<status, attempts, log, asking, wrote>>
  BY DEF CrashImports, Crash, rowVars, logVars
<1>2. lost' \subseteq Jobs
  BY <1>1, HeldIsPresent DEF LogInv
<1>3. PcInv'
  BY <1>1 DEF PcInv
<1>4. LogInv'
  BY <1>1, <1>2 DEF LogInv
<1>5. OneActive'
  BY <1>1 DEF OneActive
<1>6. ActiveInv'
  <2>1. ASSUME NEW k \in Jobs, log[k].status \in ActiveLog, k \notin lost'
        PROVE  Pursued(k)'
    <3>1. Pursued(k)
      BY <1>1, <2>1 DEF ActiveInv
    <3>2. ASSUME NEW s \in Slots, holds[s] = k, tryNo[s] = attempts[k]
          PROVE  attempts[k] < MaxAttempts[k]
      BY <1>1, <2>1, <3>2, QueueAssumption DEF CanRetry
    <3>3. QED
      BY <1>1, <3>1, <3>2 DEF Pursued
  <2>2. QED
    BY <1>1, <2>1 DEF ActiveInv
<1>7. QED
  BY <1>3, <1>4, <1>5, <1>6

LEMMA EditKeepsImports ==
    ASSUME QueueInv, ImportInv, CatalogEdit
    PROVE  ImportInv'
<1> USE DEF ImportInv
<1>1. CASE UNCHANGED <<vars, logVars, runVars>>
  BY <1>1, ImportsStay
<1>2. CASE DeleteShop
  <2>1. /\ UNCHANGED <<status, attempts, holds, tryNo, outcome, asking, pc, found, wrote, lost>>
        /\ log' = [j \in Jobs |-> IF log[j].status = "absent" THEN log[j] ELSE NewLog("deleted")]
    BY <1>2 DEF DeleteShop, vars, runVars
  <2>2. NewLog("deleted").status = "deleted" /\ "status" \in DOMAIN NewLog("deleted")
    BY DEF NewLog
  <2>3. \A j \in Jobs : /\ "status" \in DOMAIN log'[j]
                        /\ \/ log'[j].status = "absent" /\ log[j].status = "absent"
                           \/ log'[j].status = "deleted" /\ log[j].status # "absent"
    BY <2>1, <2>2 DEF LogInv
  <2>4. PcInv'
    BY <2>1 DEF PcInv
  <2>5. LogInv'
    <3>1. \A s \in Slots : pc[s] \in {"load", "finish", "abandon"} => holds[s] \in Jobs
      BY HeldIsPresent DEF PcInv
    <3>2. \A s \in Slots : pc[s] \in {"load", "finish", "abandon"} => log'[holds[s]].status \notin Untouched
      BY <2>3, <3>1 DEF LogInv, Untouched
    <3>3. \A j \in Jobs : /\ "status" \in DOMAIN log'[j] /\ log'[j].status \in LogStatus
                          /\ status[j] = "absent" => log'[j].status = "absent"
                          /\ j \in wrote => log'[j].status \notin Untouched
      BY <2>3 DEF LogInv, LogStatus, Untouched
    <3>4. log' = [j \in Jobs |-> log'[j]]
      BY <2>1
    <3>5. QED
      BY <2>1, <3>2, <3>3, <3>4 DEF LogInv
  <2>6. \A j \in Jobs : log'[j].status \notin ActiveLog
    BY <2>3 DEF ActiveLog
  <2>7. OneActive'
    BY <2>6 DEF OneActive
  <2>8. ActiveInv'
    BY <2>1, <2>6, HeldIsPresent DEF ActiveInv
  <2>9. QED
    BY <2>4, <2>5, <2>7, <2>8
<1>3. QED
  BY <1>1, <1>2 DEF CatalogEdit, CreateManual, SoftDelete, SendPatch, ValidateItem, WritePatch,
     SyncShopPrices

-----------------------------------------------------------------------------
(* The theorems.                                                           *)

LEMMA CatalogInvInit == CatalogInit => CatalogInv
<1> SUFFICES ASSUME CatalogInit PROVE CatalogInv
  OBVIOUS
<1> USE DEF CatalogInit
<1>1. Idle \in PatchUnderWay
  BY DEF Idle, PatchUnderWay
<1>2. RowsTyped
  BY <1>1 DEF RowsTyped
<1>3. NewLog("absent").status = "absent" /\ "status" \in DOMAIN NewLog("absent")
  BY DEF NewLog
<1>4. PcInv
  BY DEF PcInv
<1>5. LogInv
  BY <1>3 DEF LogInv, LogStatus
<1>6. OneActive
  BY <1>3 DEF OneActive, ActiveLog
<1>7. ActiveInv
  BY <1>3 DEF ActiveInv, ActiveLog, Init
<1>8. QED
  BY <1>2, <1>4, <1>5, <1>6, <1>7 DEF CatalogInv, ImportInv

LEMMA CatalogInvNext == QueueInv /\ QueueInv' /\ CatalogInv /\ [CatalogNext]_allVars => CatalogInv'
<1> SUFFICES ASSUME QueueInv, QueueInv', CatalogInv, [CatalogNext]_allVars PROVE CatalogInv'
  OBVIOUS
<1>1. RowsTyped'
  BY RowsStay DEF CatalogInv
<1>2. ImportInv /\ (UNCHANGED allVars => UNCHANGED <<vars, logVars, runVars>>)
  BY DEF CatalogInv, allVars
<1>3. ImportInv'
  BY <1>2, ImportsStay, RequestKeepsImports, ClaimKeepsImports, HandlerKeepsImports,
     SaveKeepsImports, TicksKeepImports, CrashKeepsImports, EditKeepsImports
     DEF CatalogNext, ImportStep
<1>4. QED
  BY <1>1, <1>3 DEF CatalogInv

THEOREM CatalogInvariant == CatalogSpec => [](QueueInv /\ CatalogInv)
BY CatalogInvInit, CatalogInvNext, CatalogRefinesQueue, QueueInvariant, PTL DEF CatalogSpec

\* The rows of products keep their types, and their bounds stay in order
\* whatever patches race (products_price_bounds_check).
THEOREM CatalogTypes == CatalogSpec => []CatalogTypeOK
<1>1. CatalogInv => CatalogTypeOK
  BY DEF CatalogInv, ImportInv, RowsTyped, PcInv, LogInv, CatalogTypeOK
<1>2. QED
  BY <1>1, CatalogInvariant, PTL

\* A shop never has two imports under way (importLogPg.EnqueueProductImport).
THEOREM ImportsExclusive == CatalogSpec => []OneActiveImport
<1>1. CatalogInv => OneActiveImport
  <2> SUFFICES ASSUME OneActive PROVE OneActiveImport
    BY DEF CatalogInv, ImportInv
  <2> DEFINE active == {j \in Jobs : log[j].status \in ActiveLog}
  <2>1. CASE active = {}
    BY <2>1, FS_EmptySet DEF OneActiveImport
  <2>2. CASE active # {}
    <3>1. PICK j : active = {j}
      BY <2>2 DEF OneActive
    <3>2. Cardinality({j}) = 1
      BY FS_Singleton
    <3>3. QED
      BY <3>1, <3>2 DEF OneActiveImport
  <2>3. QED
    BY <2>1, <2>2
<1>2. QED
  BY <1>1, CatalogInvariant, PTL

\* An import that refuses others as already running has a job that will end
\* it, unless a statement of its last attempt was lost.
THEOREM ActiveImportsHaveJobs == CatalogSpec => []ActiveHasJob
<1>1. CatalogInv => ActiveHasJob
  BY DEF CatalogInv, ImportInv, ActiveInv, Pursued, ActiveHasJob, Alive
<1>2. QED
  BY <1>1, CatalogInvariant, PTL

\* An import reported as canceled has touched no product (importLogPg.Cancel).
THEOREM CanceledImportsAreClean == CatalogSpec => []CanceledWritesNothing
<1>1. CatalogInv => CanceledWritesNothing
  BY DEF CatalogInv, ImportInv, LogInv, Untouched, CanceledWritesNothing
<1>2. QED
  BY <1>1, CatalogInvariant, PTL

\* The result of an import stays once it is shown, whichever attempt comes
\* late.
THEOREM ResultsStay == CatalogSpec => FinishedStays
<1>1. ASSUME CatalogInv, CatalogNext, NEW j \in Jobs, log[j].status \in TerminalLog
      PROVE  log'[j] = log[j] \/ shop' = NoVal
  <2> USE <1>1
  <2>1. CASE UNCHANGED log
    BY <2>1
  <2>2. ASSUME NEW i \in Jobs, EnqueueProductImport(i) PROVE log'[j] = log[j]
    <3>1. Enqueue(i) => log[i].status = "absent"
      BY DEF Enqueue, CatalogInv, ImportInv, LogInv
    <3>2. QED
      BY <2>2, <3>1 DEF EnqueueProductImport, CatalogInv, ImportInv, LogInv, TerminalLog
  <2>3. ASSUME NEW i \in Jobs, Cancel(i) PROVE log'[j] = log[j]
    BY <2>3 DEF Cancel, Cancelable, CatalogInv, ImportInv, LogInv, TerminalLog
  <2>4. ASSUME NEW s \in Slots, MarkRunning(s) PROVE log'[j] = log[j]
    BY <2>4 DEF MarkRunning, Markable, CatalogInv, ImportInv, LogInv, TerminalLog, ActiveLog
  <2>5. ASSUME NEW s \in Slots, Finish(s) PROVE log'[j] = log[j]
    BY <2>5 DEF Finish, Finishable, CatalogInv, ImportInv, LogInv, TerminalLog, ActiveLog
  <2>6. ASSUME NEW s \in Slots, FinishFailed(s) PROVE log'[j] = log[j]
    BY <2>6 DEF FinishFailed, Finishable, CatalogInv, ImportInv, LogInv, TerminalLog, ActiveLog
  <2>7. CASE DeleteShop
    BY <2>7 DEF DeleteShop
  <2>8. CASE ImportRequest
    BY <2>1, <2>2, <2>3, <2>8 DEF ImportRequest, StartImport, CooldownPasses
  <2>9. CASE ImportStep
    BY <2>1, <2>4, <2>5, <2>6, <2>9 DEF ImportStep, ClaimImport, LoadFails, ListOrUpsertFails,
       finishImportFailure, ListAndUpsert, SaveImport, logVars
  <2>10. CASE ClockTicks \/ CrashImports \/ CatalogEdit
    BY <2>1, <2>7, <2>10 DEF ClockTicks, CrashImports, CatalogEdit, CreateManual, SoftDelete,
       SendPatch, ValidateItem, WritePatch, SyncShopPrices, logVars
  <2>11. QED
    BY <2>8, <2>9, <2>10 DEF CatalogNext
<1>2. CatalogInv /\ [CatalogNext]_allVars =>
          [\A j \in Jobs : log[j].status \in TerminalLog =>
              log'[j] = log[j] \/ shop' = NoVal]_allVars
  BY <1>1
<1>3. QED
  BY <1>2, CatalogInvariant, PTL DEF CatalogSpec, FinishedStays

=============================================================================
