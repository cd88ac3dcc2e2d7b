--------------------------- MODULE JobQueueProofs ---------------------------
(* Theorems about JobQueue, for every number of jobs, goroutines and       *)
(* attempts.                                                               *)
EXTENDS JobQueueRefinement, TLAPS

-----------------------------------------------------------------------------
(* The inductive invariant.                                                *)

\* A slot's attempt has been counted in the row.
TryCounted ==
    \A s \in Slots : holds[s] # NoJob =>
        1 <= tryNo[s] /\ tryNo[s] <= attempts[holds[s]]

\* An idle slot has decided nothing.
IdleUndecided == \A s \in Slots : holds[s] = NoJob => outcome[s] = Undecided

\* A retry of a kind that checks its attempts was decided with one left.
RetryDecidedInTime ==
    \A s \in Slots :
        /\ holds[s] # NoJob
        /\ outcome[s].verdict = "retry"
        /\ Kind[holds[s]] # "sku_import"
        => tryNo[s] < MaxAttempts[holds[s]]

\* A row not yet inserted has not been claimed.
AbsentUntried == \A j \in Jobs : status[j] = "absent" => attempts[j] = 0

QueueInv ==
    /\ TypeOK
    /\ TryCounted
    /\ IdleUndecided
    /\ RetryDecidedInTime
    /\ AbsentUntried
    /\ AttemptRunsOnce
    /\ HolderIsCurrent
    /\ WaitingHasAttemptLeft

-----------------------------------------------------------------------------
\* What a handler may decide is an outcome, and a decided one.
LEMMA OutcomesTyped ==
    ASSUME NEW j \in Jobs, NEW n \in Nat, NEW o \in Outcomes(j, n)
    PROVE  /\ o \in Outcome
           /\ o.verdict # "none"
           /\ o.verdict = "retry" /\ Kind[j] # "sku_import" => n < MaxAttempts[j]
<1> DEFINE Shape == {WithJSON("succeed"), WithNil("succeed"), WithNil("retry"),
                   WithJSON("fail"), WithNil("fail")}
<1>1. o \in Shape
  BY DEF Outcomes, ImportOutcomes, OtherOutcomes
<1>2. ASSUME NEW w \in Shape
      PROVE  w \in Outcome /\ w.verdict # "none"
  <2>1. w \in Outcome
    BY DEF WithJSON, WithNil, Outcome
  <2>2. w.verdict \in {"succeed", "retry", "fail"}
    BY DEF WithJSON, WithNil
  <2>3. QED
    BY <2>1, <2>2
<1>3. ASSUME o.verdict = "retry", Kind[j] # "sku_import"
      PROVE  n < MaxAttempts[j]
  <2>1. o # WithNil("succeed") /\ o # WithNil("fail")
    BY <1>3 DEF WithNil
  <2>2. QED
    BY <1>3, <2>1 DEF Outcomes, OtherOutcomes
<1>4. QED
  BY <1>1, <1>2, <1>3

\* No step of the queue leaves the types, or exceeds max_attempts.
LEMMA StepKeepsTypes ==
    ASSUME TypeOK, [Next]_vars
    PROVE  TypeOK'
<1> USE QueueAssumption
<1> USE DEF TypeOK, Statuses, Waiting, Terminal, rowVars, slotVars
<1>1. ASSUME NEW j \in Jobs, Enqueue(j) PROVE TypeOK'
  BY <1>1 DEF Enqueue
<1>2. ASSUME NEW j \in Jobs, RunAtPasses(j) PROVE TypeOK'
  BY <1>2 DEF RunAtPasses
<1>3. ASSUME NEW j \in Jobs, LeaseExpires(j) PROVE TypeOK'
  BY <1>3 DEF LeaseExpires
<1>4. ASSUME NEW j \in Jobs, CancelImport(j) PROVE TypeOK'
  BY <1>4 DEF CancelImport
<1>5. ASSUME NEW s \in Slots, Claim(s) PROVE TypeOK'
  BY <1>5 DEF Claim, NextAttempt, ClaimAllowed
<1>6. ASSUME NEW s \in Slots, HandlerReturns(s) PROVE TypeOK'
  <2>1. PICK o \in Outcomes(holds[s], tryNo[s]) : Decide(s, o)
    BY <1>6 DEF HandlerReturns
  <2>2. holds[s] \in Jobs /\ tryNo[s] \in Nat
    BY <1>6 DEF HandlerReturns
  <2>3. o \in Outcome
    BY <2>2, OutcomesTyped
  <2>4. QED
    BY <2>1, <2>3 DEF Decide
<1>7. ASSUME NEW s \in Slots, SaveRetry(s) PROVE TypeOK'
  <2>1. Undecided \in Outcome
    BY DEF Undecided, Outcome
  <2>2. CASE status[holds[s]] = "running"
    BY <1>7, <2>1, <2>2 DEF SaveRetry, Release
  <2>3. CASE status[holds[s]] # "running"
    BY <1>7, <2>1, <2>3 DEF SaveRetry, Release
  <2>4. QED
    BY <2>2, <2>3
<1>8. ASSUME NEW s \in Slots, SaveSucceed(s) PROVE TypeOK'
  BY <1>8 DEF SaveSucceed, SettleRow, Release, Undecided, Outcome
<1>9. ASSUME NEW s \in Slots, SaveFail(s) PROVE TypeOK'
  BY <1>9 DEF SaveFail, SettleRow, Release, Undecided, Outcome
<1>10. ASSUME NEW s \in Slots, SaveLost(s) PROVE TypeOK'
  BY <1>10 DEF SaveLost, Release, Undecided, Outcome
<1>11. CASE Crash
  BY <1>11 DEF Crash, Undecided, Outcome
<1>12. CASE UNCHANGED vars
  BY <1>12 DEF vars
<1>13. QED
  BY <1>1, <1>2, <1>3, <1>4, <1>5, <1>6, <1>7, <1>8, <1>9, <1>10, <1>11, <1>12
  DEF Next, TableStep, WorkerStep, Save

\* Every row keeps the types of its columns and never exceeds max_attempts.
THEOREM TypeCorrect == Spec => []TypeOK
<1>1. Init => TypeOK
  BY QueueAssumption
  DEF Init, TypeOK, Statuses, Waiting, Terminal, Outcome, Undecided
<1>2. TypeOK /\ [Next]_vars => TypeOK'
  BY StepKeepsTypes
<1>3. QED
  BY <1>1, <1>2, PTL DEF Spec
-----------------------------------------------------------------------------
(* QueueInv is inductive: one lemma per group of actions.                  *)

\* Steps of the table and of the clocks touch no slot.
LEMMA TableKeepsInv ==
    ASSUME QueueInv, TypeOK', NEW j \in Jobs,
           Enqueue(j) \/ RunAtPasses(j) \/ LeaseExpires(j) \/ CancelImport(j)
    PROVE  QueueInv'
<1> USE QueueAssumption DEF QueueInv, TypeOK, TryCounted, IdleUndecided,
        RetryDecidedInTime, AbsentUntried, AttemptRunsOnce, HolderIsCurrent,
        WaitingHasAttemptLeft, slotVars, Waiting
<1>1. CASE Enqueue(j)
  BY <1>1 DEF Enqueue
<1>2. CASE RunAtPasses(j)
  BY <1>2 DEF RunAtPasses
<1>3. CASE LeaseExpires(j)
  BY <1>3 DEF LeaseExpires
<1>4. CASE CancelImport(j)
  BY <1>4 DEF CancelImport
<1>5. QED
  BY <1>1, <1>2, <1>3, <1>4

\* A claim hands out a fresh attempt number; a claimed job outside Overrun is
\* held by nobody, for its lock cannot have expired under a goroutine.
LEMMA ClaimKeepsInv ==
    ASSUME QueueInv, TypeOK', NEW s \in Slots, Claim(s)
    PROVE  QueueInv'
<1> USE QueueAssumption DEF QueueInv, TypeOK
<1>1. PICK j \in Jobs :
        /\ Claimable(j)
        /\ status'   = [status EXCEPT ![j] = "running"]
        /\ attempts' = [attempts EXCEPT ![j] = @ + 1]
        /\ lease'    = [lease EXCEPT ![j] = "live"]
        /\ holds'    = [holds EXCEPT ![s] = j]
        /\ tryNo'    = [tryNo EXCEPT ![s] = attempts[j] + 1]
  BY DEF Claim, NextAttempt, IsHead
<1>2. holds[s] = NoJob /\ outcome' = outcome
  BY DEF Claim
<1>3. TryCounted'
  BY <1>1, <1>2 DEF TryCounted
<1>4. IdleUndecided' /\ RetryDecidedInTime'
  BY <1>1, <1>2 DEF IdleUndecided, RetryDecidedInTime, Undecided
<1>5. AbsentUntried' /\ WaitingHasAttemptLeft'
  BY <1>1 DEF AbsentUntried, WaitingHasAttemptLeft, Waiting
<1>6. AttemptRunsOnce'
  BY <1>1, <1>2 DEF AttemptRunsOnce, TryCounted
<1>7. HolderIsCurrent'
  <2>1. ASSUME j \notin Overrun, NEW t \in Slots, holds[t] = j PROVE FALSE
    BY <1>1, <2>1 DEF Claimable, HolderIsCurrent, Waiting
  <2>2. QED
    BY <1>1, <2>1 DEF HolderIsCurrent
<1>8. QED
  BY <1>3, <1>4, <1>5, <1>6, <1>7

\* A handler decides to retry only with an attempt left.
LEMMA HandlerKeepsInv ==
    ASSUME QueueInv, TypeOK', NEW s \in Slots, HandlerReturns(s)
    PROVE  QueueInv'
<1> USE QueueAssumption DEF QueueInv, TypeOK
<1>1. PICK o \in Outcomes(holds[s], tryNo[s]) : Decide(s, o)
  BY DEF HandlerReturns
<1>2. holds[s] \in Jobs /\ tryNo[s] \in Nat
  BY DEF HandlerReturns
<1>3. o.verdict = "retry" /\ Kind[holds[s]] # "sku_import"
        => tryNo[s] < MaxAttempts[holds[s]]
  BY <1>2, OutcomesTyped
<1>4. /\ outcome' = [outcome EXCEPT ![s] = o]
      /\ UNCHANGED <<status, attempts, lease, holds, tryNo>>
  BY <1>1 DEF Decide, rowVars
<1>5. RetryDecidedInTime'
  BY <1>3, <1>4 DEF RetryDecidedInTime
<1>6. IdleUndecided'
  BY <1>2, <1>4 DEF IdleUndecided
<1>7. QED
  BY <1>4, <1>5, <1>6
  DEF TryCounted, AbsentUntried, AttemptRunsOnce, HolderIsCurrent,
      WaitingHasAttemptLeft

\* Saves release the slot; the row they settle was held by that slot alone,
\* or may outlive its lock.
LEMMA SaveKeepsInv ==
    ASSUME QueueInv, TypeOK', NEW s \in Slots, Save(s)
    PROVE  QueueInv'
<1> USE QueueAssumption DEF QueueInv, TypeOK
<1>1. /\ holds' = [holds EXCEPT ![s] = NoJob]
      /\ tryNo' = [tryNo EXCEPT ![s] = 0]
      /\ outcome' = [outcome EXCEPT ![s] = Undecided]
      /\ attempts' = attempts
      /\ holds[s] \in Jobs
  BY DEF Save, SaveRetry, SaveSucceed, SaveFail, SaveLost, SettleRow, Release,
         rowVars
<1>2. /\ \A j \in Jobs : j # holds[s] => status'[j] = status[j] /\ lease'[j] = lease[j]
      /\ status'[holds[s]] # "absent" \/ status' = status
  BY <1>1 DEF Save, SaveRetry, SaveSucceed, SaveFail, SaveLost, SettleRow, rowVars
<1>3. status'[holds[s]] \in Waiting =>
        status[holds[s]] \in Waiting \/ outcome[s].verdict = "retry"
  BY <1>1 DEF Save, SaveRetry, SaveSucceed, SaveFail, SaveLost, SettleRow,
              rowVars, Waiting
<1>4. TryCounted' /\ IdleUndecided' /\ AttemptRunsOnce'
  BY <1>1 DEF TryCounted, IdleUndecided, AttemptRunsOnce
<1>5. RetryDecidedInTime'
  BY <1>1 DEF RetryDecidedInTime, Undecided
<1>6. AbsentUntried'
  BY <1>1, <1>2 DEF AbsentUntried
<1>7. \A t \in Slots : holds[t] = holds[s] /\ holds[s] \notin Overrun => t = s
  BY <1>1 DEF HolderIsCurrent, AttemptRunsOnce
<1>8. HolderIsCurrent'
  <2> SUFFICES ASSUME NEW t \in Slots, holds'[t] \in Jobs \ Overrun
               PROVE  /\ status'[holds'[t]] = "running"
                      /\ lease'[holds'[t]] = "live"
                      /\ attempts'[holds'[t]] = tryNo'[t]
    BY DEF HolderIsCurrent
  <2>1. t # s /\ holds'[t] = holds[t] /\ tryNo'[t] = tryNo[t]
    BY <1>1
  <2>2. holds[t] # holds[s]
    BY <1>7, <2>1
  <2>3. QED
    BY <1>1, <1>2, <2>1, <2>2 DEF HolderIsCurrent
<1>9. WaitingHasAttemptLeft'
  <2> SUFFICES ASSUME NEW j \in Jobs \ Overrun, Kind[j] # "sku_import",
                      status'[j] \in Waiting
               PROVE  attempts[j] < MaxAttempts[j]
    BY <1>1 DEF WaitingHasAttemptLeft
  <2>1. CASE j # holds[s] \/ status[j] \in Waiting
    BY <1>2, <2>1 DEF WaitingHasAttemptLeft
  <2>2. CASE j = holds[s] /\ outcome[s].verdict = "retry"
    BY <1>1, <2>2 DEF RetryDecidedInTime, HolderIsCurrent
  <2>3. QED
    BY <1>3, <2>1, <2>2
<1>10. QED
  BY <1>4, <1>5, <1>6, <1>8, <1>9

\* QueueInv holds in every reachable state.
THEOREM QueueInvariant == Spec => []QueueInv
<1>1. Init => QueueInv
  <2> SUFFICES ASSUME Init PROVE QueueInv
    OBVIOUS
  <2>1. TypeOK
    BY QueueAssumption DEF Init, TypeOK, Statuses, Waiting, Terminal, Outcome,
                           Undecided
  <2>2. QED
    BY <2>1, QueueAssumption
    DEF QueueInv, Init, TryCounted, IdleUndecided, RetryDecidedInTime,
        AbsentUntried, AttemptRunsOnce, HolderIsCurrent, WaitingHasAttemptLeft,
        Waiting
<1>2. QueueInv /\ TypeOK' /\ [Next]_vars => QueueInv'
  <2> SUFFICES ASSUME QueueInv, TypeOK', [Next]_vars PROVE QueueInv'
    OBVIOUS
  <2>1. CASE TableStep
    BY <2>1, TableKeepsInv DEF TableStep
  <2>2. CASE WorkerStep
    BY <2>2, ClaimKeepsInv, HandlerKeepsInv, SaveKeepsInv DEF WorkerStep
  <2>3. CASE Crash
    BY <2>3, QueueAssumption
    DEF Crash, rowVars, QueueInv, TypeOK, TryCounted, IdleUndecided,
        RetryDecidedInTime, AbsentUntried, AttemptRunsOnce, HolderIsCurrent,
        WaitingHasAttemptLeft
  <2>4. CASE UNCHANGED vars
    BY <2>4 DEF vars, QueueInv, TypeOK, TryCounted, IdleUndecided,
        RetryDecidedInTime, AbsentUntried, AttemptRunsOnce, HolderIsCurrent,
        WaitingHasAttemptLeft
  <2>5. QED
    BY <2>1, <2>2, <2>3, <2>4 DEF Next
<1>3. QED
  BY <1>1, <1>2, TypeCorrect, PTL DEF Spec

-----------------------------------------------------------------------------
(* What follows from it.                                                   *)

\* No attempt of any job is executed by two goroutines.
THEOREM AttemptsRunOnce == Spec => []AttemptRunsOnce
<1>1. QueueInv => AttemptRunsOnce
  BY DEF QueueInv
<1>2. QED
  BY <1>1, QueueInvariant, PTL

\* The goroutine of a job that cannot outlive its lock owns the row.
THEOREM HoldersAreCurrent == Spec => []HolderIsCurrent
<1>1. QueueInv => HolderIsCurrent
  BY DEF QueueInv
<1>2. QED
  BY <1>1, QueueInvariant, PTL

\* A job that cannot outlive its lock has one goroutine at a time.
THEOREM HoldersAreUnique == Spec => []SoleHolder
<1>1. QueueInv => SoleHolder
  BY QueueAssumption
  DEF QueueInv, HolderIsCurrent, AttemptRunsOnce, SoleHolder
<1>2. QED
  BY <1>1, QueueInvariant, PTL

\* Kinds that check their attempts never leave a row ClaimNext cannot take.
THEOREM WaitingRowsAreClaimable == Spec => []WaitingHasAttemptLeft
<1>1. QueueInv => WaitingHasAttemptLeft
  BY DEF QueueInv
<1>2. QED
  BY <1>1, QueueInvariant, PTL

\* A terminal row never changes its status, late saves included.
THEOREM TerminalRowsAreFinal == Spec => TerminalIsFinal
<1>1. TypeOK /\ [Next]_vars =>
        [\A j \in Jobs : status[j] \in Terminal => status'[j] = status[j]]_vars
  <2> SUFFICES ASSUME TypeOK, Next, NEW k \in Jobs, status[k] \in Terminal
               PROVE  status'[k] = status[k]
    BY DEF vars
  <2> USE DEF TypeOK, Terminal
  <2>1. CASE TableStep
    BY <2>1 DEF TableStep, Enqueue, RunAtPasses, LeaseExpires, CancelImport,
                Waiting
  <2>2. ASSUME NEW s \in Slots, Claim(s) PROVE status'[k] = status[k]
    BY <2>2 DEF Claim, NextAttempt, IsHead, Claimable, Waiting
  <2>3. ASSUME NEW s \in Slots, HandlerReturns(s) PROVE status'[k] = status[k]
    BY <2>3 DEF HandlerReturns, Decide, rowVars
  <2>4. ASSUME NEW s \in Slots, Save(s) PROVE status'[k] = status[k]
    BY <2>4 DEF Save, SaveRetry, SaveSucceed, SaveFail, SaveLost, SettleRow,
                rowVars
  <2>5. CASE Crash
    BY <2>5 DEF Crash, rowVars
  <2>6. QED
    BY <2>1, <2>2, <2>3, <2>4, <2>5 DEF Next, WorkerStep
<1>2. QED
  BY <1>1, TypeCorrect, PTL DEF Spec, TerminalIsFinal

-----------------------------------------------------------------------------
(* The refinement of JobLedger.                                            *)

\* Giving up a slot takes its attempt, and no other, out of the active set.
LEMMA ReleaseStopsOne ==
    ASSUME QueueInv, NEW s \in Slots, holds[s] # NoJob, Release(s)
    PROVE  activeBar' = [activeBar EXCEPT ![holds[s]] = @ \ {tryNo[s]}]
<1> USE QueueAssumption DEF QueueInv, TypeOK
<1>1. holds[s] \in Jobs
  OBVIOUS
<1>2. ASSUME NEW j \in Jobs, j # holds[s]
      PROVE  activeBar'[j] = activeBar[j]
  <2>1. {t \in Slots : holds'[t] = j} = {t \in Slots : holds[t] = j}
    BY <1>2 DEF Release
  <2>2. \A t \in Slots : holds[t] = j => tryNo'[t] = tryNo[t]
    BY <1>2 DEF Release
  <2>3. QED
    BY <2>1, <2>2 DEF activeBar
<1>3. activeBar'[holds[s]] = activeBar[holds[s]] \ {tryNo[s]}
  <2> DEFINE Others == {t \in Slots : holds[t] = holds[s]} \ {s}
  <2>1. {t \in Slots : holds'[t] = holds[s]} = Others
    BY <1>1 DEF Release
  <2>2. \A t \in Others : tryNo'[t] = tryNo[t] /\ tryNo[t] # tryNo[s]
    BY DEF Release, AttemptRunsOnce
  <2>3. {tryNo[t] : t \in {u \in Slots : holds[u] = holds[s]}} \ {tryNo[s]}
          = {tryNo[t] : t \in Others}
    BY <2>2
  <2>4. {tryNo'[t] : t \in Others} = {tryNo[t] : t \in Others}
    BY <2>2
  <2>5. QED
    BY <1>1, <2>1, <2>3, <2>4 DEF activeBar
<1>4. QED
  BY <1>1, <1>2, <1>3 DEF activeBar

\* A claim is a Start of the ledger.
LEMMA ClaimStarts ==
    ASSUME QueueInv, NEW s \in Slots, Claim(s)
    PROVE  \E j \in Jobs : Ledger!Start(j)
<1> USE QueueAssumption DEF QueueInv, TypeOK
<1>1. PICK j \in Jobs :
        /\ Claimable(j)
        /\ ClaimAllowed(j)
        /\ status'   = [status EXCEPT ![j] = "running"]
        /\ attempts' = [attempts EXCEPT ![j] = @ + 1]
        /\ holds'    = [holds EXCEPT ![s] = j]
        /\ tryNo'    = [tryNo EXCEPT ![s] = attempts[j] + 1]
  BY DEF Claim, NextAttempt, IsHead
<1>2. holds[s] = NoJob
  BY DEF Claim
<1>3. phaseBar[j] \in {"queued", "owned"}
  BY <1>1 DEF phaseBar, Claimable, Waiting
<1>4. phaseBar' = [phaseBar EXCEPT ![j] = "owned"]
  BY <1>1 DEF phaseBar, Waiting
<1>5. attempts[j] < MaxAttempts[j]
  BY <1>1 DEF ClaimAllowed
<1>6. j \in Jobs \ Overrun => activeBar[j] = {}
  BY <1>1 DEF activeBar, Claimable, HolderIsCurrent, Waiting
<1>7. activeBar' = [activeBar EXCEPT ![j] = @ \cup {attempts[j] + 1}]
  <2>1. ASSUME NEW k \in Jobs, k # j PROVE activeBar'[k] = activeBar[k]
    <3>1. {t \in Slots : holds'[t] = k} = {t \in Slots : holds[t] = k}
      BY <1>1, <1>2, <2>1
    <3>2. \A t \in Slots : holds[t] = k => tryNo'[t] = tryNo[t]
      BY <1>1, <1>2, <2>1
    <3>3. QED
      BY <3>1, <3>2 DEF activeBar
  <2>2. activeBar'[j] = activeBar[j] \cup {attempts[j] + 1}
    <3> DEFINE Before == {t \in Slots : holds[t] = j}
    <3>1. {t \in Slots : holds'[t] = j} = Before \cup {s} /\ s \notin Before
      BY <1>1, <1>2
    <3>2. \A t \in Before : tryNo'[t] = tryNo[t]
      BY <1>1, <3>1
    <3>3. tryNo'[s] = attempts[j] + 1
      BY <1>1
    <3>4. {tryNo'[t] : t \in Before \cup {s}}
            = {tryNo[t] : t \in Before} \cup {attempts[j] + 1}
      BY <3>2, <3>3
    <3>5. QED
      BY <3>1, <3>4 DEF activeBar
  <2>3. QED
    BY <2>1, <2>2 DEF activeBar
<1>8. QED
  BY <1>1, <1>3, <1>4, <1>5, <1>6, <1>7 DEF Ledger!Start

\* A save is a Stop of the attempt its slot executed.
LEMMA SaveStops ==
    ASSUME QueueInv, NEW s \in Slots, Save(s)
    PROVE  \E j \in Jobs : \E n \in activeBar[j] : Ledger!Stop(j, n)
<1> USE QueueAssumption DEF QueueInv, TypeOK
<1> DEFINE j == holds[s]
           n == tryNo[s]
<1>1. /\ holds[s] \in Jobs
      /\ Release(s)
      /\ attempts' = attempts
  BY DEF Save, SaveRetry, SaveSucceed, SaveFail, SaveLost, SettleRow, rowVars
<1>2. n \in activeBar[j]
  BY <1>1 DEF activeBar
<1>3. activeBar' = [activeBar EXCEPT ![j] = @ \ {n}]
  BY <1>1, ReleaseStopsOne
<1>4. \/ status' = status
      \/ /\ status[j] = "running"
         /\ \E st \in Waiting \cup Terminal : status' = [status EXCEPT ![j] = st]
  BY <1>1 DEF Save, SaveRetry, SaveSucceed, SaveFail, SaveLost, SettleRow,
              rowVars, Waiting, Terminal
<1>5. CASE status' = status
  <2>1. phaseBar' = phaseBar
    BY <1>5 DEF phaseBar
  <2>2. QED
    BY <1>1, <1>2, <1>3, <2>1 DEF Ledger!Stop
<1>6. ASSUME status[j] = "running",
             NEW st \in Waiting \cup Terminal,
             status' = [status EXCEPT ![j] = st]
      PROVE  Ledger!Stop(j, n)
  <2>1. phaseBar[j] = "owned"
    BY <1>1, <1>6 DEF phaseBar, Waiting
  <2>2. PICK p \in {"queued", "closed"} : phaseBar' = [phaseBar EXCEPT ![j] = p]
    <3>1. CASE st \in Waiting
      BY <1>1, <1>6, <3>1 DEF phaseBar, Waiting
    <3>2. CASE st \in Terminal
      BY <1>1, <1>6, <3>2 DEF phaseBar, Waiting, Terminal
    <3>3. QED
      BY <1>6, <3>1, <3>2
  <2>3. j \in Jobs \ Overrun => n = attempts[j]
    BY <1>1 DEF HolderIsCurrent
  <2>4. QED
    BY <1>1, <1>2, <1>3, <2>1, <2>2, <2>3 DEF Ledger!Stop
<1>7. QED
  BY <1>1, <1>2, <1>4, <1>5, <1>6

\* The queue implements the ledger: ascending attempt numbers, at most
\* max_attempts of them, one at a time for a job that cannot outlive its lock,
\* and only the attempt under way decides what becomes of such a job.
THEOREM QueueImplementsLedger == Spec => ImplementsLedger
<1> USE QueueAssumption
<1>1. Init => Ledger!Init
  BY DEF Init, Ledger!Init, phaseBar, activeBar
<1>2. QueueInv /\ [Next]_vars => [Ledger!Next]_(Ledger!vars)
  <2> SUFFICES ASSUME QueueInv, [Next]_vars
               PROVE  [Ledger!Next]_(Ledger!vars)
    OBVIOUS
  <2> USE DEF QueueInv, TypeOK
  <2>1. ASSUME NEW j \in Jobs, Enqueue(j) PROVE Ledger!Submit(j)
    <3>1. phaseBar[j] = "absent" /\ phaseBar' = [phaseBar EXCEPT ![j] = "queued"]
      BY <2>1 DEF Enqueue, phaseBar, Waiting
    <3>2. UNCHANGED <<attempts, activeBar>>
      BY <2>1 DEF Enqueue, slotVars, activeBar
    <3>3. QED
      BY <3>1, <3>2 DEF Ledger!Submit
  <2>2. ASSUME NEW j \in Jobs, RunAtPasses(j) \/ LeaseExpires(j)
        PROVE  UNCHANGED Ledger!vars
    BY <2>2 DEF RunAtPasses, LeaseExpires, slotVars, Ledger!vars, phaseBar,
                activeBar
  <2>3. ASSUME NEW j \in Jobs, CancelImport(j) PROVE Ledger!Withdraw(j)
    <3>1. phaseBar[j] = "queued" /\ phaseBar' = [phaseBar EXCEPT ![j] = "closed"]
      BY <2>3 DEF CancelImport, phaseBar, Waiting
    <3>2. UNCHANGED <<attempts, activeBar>>
      BY <2>3 DEF CancelImport, slotVars, activeBar
    <3>3. QED
      BY <3>1, <3>2 DEF Ledger!Withdraw
  <2>4. ASSUME NEW s \in Slots, HandlerReturns(s)
        PROVE  UNCHANGED Ledger!vars
    BY <2>4 DEF HandlerReturns, Decide, rowVars, Ledger!vars, phaseBar, activeBar
  <2>5. CASE Crash
    BY <2>5 DEF Crash, rowVars, Ledger!Next, Ledger!Halt, phaseBar, activeBar
  <2>6. CASE UNCHANGED vars
    BY <2>6 DEF vars, Ledger!vars, phaseBar, activeBar
  <2>7. QED
    BY <2>1, <2>2, <2>3, <2>4, <2>5, <2>6, ClaimStarts, SaveStops
    DEF Next, TableStep, WorkerStep, Ledger!Next
<1>3. QED
  BY <1>1, <1>2, QueueInvariant, PTL DEF Spec, ImplementsLedger, Ledger!Spec
=============================================================================
