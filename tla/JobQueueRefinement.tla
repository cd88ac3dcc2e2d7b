------------------------- MODULE JobQueueRefinement -------------------------
(* JobQueue implements JobLedger.                                          *)
EXTENDS JobQueue

phaseBar ==
    [j \in Jobs |->
        IF status[j] = "absent" THEN "absent"
        ELSE IF status[j] \in Waiting THEN "queued"
        ELSE IF status[j] = "running" THEN "owned"
        ELSE "closed"]

activeBar == [j \in Jobs |-> {tryNo[s] : s \in {t \in Slots : holds[t] = j}}]

Ledger == INSTANCE JobLedger
    WITH Limit <- MaxAttempts, Exclusive <- Jobs \ Overrun,
         phase <- phaseBar, tries <- attempts, active <- activeBar

\* The queue keeps the ledger's promise: every step of the table, a goroutine
\* or a crash is a step of JobLedger or changes nothing it shows.
ImplementsLedger == Ledger!Spec
=============================================================================
