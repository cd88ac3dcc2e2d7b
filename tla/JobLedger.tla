------------------------------ MODULE JobLedger -----------------------------
(***************************************************************************)
(* What background_jobs promises its users, without locks, clocks, order   *)
(* or goroutines: a job is run under ascending attempt numbers, at most    *)
(* Limit[j] of them and each once; a job in Exclusive has at most one      *)
(* attempt under way, and only that attempt decides what becomes of the    *)
(* job; a closed job is never run again.                                   *)
(***************************************************************************)
EXTENDS Integers

CONSTANTS Jobs, Limit, Exclusive

VARIABLES
    phase,    \* "absent", "queued", "owned" or "closed"
    tries,    \* attempts started so far
    active    \* the attempt numbers under way

vars == <<phase, tries, active>>

Init ==
    /\ phase  = [j \in Jobs |-> "absent"]
    /\ tries  = [j \in Jobs |-> 0]
    /\ active = [j \in Jobs |-> {}]

Submit(j) ==
    /\ phase[j] = "absent"
    /\ phase' = [phase EXCEPT ![j] = "queued"]
    /\ UNCHANGED <<tries, active>>

Withdraw(j) ==
    /\ phase[j] = "queued"
    /\ phase' = [phase EXCEPT ![j] = "closed"]
    /\ UNCHANGED <<tries, active>>

\* An attempt starts on a queued job, or takes over an interrupted one.
Start(j) ==
    /\ phase[j] \in {"queued", "owned"}
    /\ tries[j] < Limit[j]
    /\ j \in Exclusive => active[j] = {}
    /\ phase'  = [phase EXCEPT ![j] = "owned"]
    /\ tries'  = [tries EXCEPT ![j] = @ + 1]
    /\ active' = [active EXCEPT ![j] = @ \cup {tries[j] + 1}]

\* Attempt n ends; it may requeue or close the job it owns, or leave it.
Stop(j, n) ==
    /\ n \in active[j]
    /\ active' = [active EXCEPT ![j] = @ \ {n}]
    /\ \/ UNCHANGED phase
       \/ /\ phase[j] = "owned"
          /\ j \in Exclusive => n = tries[j]
          /\ \E p \in {"queued", "closed"} : phase' = [phase EXCEPT ![j] = p]
    /\ UNCHANGED tries

\* Every attempt under way is lost.
Halt ==
    /\ active' = [j \in Jobs |-> {}]
    /\ UNCHANGED <<phase, tries>>

Next ==
    \/ \E j \in Jobs : Submit(j) \/ Withdraw(j) \/ Start(j)
    \/ \E j \in Jobs : \E n \in active[j] : Stop(j, n)
    \/ Halt

Spec == Init /\ [][Next]_vars
=============================================================================
