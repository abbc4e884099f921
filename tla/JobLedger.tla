------------------------------ MODULE JobLedger ------------------------------
(***************************************************************************)
(* What the work queue promises, whoever serves it: a row is inserted,     *)
(* claimed and settled once, in that order, and it is settled either by    *)
(* the executor that holds it or, when that executor is gone, by a release *)
(* (docstrings of claim_job's callers and of release_orphaned_jobs,        *)
(* src/app/db/repo.py and src/app/sync/worker.py).                         *)
(***************************************************************************)
EXTENDS Integers

CONSTANT JobId

VARIABLES
    row,   \* status of every row
    held   \* rows a live executor is working on

ledgerVars == <<row, held>>

Init ==
    /\ row = [j \in JobId |-> "absent"]
    /\ held = {}

Insert(j) ==
    /\ row[j] = "absent"
    /\ row' = [row EXCEPT ![j] = "queued"]
    /\ UNCHANGED held

\* The claimer may die with the claim, and take other executors with it.
Claim(j) ==
    /\ row[j] = "queued"
    /\ row' = [row EXCEPT ![j] = "running"]
    /\ held' \subseteq held \cup {j}

Settle(j) ==
    /\ j \in held
    /\ \E status \in {"done", "error"} : row' = [row EXCEPT ![j] = status]
    /\ held' = held \ {j}

\* Executors die; the rows stay as they are.
Abandon ==
    /\ held' \subseteq held
    /\ UNCHANGED row

Release(orphans) ==
    /\ orphans \cap held = {}
    /\ \A j \in orphans : row[j] = "running"
    /\ row' = [j \in JobId |-> IF j \in orphans THEN "error" ELSE row[j]]
    /\ UNCHANGED held

Next ==
    \/ \E j \in JobId : Insert(j) \/ Claim(j) \/ Settle(j)
    \/ Abandon
    \/ \E orphans \in SUBSET JobId : Release(orphans)

Spec == Init /\ [][Next]_ledgerVars

=============================================================================
