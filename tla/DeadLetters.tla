---------------------------- MODULE DeadLetters ----------------------------
(***************************************************************************)
(* Failed writes of HubQuira and the pass that retries them (dead_letter   *)
(* operations of src/app/db/repo.py, src/app/jobs/reconcile.py, the apply  *)
(* loop of src/app/sync/orchestrator.py, the actions of /ui/deadletters).  *)
(*                                                                         *)
(* Four actors share the dead_letter table: the sync being executed, the   *)
(* reconciliation pass (same process, another thread), the operator (web   *)
(* container) and time.  The pass works on rows it read earlier and each   *)
(* of its two writes is a read and a later commit of the changed columns;  *)
(* the short transactions of the others are one step each.                 *)
(*                                                                         *)
(* A record is one (entity type, identity) and keeps its ids.  Records are *)
(* numbered in the order the pass sorts its groups.  Creates are HubSpot   *)
(* companies an operator approved for creation in Aquira: until such a     *)
(* record is linked it has no Aquira id, nor has a row about it.           *)
(***************************************************************************)
EXTENDS Integers, FiniteSets

CONSTANTS
    Records,      \* what syncs write
    Creates,      \* the records that are Aquira clients to be created
    Cap,          \* ENQUEUE_CAP_PER_PASS
    MaxBudget,    \* bound: dlq_freeze_after
    MaxRows,      \* bound: dead_letter rows
    OperatorMay,  \* what the operator does
    MaxOps,       \* bound: operator actions
    MaxFaults     \* bound: database errors and deaths of the executing process

ASSUME RecordsAssumption == Records \subseteq Nat /\ Creates \subseteq Records
ASSUME BoundsAssumption ==
    /\ Cap \in Nat \ {0}
    /\ MaxBudget \in Nat /\ MaxBudget >= 2
    /\ MaxRows \in Nat
    /\ MaxOps \in Nat
    /\ MaxFaults \in Nat

VARIABLES
    status,     \* dead_letter.status
    record,     \* the record a row is about
    hasAid,     \* rows with an aquira_id
    attempts,
    due,        \* unresolved rows whose next_retry_at is not in the future
    linked,     \* records that have an Aquira id
    budget,     \* dlq_freeze_after, clamped
    queue,      \* targeted retries in the work queue
    syncing,    \* a sync is being executed
    todo,       \* its records still to be applied
    wrote,      \* its reconciled_pairs
    pc,         \* where the pass is
    batch,      \* due rows it has not come to
    charged,    \* rows it queued a retry for
    held,       \* rows it will freeze with a reason
    fresh,      \* open rows it re-read for the write in progress
    updated,    \* rows it charged
    toAlert,    \* rows the escalation will name
    seen,       \* attempts of a row when the pass last read it
    cycles,     \* history: retries queued for a row since it was (re)opened
    alerted,    \* history: frozen rows whose escalation was raised
    ops, faults

rowVars  == <<status, record, hasAid, attempts, due>>
syncVars == <<queue, syncing, todo, wrote>>
passVars == <<pc, batch, charged, held, fresh, updated, toAlert, seen>>
history  == <<cycles, alerted>>
bounds   == <<ops, faults>>
vars == <<rowVars, linked, budget, syncVars, passVars, history, bounds>>

RowId == 1..MaxRows
NoRecord == -1
Pending == {"open", "frozen"}

Rows(x) == {r \in RowId : status[r] \in Pending /\ record[r] = x}
Fault == faults < MaxFaults /\ faults' = faults + 1 /\ UNCHANGED ops

Init ==
    /\ status = [r \in RowId |-> "absent"]
    /\ record = [r \in RowId |-> NoRecord]
    /\ hasAid = {}
    /\ attempts = [r \in RowId |-> 0]
    /\ due = {}
    /\ linked = Records \ Creates
    /\ budget = MaxBudget
    /\ queue = {} /\ syncing = FALSE /\ todo = {} /\ wrote = {}
    /\ pc = "idle"
    /\ batch = {} /\ charged = {} /\ held = {}
    /\ fresh = {} /\ updated = {} /\ toAlert = {}
    /\ seen = [r \in RowId |-> 0]
    /\ cycles = [r \in RowId |-> 0]
    /\ alerted = {}
    /\ ops = 0 /\ faults = 0

-----------------------------------------------------------------------------
(* The sync being executed.                                                *)

\* open_client_create_failures: creates with an unresolved row that never
\* learned an Aquira id.
Blocked == {x \in Creates : \E r \in Rows(x) : r \notin hasAid}

Start(records) ==
    /\ ~syncing
    /\ syncing' = TRUE
    /\ todo' = records
    /\ wrote' = {}
    /\ UNCHANGED <<rowVars, linked, budget, passVars, history, bounds>>

\* A targeted retry applies its record; a full sync any, creates only through
\* the gate.
StartRetry(x) == x \in queue /\ queue' = queue \ {x} /\ Start({x})
StartFull == Start(Records \ (Blocked \ linked)) /\ UNCHANGED queue

\* Creations come last.
NextItem(x) == x \in todo /\ (x \in Creates \ linked => todo \subseteq Creates)

\* The item is written: its pair is kept for the end of the run.
ApplyOk(x) ==
    /\ NextItem(x)
    /\ todo' = todo \ {x}
    /\ wrote' = wrote \cup {x}
    /\ linked' = linked \cup {x}
    /\ UNCHANGED <<rowVars, budget, queue, syncing, passVars, history, bounds>>

\* The item is planned as a skip: nothing is written, nothing resolved.
ApplySkip(x) ==
    /\ NextItem(x)
    /\ todo' = todo \ {x}
    /\ UNCHANGED <<rowVars, linked, budget, queue, syncing, wrote, passVars, history, bounds>>

\* Slip: a repeated failure charges the budget.
FoldCharging(r, aid) ==
    /\ hasAid' = IF aid THEN hasAid \cup {r} ELSE hasAid
    /\ due' = IF status[r] = "open" THEN due \ {r} ELSE due
    /\ attempts' = [attempts EXCEPT ![r] = IF @ < MaxBudget THEN @ + 1 ELSE @]
    /\ UNCHANGED <<status, record, cycles>>

\* Slip: a repeated failure starts the record's history over.
FoldReopening(r, aid) ==
    /\ hasAid' = IF aid THEN hasAid \cup {r} ELSE hasAid
    /\ due' = due \ {r}
    /\ attempts' = [attempts EXCEPT ![r] = 1]
    /\ UNCHANGED <<status, record, cycles>>

\* Slip: a repeated failure past the budget freezes the row on the spot.
FoldFreezing(r, aid) ==
    /\ hasAid' = IF aid THEN hasAid \cup {r} ELSE hasAid
    /\ due' = due \ {r}
    /\ status' = [status EXCEPT ![r] = IF attempts[r] + 1 >= budget THEN "frozen" ELSE @]
    /\ UNCHANGED <<record, attempts, cycles>>

\* add_dead_letter meets a pending row of the record.
Fold(r, aid) ==
    /\ hasAid' = IF aid THEN hasAid \cup {r} ELSE hasAid
    /\ due' = IF status[r] = "open" THEN due \ {r} ELSE due
    /\ UNCHANGED <<status, record, attempts, cycles>>

\* add_dead_letter meets none; the orchestrator passes attempts=1.
Insert(x, r, aid) ==
    /\ status[r] = "absent"
    /\ \A k \in 1..(r - 1) : status[k] # "absent"
    /\ status' = [status EXCEPT ![r] = "open"]
    /\ record' = [record EXCEPT ![r] = x]
    /\ hasAid' = IF aid THEN hasAid \cup {r} ELSE hasAid
    /\ attempts' = [attempts EXCEPT ![r] = 1]
    /\ cycles' = [cycles EXCEPT ![r] = 0]
    /\ UNCHANGED due

\* The rows it may meet: by Aquira id first, then by HubSpot id.
Matching(x, aid) == IF aid /\ Rows(x) \cap hasAid # {} THEN Rows(x) \cap hasAid ELSE Rows(x)

AddDeadLetter(x, aid) ==
    \/ \E r \in Matching(x, aid) : (\A k \in Matching(x, aid) : r <= k) /\ Fold(r, aid)
    \/ Rows(x) = {} /\ \E r \in RowId : Insert(x, r, aid)

\* The item raised.  A create may fail before or after it learned the id of
\* the client it created; every other item knows its Aquira id.
ApplyFails(x) ==
    /\ NextItem(x)
    /\ todo' = todo \ {x}
    /\ \/ /\ \E aid \in BOOLEAN : (x \in linked => aid) /\ AddDeadLetter(x, aid)
          /\ UNCHANGED bounds
       \/ Fault /\ UNCHANGED <<rowVars, cycles>>       \* except: pass
    /\ UNCHANGED <<linked, budget, queue, syncing, wrote, passVars, alerted>>

Resolve(rows) ==
    /\ status' = [r \in RowId |-> IF r \in rows THEN "resolved" ELSE status[r]]
    /\ alerted' = alerted \ rows
    /\ due' = due \ rows

\* The run ends: resolve_dead_letters for what it wrote, or the error of
\* that call is logged and swallowed.
EndSync ==
    /\ syncing
    /\ todo = {}
    /\ syncing' = FALSE
    /\ wrote' = {}
    /\ \/ Resolve(UNION {Rows(x) : x \in wrote}) /\ UNCHANGED bounds
       \/ Fault /\ UNCHANGED <<status, alerted, due>>
    /\ UNCHANGED <<record, hasAid, attempts, linked, budget, queue, todo, passVars, cycles>>

\* An error while an item's outcome is recorded ends the run: what it wrote
\* resolves nothing.
SyncAborts ==
    /\ syncing
    /\ Fault
    /\ syncing' = FALSE /\ todo' = {} /\ wrote' = {}
    /\ UNCHANGED <<rowVars, linked, budget, queue, passVars, history>>

-----------------------------------------------------------------------------
(* run_reconciliation.                                                     *)

\* The worker is not busy; due_dead_letters.  Failed creates have no Aquira id
\* to target: they sort first and are held, whatever the cap.
PassStart ==
    /\ pc = "idle"
    /\ queue = {} /\ ~syncing
    /\ \E r \in due : status[r] = "open"
    /\ batch' = {r \in due \cap hasAid : status[r] = "open"}
    /\ held' = {r \in due \ hasAid : status[r] = "open"}
    /\ seen' = attempts
    /\ pc' = "queue"
    /\ UNCHANGED <<rowVars, linked, budget, syncVars, charged, fresh, updated,
                   toAlert, history, bounds>>

Group(x) == {r \in batch : record[r] = x}
Groups == {record[r] : r \in batch}
NextGroup(x) == x \in Groups /\ \A y \in Groups : x <= y

\* Slip: the cap is reached one retry early.
CappedEarly == Cardinality({record[r] : r \in charged}) + 1 >= Cap

Capped == Cardinality({record[r] : r \in charged}) >= Cap

\* A row past its budget is not worth a sync; clients are held while
\* sync_writeback is off.
PastBudget(x) == \A r \in Group(x) : seen[r] >= budget

\* History: a retry was queued for the rows.
CountCycle(rows) ==
    cycles' = [r \in RowId |-> IF r \in rows THEN cycles[r] + 1 ELSE cycles[r]]

QueueRetry(x) ==
    /\ pc = "queue"
    /\ NextGroup(x) /\ ~Capped /\ ~PastBudget(x)
    /\ queue' = queue \cup {x}
    /\ batch' = batch \ Group(x)
    /\ charged' = charged \cup Group(x)
    /\ CountCycle(Group(x))
    /\ UNCHANGED <<rowVars, linked, budget, syncing, todo, wrote, pc, held, fresh,
                   updated, toAlert, seen, alerted, bounds>>

\* enqueue_sync raised, before or after it committed the job: the rows keep
\* their budget and stay due.
QueueFails(x) ==
    /\ pc = "queue"
    /\ NextGroup(x) /\ ~Capped /\ ~PastBudget(x)
    /\ Fault
    /\ batch' = batch \ Group(x)
    /\ \/ UNCHANGED <<queue, cycles>>
       \/ queue' = queue \cup {x} /\ CountCycle(Group(x))
    /\ UNCHANGED <<rowVars, linked, budget, syncing, todo, wrote, pc, charged, held,
                   fresh, updated, toAlert, seen, alerted>>

HoldGroup(x) ==
    /\ pc = "queue"
    /\ NextGroup(x) /\ ~Capped
    /\ PastBudget(x) \/ x \in Creates
    /\ batch' = batch \ Group(x)
    /\ held' = held \cup Group(x)
    /\ UNCHANGED <<rowVars, linked, budget, syncVars, pc, charged, fresh, updated,
                   toAlert, seen, history, bounds>>

\* Slip: the rows are taken as they were when the pass began.
MarkReadStale ==
    /\ pc = "queue"
    /\ batch = {} \/ Capped
    /\ batch' = {}
    /\ fresh' = charged
    /\ pc' = "mark"
    /\ UNCHANGED <<rowVars, linked, budget, syncVars, charged, held, updated,
                   toAlert, seen, history, bounds>>

\* mark_reconciled re-reads the rows it is given and keeps the open ones.
MarkRead ==
    /\ pc = "queue"
    /\ batch = {} \/ Capped
    /\ batch' = {}
    /\ fresh' = {r \in charged : status[r] = "open"}
    /\ seen' = attempts
    /\ pc' = "mark"
    /\ UNCHANGED <<rowVars, linked, budget, syncVars, charged, held, updated,
                   toAlert, history, bounds>>

Spent(r) == seen[r] + 1 >= budget

\* What the pass noted is dropped as soon as nothing reads it any more.
Forget == charged' = {} /\ seen' = [r \in RowId |-> 0]

\* Its commit writes the columns it changed, whatever the rows are by now.
MarkCommit ==
    /\ pc = "mark"
    /\ \A r \in fresh : status[r] # "deleted"
    /\ attempts' = [r \in RowId |-> IF r \in fresh THEN seen[r] + 1 ELSE attempts[r]]
    /\ status' = [r \in RowId |-> IF r \in fresh /\ Spent(r) THEN "frozen" ELSE status[r]]
    /\ due' = due \ fresh
    /\ updated' = fresh
    /\ fresh' = {}
    /\ pc' = "hold"
    /\ Forget
    /\ UNCHANGED <<record, hasAid, linked, budget, syncVars, batch, held, toAlert,
                   history, bounds>>

\* The escalation will name the charged rows that read frozen now;
\* freeze_dead_letters re-reads the rows it is given.
HoldRead ==
    /\ pc = "hold"
    /\ \A r \in updated : status[r] # "deleted"
    /\ toAlert' = {r \in updated : status[r] = "frozen"}
    /\ fresh' = {r \in held : status[r] = "open"}
    /\ updated' = {} /\ held' = {}
    /\ pc' = "freeze"
    /\ UNCHANGED <<rowVars, linked, budget, syncVars, batch, charged, seen,
                   history, bounds>>

HoldCommit ==
    /\ pc = "freeze"
    /\ \A r \in fresh : status[r] # "deleted"
    /\ status' = [r \in RowId |-> IF r \in fresh THEN "frozen" ELSE status[r]]
    /\ due' = due \ fresh
    /\ toAlert' = toAlert \cup fresh
    /\ fresh' = {}
    /\ pc' = "alert"
    /\ UNCHANGED <<record, hasAid, attempts, linked, budget, syncVars, batch, charged,
                   held, updated, seen, history, bounds>>

EndPass ==
    /\ pc' = "idle"
    /\ batch' = {} /\ charged' = {} /\ held' = {}
    /\ fresh' = {} /\ updated' = {} /\ toAlert' = {}
    /\ seen' = [r \in RowId |-> 0]

\* notify_teams, unless naming a row that is gone raises.
Alert ==
    /\ pc = "alert"
    /\ alerted' = IF \E r \in toAlert : status[r] = "deleted"
                  THEN alerted
                  ELSE alerted \cup {r \in toAlert : status[r] = "frozen"}
    /\ EndPass
    /\ UNCHANGED <<rowVars, linked, budget, syncVars, cycles, bounds>>

\* A write that meets a deleted row, or a database error, ends the pass.
PassFails ==
    /\ \/ /\ pc \in {"mark", "freeze"}
          /\ (\E r \in fresh : status[r] = "deleted") /\ UNCHANGED bounds
       \/ /\ pc = "hold"
          /\ (\E r \in updated : status[r] = "deleted") /\ UNCHANGED bounds
       \/ pc \in {"mark", "freeze"} /\ Fault
    /\ EndPass
    /\ UNCHANGED <<rowVars, linked, budget, syncVars, history>>

-----------------------------------------------------------------------------
(* Time, the operator and the process.                                     *)

ComesDue(r) ==
    /\ status[r] = "open"
    /\ r \notin due
    /\ due' = due \cup {r}
    /\ UNCHANGED <<status, record, hasAid, attempts, linked, budget, syncVars,
                   passVars, history, bounds>>

Operate(action) ==
    /\ action \in OperatorMay
    /\ ops < MaxOps
    /\ ops' = ops + 1
    /\ UNCHANGED <<syncVars, passVars, faults>>

\* Opening a frozen row again starts its budget over.
Reopen(rows) ==
    /\ status' = [r \in RowId |-> IF r \in rows THEN "open" ELSE status[r]]
    /\ attempts' = [r \in RowId |-> IF r \in rows THEN 0 ELSE attempts[r]]
    /\ cycles' = [r \in RowId |-> IF r \in rows THEN 0 ELSE cycles[r]]
    /\ alerted' = alerted \ rows
    /\ UNCHANGED <<record, hasAid, linked, budget>>

RetryNow(r) ==
    /\ Operate("retry")
    /\ status[r] \in Pending
    /\ Reopen({r} \ {k \in RowId : status[k] = "open"})
    /\ due' = due \cup {r}

UnfreezeAll ==
    /\ Operate("unfreeze")
    /\ LET frozen == {r \in RowId : status[r] = "frozen"} IN
        /\ frozen # {}
        /\ Reopen(frozen)
        /\ due' = due \cup frozen

MarkResolved(r) ==
    /\ Operate("resolve")
    /\ status[r] \in Pending
    /\ Resolve({r})
    /\ UNCHANGED <<record, hasAid, attempts, linked, budget, cycles>>

DeleteRow(r) ==
    /\ Operate("delete")
    /\ status[r] \in Pending \cup {"resolved"}
    /\ status' = [status EXCEPT ![r] = "deleted"]
    /\ alerted' = alerted \ {r}
    /\ due' = due \ {r}
    /\ UNCHANGED <<record, hasAid, attempts, linked, budget, cycles>>

\* Slip: the setting is taken as it was typed.
SetBudgetUnclamped(b) ==
    /\ Operate("budget")
    /\ budget' = b - 2
    /\ UNCHANGED <<rowVars, linked, history>>

\* dlq_budgets clamps what the operator typed.
SetBudget(b) ==
    /\ Operate("budget")
    /\ b # budget
    /\ budget' = b
    /\ UNCHANGED <<rowVars, linked, history>>

\* A human gives the HubSpot company its Aquira id.
Link(x) ==
    /\ Operate("link")
    /\ x \in Creates \ linked
    /\ linked' = linked \cup {x}
    /\ UNCHANGED <<rowVars, budget, history>>

Crash ==
    /\ Fault
    /\ syncing' = FALSE /\ todo' = {} /\ wrote' = {}
    /\ EndPass
    /\ UNCHANGED <<rowVars, linked, budget, queue, history>>

-----------------------------------------------------------------------------
SyncStep ==
    \/ StartFull \/ EndSync \/ SyncAborts
    \/ \E x \in Records : StartRetry(x) \/ ApplyOk(x) \/ ApplySkip(x) \/ ApplyFails(x)

PassWork ==
    \/ \E x \in Records : QueueRetry(x) \/ QueueFails(x) \/ HoldGroup(x)
    \/ MarkRead \/ MarkCommit \/ HoldRead \/ HoldCommit \/ Alert \/ PassFails

OperatorStep ==
    \/ \E r \in RowId : RetryNow(r) \/ MarkResolved(r) \/ DeleteRow(r)
    \/ UnfreezeAll
    \/ \E b \in 2..MaxBudget : SetBudget(b)
    \/ \E x \in Records : Link(x)

Next ==
    \/ SyncStep \/ PassStart \/ PassWork \/ OperatorStep
    \/ \E r \in RowId : ComesDue(r)
    \/ Crash

Spec == Init /\ [][Next]_vars

-----------------------------------------------------------------------------
(* Fairness: a sync and a pass finish, time passes, queued retries come    *)
(* first in, first out, and the scheduler starts a pass if it is free to   *)
(* again and again.                                                        *)
Fairness ==
    /\ WF_vars(EndSync \/ \E x \in Records : ApplyOk(x) \/ ApplySkip(x) \/ ApplyFails(x))
    /\ \A x \in Records : SF_vars(StartRetry(x))
    /\ WF_vars(PassWork)
    /\ SF_vars(PassStart)
    /\ \A r \in RowId : WF_vars(ComesDue(r))

FairSpec == Spec /\ Fairness

-----------------------------------------------------------------------------
(* Properties.                                                             *)

\* Every variable has its type.
TypeOK ==
    /\ status \in [RowId -> {"absent", "open", "frozen", "resolved", "deleted"}]
    /\ record \in [RowId -> Records \cup {NoRecord}]
    /\ hasAid \subseteq RowId
    /\ attempts \in [RowId -> Nat]
    /\ due \subseteq RowId
    /\ linked \subseteq Records
    /\ budget \in 2..MaxBudget
    /\ queue \subseteq Records
    /\ syncing \in BOOLEAN
    /\ todo \subseteq Records
    /\ wrote \subseteq Records
    /\ pc \in {"idle", "queue", "mark", "hold", "freeze", "alert"}
    /\ batch \subseteq RowId
    /\ charged \subseteq RowId
    /\ held \subseteq RowId
    /\ fresh \subseteq RowId
    /\ updated \subseteq RowId
    /\ toAlert \subseteq RowId
    /\ seen \in [RowId -> Nat]
    /\ cycles \in [RowId -> Nat]
    /\ alerted \subseteq RowId
    /\ ops \in Nat /\ faults \in Nat

\* A cycle is billed once: however often a record fails while its retry is
\* under way, its attempts stay within one of the retries queued for it.
NeverBilledTwice == \A r \in RowId : attempts[r] <= cycles[r] + 1

\* What can end a pass early or undo a charge: faults and rows deleted under it.
CutShort == faults + Cardinality({r \in RowId : status[r] = "deleted"})

\* A queued retry goes unbilled only if something cut its pass short: no
\* failure, skip or operator action gives a pending row free retries.
CyclesAreBilled ==
    \A r \in RowId : status[r] \in Pending /\ r \notin charged
                        => cycles[r] <= attempts[r] + CutShort

\* A resolved row stays resolved, unless the resolution fell between the
\* re-read and the commit of the pass.
ResolvedStays ==
    [][\A r \in RowId :
            /\ status[r] = "resolved" /\ r \notin fresh
                    => status'[r] \in {"resolved", "deleted"}
            /\ r \in fresh' \ fresh => status[r] = "open"]_vars

\* A frozen row has had its Teams escalation, or the pass that froze it is
\* about to raise it.
EveryFreezeAlerted ==
    \A r \in RowId : status[r] = "frozen" => r \in alerted \/ r \in updated \cup toAlert

\* Unless a pass was cut short, every freeze is escalated: only passes freeze,
\* and whatever the operator thaws or resolves meanwhile no row is forgotten.
FreezesEscalated == CutShort > 0 \/ EveryFreezeAlerted

\* One pending row per record.
OneOpenRow == \A x \in Records : Cardinality(Rows(x)) <= 1

\* attempts counts the reconciliation cycles started for the record.
AttemptsAreCycles == \A r \in RowId : attempts[r] <= cycles[r]

\* A pass takes every open row up: queues its retry or holds it, unless the
\* row is closed first.
EveryOpenRowRetried ==
    \A r \in RowId : status[r] = "open" ~> status[r] # "open" \/ r \in charged \cup held

\* The pass under way has used its cap up on other records.
LeftBehind(r) == r \in batch /\ Cardinality({record[k] : k \in charged}) >= Cap

\* A failing sync moves the retry of a due row ahead.
Postponed(r) == r \in due \ due' /\ \E x \in Records : ApplyFails(x)

\* A row stays open for ever in two ways only: failing syncs that meet it due
\* postpone it again and again, or passes leave it behind the cap again and
\* again.  No order of groups, skip, failure of a retry or operator does it.
EveryRowRests ==
    \A r \in RowId :
        \/ []<>(status[r] # "open" \/ LeftBehind(r))
        \/ []<><<Postponed(r)>>_vars

=============================================================================
