------------------------------ MODULE PlanOnly ------------------------------
(***************************************************************************)
(* The plan-only switch (settings.whatif): each process keeps its own copy *)
(* in the Settings singleton, the settings table keeps the shared one      *)
(* (src/app/runtime.py), and whoever queues a sync decides with the copy   *)
(* it has whether that sync writes.                                        *)
(*                                                                         *)
(* The web process writes the table and never reads it again after its     *)
(* boot; the worker reads it at its boot, when a sync starts, and in the   *)
(* reconciliation after that has decided.  A queued sync keeps the         *)
(* decision it was queued with, an identity job decides when it runs.      *)
(***************************************************************************)
EXTENDS Integers, Sequences

CONSTANTS
    EnvFlag,       \* WHATIF of the environment
    MaxToggles,    \* bound: changes of the switch
    MaxRequests,   \* bound: jobs queued by people and webhooks
    MaxPlanFaults  \* bound: database errors and restarts

Processes == {"web", "worker"}
Modes == {"plan", "live"}

ASSUME PlanAssumption ==
    /\ EnvFlag \in Modes
    /\ MaxToggles \in Nat /\ MaxRequests \in Nat /\ MaxPlanFaults \in Nat

VARIABLES
    stored,      \* settings row; "absent" before the first save
    flag,        \* settings.whatif of each process
    saving,      \* the value the web process has yet to store
    waiting,     \* queued syncs
    running,     \* the sync in work
    reconciling, \* what run_reconciliation does next
    toggles, requests, planFaults

planVars == <<stored, flag, saving, waiting, running, reconciling, toggles, requests, planFaults>>

\* decidedBy: whose copy of the switch set its mode; an identity job
\* writes back records one by one.
Sync == [decidedBy : {"web", "worker", "person", "nobody"}, mode : Modes, records : 0 .. 2]
Nobody == [decidedBy |-> "nobody", mode |-> "plan", records |-> 0]
Queued(who, mode) == [decidedBy |-> who, mode |-> mode, records |-> 0]

\* Slip: a missing row is a value.
OverlaidBare(p) == stored

\* apply_db_overlay: a missing row changes nothing.
Overlaid(p) == IF stored = "absent" THEN flag[p] ELSE stored
Switch == IF stored = "absent" THEN EnvFlag ELSE stored

PlanInit ==
    /\ stored = "absent" /\ flag = [p \in Processes |-> EnvFlag]
    /\ saving = "nothing" /\ waiting = <<>> /\ running = Nobody /\ reconciling = "no"
    /\ toggles = 0 /\ requests = 0 /\ planFaults = 0

PlanFault == planFaults < MaxPlanFaults /\ planFaults' = planFaults + 1

-----------------------------------------------------------------------------
(* The web process.                                                        *)

\* persist_settings sets its own copy first ...
Toggle(v) ==
    /\ toggles < MaxToggles /\ saving = "nothing"
    /\ flag' = [flag EXCEPT !["web"] = v]
    /\ saving' = v
    /\ toggles' = toggles + 1
    /\ UNCHANGED <<stored, waiting, running, reconciling, requests, planFaults>>

\* ... and stores it next, or fails and keeps its copy.
Store ==
    /\ saving # "nothing" /\ saving' = "nothing"
    /\ \/ stored' = saving /\ UNCHANGED planFaults
       \/ PlanFault /\ UNCHANGED stored
    /\ UNCHANGED <<flag, waiting, running, reconciling, toggles, requests>>

Request(job) ==
    /\ requests < MaxRequests /\ requests' = requests + 1
    /\ waiting' = Append(waiting, job)
    /\ UNCHANGED <<stored, flag, saving, running, reconciling, toggles, planFaults>>

\* A person asks for a plan or, past a confirmation, for writes.
AskSync(mode) == Request(Queued("person", mode))

\* Without such a wish, and for Aquira's notifications, the web's copy counts.
QueueFromWeb == Request(Queued("web", flag["web"]))

\* A HubSpot webhook queues events, without a decision.
QueueIdentity(n) == Request([Nobody EXCEPT !.records = n])

\* A failed read at boot leaves the environment's value.
Boot(p) ==
    /\ flag' = [flag EXCEPT ![p] = IF stored = "absent" THEN EnvFlag ELSE stored]
    /\ PlanFault

BootBlind(p) ==
    /\ flag' = [flag EXCEPT ![p] = EnvFlag]
    /\ PlanFault

RestartWeb ==
    /\ Boot("web") \/ BootBlind("web")
    /\ saving' = "nothing"
    /\ UNCHANGED <<stored, waiting, running, reconciling, toggles, requests>>

-----------------------------------------------------------------------------
(* The worker process.                                                     *)

RestartWorker ==
    /\ Boot("worker") \/ BootBlind("worker")
    /\ running' = Nobody /\ reconciling' = "no"
    /\ UNCHANGED <<stored, saving, waiting, toggles, requests>>

Busy == waiting # <<>> \/ running # Nobody

\* PollJob: the worker's copy, as old as its last sync.
QueuePoll ==
    /\ ~Busy
    /\ waiting' = Append(waiting, Queued("worker", flag["worker"]))
    /\ UNCHANGED <<stored, flag, saving, running, reconciling, toggles, requests, planFaults>>

\* Slip: a long-running worker keeps what it booted with.
RefreshNever == UNCHANGED <<flag, planFaults>>

\* The overlay; a failed read keeps the copy.
Refresh ==
    \/ flag' = [flag EXCEPT !["worker"] = Overlaid("worker")] /\ UNCHANGED planFaults
    \/ PlanFault /\ UNCHANGED flag

\* An identity job decides for its first record, then the sync refreshes.
StartSync ==
    /\ waiting # <<>> /\ running = Nobody
    /\ running' = IF Head(waiting).records = 0 THEN Head(waiting)
                  ELSE [decidedBy |-> "worker", mode |-> flag["worker"],
                        records |-> Head(waiting).records - 1]
    /\ waiting' = Tail(waiting)
    /\ Refresh
    /\ UNCHANGED <<stored, saving, reconciling, toggles, requests>>

NextRecord ==
    /\ running.records > 0
    /\ running' = [decidedBy |-> "worker", mode |-> flag["worker"], records |-> running.records - 1]
    /\ Refresh
    /\ UNCHANGED <<stored, saving, waiting, reconciling, toggles, requests>>

FinishSync ==
    /\ running # Nobody /\ running.records = 0
    /\ running' = Nobody
    /\ UNCHANGED <<stored, flag, saving, waiting, reconciling, toggles, requests, planFaults>>

\* run_reconciliation, on the scheduler's thread: it asks first ...
AskReconcile ==
    /\ reconciling = "no" /\ flag["worker"] = "live"
    /\ reconciling' = "overlay"
    /\ UNCHANGED <<stored, flag, saving, waiting, running, toggles, requests, planFaults>>

\* ... refreshes next ...
OverlayReconcile ==
    /\ reconciling = "overlay" /\ reconciling' = "queue"
    /\ Refresh
    /\ UNCHANGED <<stored, saving, waiting, running, toggles, requests>>

\* ... and queues with the first answer, unless the worker is busy.
QueueReconcile ==
    /\ reconciling = "queue" /\ reconciling' = "no"
    /\ waiting' = IF Busy THEN waiting ELSE Append(waiting, Queued("worker", "live"))
    /\ UNCHANGED <<stored, flag, saving, running, toggles, requests, planFaults>>

GoOn == StartSync \/ NextRecord \/ FinishSync

PlanNext ==
    \/ \E v \in Modes : Toggle(v) \/ AskSync(v)
    \/ Store \/ QueueFromWeb \/ RestartWeb
    \/ \E n \in 1 .. 2 : QueueIdentity(n)
    \/ RestartWorker \/ QueuePoll \/ GoOn
    \/ AskReconcile \/ OverlayReconcile \/ QueueReconcile

PlanSpec == PlanInit /\ [][PlanNext]_planVars

\* The worker and its scheduler's threads go on, and a request ends.
PlanFairness ==
    /\ WF_planVars(GoOn) /\ WF_planVars(QueuePoll) /\ WF_planVars(Store)
    /\ WF_planVars(OverlayReconcile) /\ WF_planVars(QueueReconcile)

-----------------------------------------------------------------------------

PlanTypeOK ==
    /\ stored \in Modes \cup {"absent"}
    /\ flag \in [Processes -> Modes]
    /\ saving \in Modes \cup {"nothing"}
    /\ waiting \in Seq(Sync) /\ running \in Sync
    /\ reconciling \in {"no", "overlay", "queue"}
    /\ toggles \in 0 .. MaxToggles /\ requests \in 0 .. MaxRequests
    /\ planFaults \in 0 .. MaxPlanFaults

\* Turned on and stored, the switch ends what the worker writes of its own
\* accord, polls, retries and write-backs, though nobody tells the worker and
\* a reconciliation decides with an old copy.
SwitchArrives ==
    <>[](Switch = "plan" =>
            \A job \in {waiting[i] : i \in DOMAIN waiting} \cup {running} :
                job.decidedBy = "worker" => job.mode = "plan")

\* What the head comment of reconcile.py promises, and the order of its steps
\* does not give: a pass queues no write when its process knows of plan-only.
ReconcileObeys ==
    [][reconciling = "queue" /\ waiting' = Append(waiting, Queued("worker", "live")) =>
        flag["worker"] = "live"]_planVars
=============================================================================
