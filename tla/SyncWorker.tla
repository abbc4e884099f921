----------------------------- MODULE SyncWorker -----------------------------
(***************************************************************************)
(* The work queue of HubQuira and the processes around it                  *)
(* (src/app/sync/worker.py, the queue part of src/app/db/repo.py, the lock *)
(* and the run record of src/app/sync/orchestrator.py, src/app/jobs).      *)
(*                                                                         *)
(* Tables shared through Postgres: work_queue (jobStatus, jobRun) and      *)
(* sync_run (runStatus).  Memory of the executing process: the class-wide  *)
(* lock SyncOrchestrator._active, the loops running run_forever, the       *)
(* scheduler's jobs.  One action is one commit, or one read that a later   *)
(* commit relies on, so that threads and containers interleave where the   *)
(* code lets them.                                                         *)
(*                                                                         *)
(* Role "worker" is the deployed layout: the handlers live in the web      *)
(* container, the worker's MAIN thread is in run_forever, and start_worker *)
(* may add a second loop.  Role "all" is the one-process layout: the loop  *)
(* started by start_worker is the only one.                                *)
(***************************************************************************)
EXTENDS Integers, FiniteSets

CONSTANTS
    Role,         \* HUBQUIRA_ROLE of the executing process
    Handlers,     \* request threads of the web application
    MaxJobs,      \* bound: rows of work_queue
    MaxRuns,      \* bound: sync_run rows written by enqueue_sync
    FaultPoints,  \* where a database call may raise
    MaxFaults,    \* bound: database errors
    MaxCrashes,   \* bound: process deaths, either container
    SlowRuns      \* may a live run outlast RUN_STALE_AFTER_MINUTES?

AllFaultPoints == {"release", "count", "enqueue", "claim", "claimed",
                   "identity", "enter", "close", "report", "finish", "fail"}

ASSUME RoleAssumption == Role \in {"worker", "all"}
ASSUME HandlersAssumption == Handlers \cap {"poll", "reconcile"} = {}
ASSUME BoundsAssumption ==
    /\ MaxJobs \in Nat
    /\ MaxRuns \in Nat
    /\ MaxFaults \in Nat
    /\ MaxCrashes \in Nat
    /\ FaultPoints \subseteq AllFaultPoints
    /\ SlowRuns \in BOOLEAN

VARIABLES
    jobStatus,  \* work_queue.status by id, "absent" for an id not yet used
    jobRun,     \* work_queue.run_id, NoRun for a hubspot-identity row
    stale,      \* running rows whose started_at is past the 90-minute cutoff
    runStatus,  \* sync_run.status
    scheduled,  \* the runs with trigger "schedule"
    active,     \* SyncOrchestrator._active
    loopPc,     \* where each run_forever loop is
    loopJob,    \* the row it claimed
    outcome,    \* the status it will write with finish_job
    victims,    \* rows read by a release_orphaned_jobs call in progress
    callerPc,   \* where each enqueuing thread is
    callerRun,  \* the run it created with add_run
    faults,
    crashes

tableVars  == <<jobStatus, jobRun, stale>>
runVars    == <<runStatus, scheduled>>
loopVars   == <<loopPc, loopJob, outcome>>
callerVars == <<callerPc, callerRun>>
boundVars  == <<faults, crashes>>
vars == <<tableVars, runVars, active, loopVars, victims, callerVars, boundVars>>

JobId == 1..MaxJobs
RunId == 1..(MaxRuns + MaxJobs)
NoJob == 0
NoRun == 0

Loops   == {"main", "thread"}
Jobs    == {"poll", "reconcile"}      \* the scheduler's enqueuing jobs
Callers == Handlers \cup Jobs
Releasers == Loops \cup {"poll"}

Settled == {"done", "error"}
Closed  == {"success", "partial", "error"}
Open    == {"queued", "running"}

\* The sync_run row a job's orchestrator run writes: the one enqueue_sync
\* created, or the one run() adds itself for a hubspot-identity job.
RunOf(j) == IF jobRun[j] # NoRun THEN jobRun[j] ELSE MaxRuns + j

\* The loop has claimed a row it has not yet settled.
Working(l) == loopPc[l] \in {"execute", "enter", "sync", "report", "leave", "finish"}
Live(j) == \E l \in Loops : Working(l) /\ loopJob[l] = j
\* Between acquire_lock and release_lock.
InSync(l) == loopPc[l] \in {"enter", "sync", "report", "leave"}

Running == {j \in JobId : jobStatus[j] = "running"}
ActiveJobs == {j \in JobId : jobStatus[j] \in {"queued", "running"}}

\* Both tables hand out ids in insertion order.
NextId(status, i) ==
    /\ status[i] = "absent"
    /\ \A k \in 1..(i - 1) : status[k] # "absent"

\* Bound: a call is begun only if rows are left for it and for every call in
\* flight.
InFlight(pcs) == Cardinality({c \in Callers : callerPc[c] \in pcs})
RowsLeft ==
    /\ Cardinality({j \in JobId : jobStatus[j] = "absent"})
           > InFlight({"start", "run", "job", "identity"})
    /\ Cardinality({r \in 1..MaxRuns : runStatus[r] = "absent"})
           > InFlight({"start", "run"})

Fault(point) ==
    /\ point \in FaultPoints
    /\ faults < MaxFaults
    /\ faults' = faults + 1
    /\ UNCHANGED crashes

-----------------------------------------------------------------------------
(* The executing process: boot, death, and start_worker.                   *)

BootLoop == IF Role = "all" THEN "thread" ELSE "main"
BootPc == [l \in Loops |-> IF l = BootLoop THEN "select" ELSE "dead"]
InWorker(c) == Role = "all" \/ c \in Jobs

Init ==
    /\ jobStatus = [j \in JobId |-> "absent"]
    /\ jobRun = [j \in JobId |-> NoRun]
    /\ stale = {}
    /\ runStatus = [r \in RunId |-> "absent"]
    /\ scheduled = {}
    /\ active = FALSE
    /\ loopPc = BootPc
    /\ loopJob = [l \in Loops |-> NoJob]
    /\ outcome = [l \in Loops |-> "done"]
    /\ victims = [x \in Releasers |-> {}]
    /\ callerPc = [c \in Callers |-> "idle"]
    /\ callerRun = [c \in Callers |-> NoRun]
    /\ faults = 0
    /\ crashes = 0

\* The process dies and the container restarts it: memory is gone, the
\* tables keep what was committed.
Reboot ==
    /\ loopPc' = BootPc
    /\ loopJob' = [l \in Loops |-> NoJob]
    /\ outcome' = [l \in Loops |-> "done"]
    /\ active' = FALSE
    /\ victims' = [x \in Releasers |-> {}]
    /\ callerPc' = [c \in Callers |-> IF InWorker(c) THEN "idle" ELSE callerPc[c]]
    /\ callerRun' = [c \in Callers |-> IF InWorker(c) THEN NoRun ELSE callerRun[c]]

\* An exception leaves run_forever: the main thread takes the process with
\* it, a thread dies alone.
LoopDies(l) ==
    \/ l = "main" /\ Reboot
    \/ /\ l # "main"
       /\ loopPc' = [loopPc EXCEPT ![l] = "dead"]
       /\ loopJob' = [loopJob EXCEPT ![l] = NoJob]
       /\ outcome' = [outcome EXCEPT ![l] = "done"]
       /\ UNCHANGED <<active, victims, callerVars>>

\* start_worker: a no-op outside an executing process or while the thread
\* it started is alive.  The loop of the main thread does not count.
StartWorker(c) ==
    IF InWorker(c) /\ loopPc["thread"] = "dead"
    THEN loopPc' = [loopPc EXCEPT !["thread"] = "select"]
    ELSE UNCHANGED loopPc

WorkerCrash ==
    /\ crashes < MaxCrashes
    /\ crashes' = crashes + 1
    /\ Reboot
    /\ UNCHANGED <<tableVars, runVars, faults>>

WebCrash ==
    /\ Role = "worker"
    /\ crashes < MaxCrashes
    /\ crashes' = crashes + 1
    /\ callerPc' = [c \in Callers |-> IF InWorker(c) THEN callerPc[c] ELSE "idle"]
    /\ callerRun' = [c \in Callers |-> IF InWorker(c) THEN callerRun[c] ELSE NoRun]
    /\ UNCHANGED <<tableVars, runVars, active, loopVars, victims, faults>>

-----------------------------------------------------------------------------
(* enqueue_sync and enqueue_hubspot_identity.                              *)

Begin(c, next) ==
    /\ callerPc[c] = IF c \in Handlers THEN "idle" ELSE "start"
    /\ RowsLeft \/ c \in Jobs
    /\ StartWorker(c)
    /\ callerPc' = [callerPc EXCEPT ![c] = next]
    /\ UNCHANGED <<tableVars, runVars, active, loopJob, outcome, victims,
                   callerRun, boundVars>>

BeginSync(c) == Begin(c, "run")
BeginIdentity(c) == c \in Handlers /\ Begin(c, "identity")

AddRun(c) ==
    /\ callerPc[c] = "run"
    /\ \E r \in 1..MaxRuns :
        /\ NextId(runStatus, r)
        /\ runStatus' = [runStatus EXCEPT ![r] = "queued"]
        /\ callerRun' = [callerRun EXCEPT ![c] = r]
        /\ scheduled' = IF c = "poll" THEN scheduled \cup {r} ELSE scheduled
    /\ callerPc' = [callerPc EXCEPT ![c] = "job"]
    /\ UNCHANGED <<tableVars, active, loopVars, victims, boundVars>>

\* A reconciliation pass goes on to its next record, or ends.
AfterJob(c, pc) ==
    \/ pc = "idle"
    \/ pc = "start" /\ c = "reconcile" /\ RowsLeft

AddJob(c) ==
    /\ callerPc[c] \in {"job", "identity"}
    /\ \E j \in JobId, pc \in {"idle", "start"} :
        /\ NextId(jobStatus, j)
        /\ AfterJob(c, pc)
        /\ jobStatus' = [jobStatus EXCEPT ![j] = "queued"]
        /\ jobRun' = [jobRun EXCEPT ![j] = callerRun[c]]
        /\ callerPc' = [callerPc EXCEPT ![c] = pc]
    /\ callerRun' = [callerRun EXCEPT ![c] = NoRun]
    /\ UNCHANGED <<stale, runVars, active, loopVars, victims, boundVars>>

\* A database error in either commit ends the call; what was committed stays.
EnqueueFails(c) ==
    /\ callerPc[c] \in {"run", "job", "identity"}
    /\ Fault("enqueue")
    /\ \E pc \in {"idle", "start"} :
        /\ AfterJob(c, pc)
        /\ callerPc' = [callerPc EXCEPT ![c] = pc]
    /\ callerRun' = [callerRun EXCEPT ![c] = NoRun]
    /\ UNCHANGED <<tableVars, runVars, active, loopVars, victims>>

-----------------------------------------------------------------------------
(* The scheduler's jobs: PollJob.run and the enqueuing part of             *)
(* run_reconciliation.  APScheduler never runs one job twice at a time.    *)

CallerStep(c, from, to) ==
    /\ callerPc[c] = from
    /\ callerPc' = [callerPc EXCEPT ![c] = to]
    /\ UNCHANGED <<tableVars, runVars, active, loopVars, callerRun>>

\* Slip: the poll releases like a starting loop, without the cutoff.
PollSelectAnyAge ==
    /\ CallerStep("poll", "idle", "release")
    /\ victims' = [victims EXCEPT !["poll"] = Running]
    /\ UNCHANGED boundVars

\* Slip: the poll trusts that a live process needs no release.
PollSelectNothing ==
    /\ CallerStep("poll", "idle", "release")
    /\ UNCHANGED <<victims, boundVars>>

\* release_orphaned_jobs(stale_only=True): the rows it will release.
PollSelect ==
    /\ CallerStep("poll", "idle", "release")
    /\ victims' = [victims EXCEPT !["poll"] = Running \cap stale]
    /\ UNCHANGED boundVars

\* Slip: only pending rows count as work.
QueueLooksEmptyPending ==
    \/ (\A j \in JobId : jobStatus[j] # "queued") /\ UNCHANGED boundVars
    \/ Fault("count")

\* queue_size = 0: the queue is empty, or the count raised and the exception
\* was turned into 0.
QueueLooksEmpty ==
    \/ ActiveJobs = {} /\ UNCHANGED boundVars
    \/ Fault("count")

PollGoesOn ==
    /\ QueueLooksEmpty
    /\ RowsLeft
    /\ CallerStep("poll", "count", "start")
    /\ UNCHANGED victims

PollSkips ==
    /\ ActiveJobs # {} \/ ~RowsLeft
    /\ CallerStep("poll", "count", "idle")
    /\ UNCHANGED <<victims, boundVars>>

ReconcileGoesOn ==
    /\ QueueLooksEmpty
    /\ RowsLeft
    /\ CallerStep("reconcile", "idle", "start")
    /\ UNCHANGED victims

\* Time passes: a running row gets older than RUN_STALE_AFTER_MINUTES.
GoStale(j) ==
    /\ jobStatus[j] = "running"
    /\ j \notin stale
    /\ SlowRuns \/ ~Live(j)
    /\ stale' = stale \cup {j}
    /\ UNCHANGED <<jobStatus, jobRun, runVars, active, loopVars, victims,
                   callerVars, boundVars>>

-----------------------------------------------------------------------------
(* release_orphaned_jobs.                                                  *)

\* Slip: an orphan is retried instead of failed.
ReleaseRowsRequeued(x) ==
    /\ jobStatus' = [j \in JobId |-> IF j \in victims[x] THEN "queued" ELSE jobStatus[j]]
    /\ victims' = [victims EXCEPT ![x] = {}]
    /\ UNCHANGED <<jobRun, stale, runVars>>

\* Slip: the runs of the rows fail whatever they read.
ReleaseRowsAnyRun(x) ==
    /\ jobStatus' = [j \in JobId |-> IF j \in victims[x] THEN "error" ELSE jobStatus[j]]
    /\ runStatus' = [r \in RunId |->
            IF \E j \in victims[x] : jobRun[j] = r THEN "error" ELSE runStatus[r]]
    /\ victims' = [victims EXCEPT ![x] = {}]
    /\ UNCHANGED <<jobRun, stale, scheduled>>

\* Repo.release_orphaned_jobs: the rows read earlier become "error" whatever
\* they are by now, their runs only if still open.
ReleaseRows(x) ==
    /\ jobStatus' = [j \in JobId |-> IF j \in victims[x] THEN "error" ELSE jobStatus[j]]
    /\ runStatus' = [r \in RunId |->
            IF runStatus[r] \in Open /\ \E j \in victims[x] : jobRun[j] = r
            THEN "error" ELSE runStatus[r]]
    /\ victims' = [victims EXCEPT ![x] = {}]
    /\ UNCHANGED <<jobRun, stale, scheduled>>

\* The exception is logged and swallowed.
ReleaseFails(x) ==
    /\ Fault("release")
    /\ victims' = [victims EXCEPT ![x] = {}]
    /\ UNCHANGED <<tableVars, runVars>>

PollRelease ==
    /\ callerPc["poll"] = "release"
    /\ \/ ReleaseRows("poll") /\ UNCHANGED boundVars
       \/ ReleaseFails("poll")
    /\ callerPc' = [callerPc EXCEPT !["poll"] = "count"]
    /\ UNCHANGED <<active, loopVars, callerRun>>

LoopSelect(l) ==
    /\ loopPc[l] = "select"
    /\ victims' = [victims EXCEPT ![l] = Running]
    /\ loopPc' = [loopPc EXCEPT ![l] = "release"]
    /\ UNCHANGED <<tableVars, runVars, active, loopJob, outcome, callerVars, boundVars>>

LoopRelease(l) ==
    /\ loopPc[l] = "release"
    /\ \/ ReleaseRows(l) /\ UNCHANGED boundVars
       \/ ReleaseFails(l)
    /\ loopPc' = [loopPc EXCEPT ![l] = "claim"]
    /\ UNCHANGED <<active, loopJob, outcome, callerVars>>

-----------------------------------------------------------------------------
(* run_forever: claim, execute, finish.                                    *)

Oldest(j) ==
    /\ jobStatus[j] = "queued"
    /\ \A k \in 1..(j - 1) : jobStatus[k] # "queued"

\* Slip: the claim is not recorded in the row.
ClaimJobUnmarked(l) ==
    /\ loopPc[l] = "claim"
    /\ \E j \in JobId : Oldest(j) /\ loopJob' = [loopJob EXCEPT ![l] = j]
    /\ loopPc' = [loopPc EXCEPT ![l] = "execute"]
    /\ UNCHANGED <<tableVars, runVars, active, outcome, victims, callerVars, boundVars>>

\* claim_job: FOR UPDATE SKIP LOCKED makes read and commit one step.
ClaimJob(l) ==
    /\ loopPc[l] = "claim"
    /\ \E j \in JobId :
        /\ Oldest(j)
        /\ jobStatus' = [jobStatus EXCEPT ![j] = "running"]
        /\ loopJob' = [loopJob EXCEPT ![l] = j]
    /\ loopPc' = [loopPc EXCEPT ![l] = "execute"]
    /\ UNCHANGED <<jobRun, stale, runVars, active, outcome, victims, callerVars, boundVars>>

\* The claim raises before its commit, or while re-reading the row after it.
ClaimFails(l) ==
    /\ loopPc[l] = "claim"
    /\ \/ Fault("claim") /\ UNCHANGED jobStatus
       \/ /\ Fault("claimed")
          /\ \E j \in JobId :
              /\ Oldest(j)
              /\ jobStatus' = [jobStatus EXCEPT ![j] = "running"]
    /\ LoopDies(l)
    /\ UNCHANGED <<jobRun, stale, runVars>>

Goto(l, pc) == loopPc' = [loopPc EXCEPT ![l] = pc]
IsSync(l) == jobRun[loopJob[l]] # NoRun

\* Slip: the lock is taken without being tested.
AcquireLockUntested(l) ==
    /\ loopPc[l] = "execute"
    /\ active' = TRUE
    /\ Goto(l, "enter")
    /\ UNCHANGED <<tableVars, runVars, loopJob, outcome, victims, callerVars, boundVars>>

\* _execute_row calls run() and acquire_lock finds the lock free.  Its test and
\* its assignment are one step: the image runs CPython 3.12 (Dockerfile), which
\* lets another thread in only at calls, at function entry and on backward
\* jumps, and there is none of these between the two.
AcquireLock(l) ==
    /\ loopPc[l] = "execute"
    /\ ~active
    /\ active' = TRUE
    /\ Goto(l, "enter")
    /\ UNCHANGED <<tableVars, runVars, loopJob, outcome, victims, callerVars, boundVars>>

\* SyncInProgress: a sync job ends in error, an identity job logs it and
\* goes on to its next record.
RefuseSync(l) ==
    /\ loopPc[l] = "execute"
    /\ active
    /\ IsSync(l)
    /\ outcome' = [outcome EXCEPT ![l] = "error"]
    /\ Goto(l, "finish")
    /\ UNCHANGED <<tableVars, runVars, active, loopJob, victims, callerVars, boundVars>>

\* process_hubspot_identity_events has no (further) record to write, or
\* every remaining one was refused.  Only its own logging can make it raise.
IdentityDone(l) ==
    /\ loopPc[l] = "execute"
    /\ ~IsSync(l)
    /\ \/ outcome' = [outcome EXCEPT ![l] = "done"] /\ UNCHANGED boundVars
       \/ outcome' = [outcome EXCEPT ![l] = "error"] /\ Fault("identity")
    /\ Goto(l, "finish")
    /\ UNCHANGED <<tableVars, runVars, active, loopJob, victims, callerVars>>

\* What follows run() in the caller, normally or with an exception.
AfterRun(l, result) ==
    IF IsSync(l)
    THEN Goto(l, "finish") /\ outcome' = [outcome EXCEPT ![l] = result]
    ELSE Goto(l, "execute") /\ UNCHANGED outcome

\* run() marks its run record running, before its try block.
EnterRun(l) ==
    /\ loopPc[l] = "enter"
    /\ runStatus' = [runStatus EXCEPT ![RunOf(loopJob[l])] = "running"]
    /\ Goto(l, "sync")
    /\ UNCHANGED <<tableVars, scheduled, active, loopJob, outcome, victims, callerVars, boundVars>>

\* A database error there, before that commit or after it: the finally that
\* releases the lock belongs to the try block, which was not entered.
EnterFails(l) ==
    /\ loopPc[l] = "enter"
    /\ Fault("enter")
    /\ \/ UNCHANGED runStatus
       \/ runStatus' = [runStatus EXCEPT ![RunOf(loopJob[l])] = "running"]
    /\ AfterRun(l, "error")
    /\ UNCHANGED <<tableVars, scheduled, active, loopJob, victims, callerVars>>

\* Slip: the verdict is written in the queue's vocabulary.
CloseRunDone(l) ==
    /\ loopPc[l] = "sync"
    /\ Goto(l, "report")
    /\ runStatus' = [runStatus EXCEPT ![RunOf(loopJob[l])] = "done"]
    /\ UNCHANGED <<tableVars, scheduled, active, loopJob, outcome, victims, callerVars, boundVars>>

\* Slip: the failure to record the verdict is swallowed.
CloseRunUnrecorded(l) ==
    /\ loopPc[l] = "sync"
    /\ Goto(l, "report")
    /\ \/ /\ \E verdict \in Closed :
                runStatus' = [runStatus EXCEPT ![RunOf(loopJob[l])] = verdict]
          /\ UNCHANGED boundVars
       \/ Fault("close") /\ UNCHANGED runStatus
    /\ UNCHANGED <<tableVars, scheduled, active, loopJob, outcome, victims, callerVars>>

\* The sync itself ends: its verdict is committed ("error" too: every item
\* failed, or nothing could be planned), or an exception is recorded and
\* re-raised, or even that record could not be written.
CloseRun(l) ==
    /\ loopPc[l] = "sync"
    /\ \/ /\ \E verdict \in Closed :
                runStatus' = [runStatus EXCEPT ![RunOf(loopJob[l])] = verdict]
          /\ Goto(l, "report")
          /\ UNCHANGED <<outcome, boundVars>>
       \/ /\ runStatus' = [runStatus EXCEPT ![RunOf(loopJob[l])] = "error"]
          /\ outcome' = [outcome EXCEPT ![l] = "error"]
          /\ Goto(l, "leave")
          /\ UNCHANGED boundVars
       \/ /\ Fault("close")
          /\ outcome' = [outcome EXCEPT ![l] = "error"]
          /\ Goto(l, "leave")
          /\ UNCHANGED runStatus
    /\ UNCHANGED <<tableVars, scheduled, active, loopJob, victims, callerVars>>

\* After the commit the sync is logged.  If that raises, the exception is
\* recorded over the verdict, or cannot be.
ReportRun(l) ==
    /\ loopPc[l] = "report"
    /\ \/ /\ outcome' = [outcome EXCEPT ![l] = "done"]
          /\ UNCHANGED <<runStatus, boundVars>>
       \/ /\ Fault("report")
          /\ outcome' = [outcome EXCEPT ![l] = "error"]
          /\ \/ UNCHANGED runStatus
             \/ runStatus' = [runStatus EXCEPT ![RunOf(loopJob[l])] = "error"]
    /\ Goto(l, "leave")
    /\ UNCHANGED <<tableVars, scheduled, active, loopJob, victims, callerVars>>

\* Slip: the lock is not released on the way out of an exception.
ReleaseLockOnSuccess(l) ==
    /\ loopPc[l] = "leave"
    /\ active' = (outcome[l] = "error")
    /\ AfterRun(l, outcome[l])
    /\ UNCHANGED <<tableVars, runVars, loopJob, victims, callerVars, boundVars>>

ReleaseLock(l) ==
    /\ loopPc[l] = "leave"
    /\ active' = FALSE
    /\ AfterRun(l, outcome[l])
    /\ UNCHANGED <<tableVars, runVars, loopJob, victims, callerVars, boundVars>>

\* finish_job: an unconditional overwrite.
FinishJob(l) ==
    /\ loopPc[l] = "finish"
    /\ jobStatus' = [jobStatus EXCEPT ![loopJob[l]] = outcome[l]]
    /\ IF outcome[l] = "error" /\ IsSync(l)
       THEN Goto(l, "fail") /\ UNCHANGED loopJob
       ELSE Goto(l, "claim") /\ loopJob' = [loopJob EXCEPT ![l] = NoJob]
    /\ UNCHANGED <<jobRun, stale, runVars, active, outcome, victims, callerVars, boundVars>>

FailRun(l) ==
    LET r == jobRun[loopJob[l]] IN
    /\ loopPc[l] = "fail"
    /\ runStatus' = IF runStatus[r] \in Open THEN [runStatus EXCEPT ![r] = "error"]
                                             ELSE runStatus
    /\ Goto(l, "claim")
    /\ loopJob' = [loopJob EXCEPT ![l] = NoJob]
    /\ UNCHANGED <<tableVars, scheduled, active, outcome, victims, callerVars, boundVars>>

FinishFails(l) ==
    /\ \/ loopPc[l] = "finish" /\ Fault("finish")
       \/ loopPc[l] = "fail" /\ Fault("fail")
    /\ LoopDies(l)
    /\ UNCHANGED <<tableVars, runVars>>

-----------------------------------------------------------------------------
LoopStep(l) ==
    \/ LoopSelect(l) \/ LoopRelease(l)
    \/ ClaimJob(l) \/ ClaimFails(l)
    \/ AcquireLock(l) \/ RefuseSync(l) \/ IdentityDone(l)
    \/ EnterRun(l) \/ EnterFails(l) \/ CloseRun(l) \/ ReportRun(l)
    \/ ReleaseLock(l)
    \/ FinishJob(l) \/ FailRun(l) \/ FinishFails(l)

EnqueueStep(c) ==
    BeginSync(c) \/ BeginIdentity(c) \/ AddRun(c) \/ AddJob(c) \/ EnqueueFails(c)

Next ==
    \/ \E l \in Loops : LoopStep(l)
    \/ \E c \in Callers : EnqueueStep(c)
    \/ PollSelect \/ PollRelease \/ PollGoesOn \/ PollSkips \/ ReconcileGoesOn
    \/ \E j \in JobId : GoStale(j)
    \/ WorkerCrash \/ WebCrash

Spec == Init /\ [][Next]_vars

-----------------------------------------------------------------------------
(* Fairness.  A live loop and a scheduled job keep running, a caller       *)
(* finishes the call it began, time passes; an identity job has finitely   *)
(* many records (IdentityDone is strongly fair).  Nothing makes a handler  *)
(* start a request, a database call raise or a process die.                *)

Fairness ==
    /\ \A l \in Loops : WF_vars(LoopStep(l)) /\ SF_vars(IdentityDone(l))
    /\ \A c \in Callers : WF_vars(AddRun(c) \/ AddJob(c))
    /\ WF_vars(PollSelect \/ PollRelease \/ PollGoesOn \/ PollSkips \/ BeginSync("poll"))
    /\ WF_vars(BeginSync("reconcile"))
    /\ \A j \in JobId : WF_vars(GoStale(j))

FairSpec == Spec /\ Fairness

-----------------------------------------------------------------------------
(* Properties.                                                             *)

LoopPcs == {"dead", "select", "release", "claim", "execute", "enter", "sync",
            "report", "leave", "finish", "fail"}
CallerPcs == {"idle", "start", "run", "job", "identity", "release", "count"}

\* Every variable has its type, and a loop that works on a row names one.
TypeOK ==
    /\ jobStatus \in [JobId -> {"absent", "queued", "running"} \cup Settled]
    /\ jobRun \in [JobId -> 0..MaxRuns]
    /\ stale \subseteq JobId
    /\ runStatus \in [RunId -> {"absent"} \cup Open \cup Closed]
    /\ scheduled \subseteq RunId
    /\ active \in BOOLEAN
    /\ loopPc \in [Loops -> LoopPcs]
    /\ loopJob \in [Loops -> {NoJob} \cup JobId]
    /\ outcome \in [Loops -> Settled]
    /\ victims \in [Releasers -> SUBSET JobId]
    /\ callerPc \in [Callers -> CallerPcs]
    /\ callerRun \in [Callers -> 0..MaxRuns]
    /\ faults \in Nat
    /\ crashes \in Nat

\* At most one loop of the process is inside SyncOrchestrator.run, however
\* many loops there are and whatever they raise.
OneSync == \A l, k \in Loops : InSync(l) /\ InSync(k) => l = k

\* No two loops execute the same work_queue row.
OneHolder ==
    \A l, k \in Loops : Working(l) /\ Working(k) /\ loopJob[l] = loopJob[k] => l = k

\* The row of a job being executed says so: no release of orphans settles a
\* row behind its executor's back, so nobody takes the queue for idle.
HeldRowsRun == \A l \in Loops : Working(l) => jobStatus[loopJob[l]] = "running"

\* A claimed sync always finds the lock free: no queued sync ends, unexecuted,
\* with "sync is already running".
NeverRefused == \A l \in Loops : loopPc[l] = "execute" /\ IsSync(l) => ~active

\* The lock is taken only while a sync is in progress, so that refusing a
\* sync because one "is already running" is the truth.
LockHasHolder == active => \E l \in Loops : InSync(l)

\* A row recorded "done" has its run record closed, through every crash,
\* release and error.
DoneMeansClosed ==
    \A j \in JobId : jobStatus[j] = "done" /\ jobRun[j] # NoRun
                        => runStatus[jobRun[j]] \in Closed

\* A sync_run row that reached a verdict keeps it: no release, no fail_run and
\* no other executor writes over the history.  Only the sync that reached it
\* may turn it into an error, while it reports.
VerdictsStay ==
    [][\A r \in 1..MaxRuns :
            \/ runStatus[r] \notin Closed
            \/ runStatus'[r] = runStatus[r]
            \/ /\ \E l \in Loops : loopPc[l] = "report" /\ RunOf(loopJob[l]) = r
               /\ runStatus'[r] = "error"]_vars

\* Scheduled polls never pile up: at most one scheduled sync is queued or
\* executing.
OneScheduled ==
    \A j, k \in JobId :
        /\ j \in ActiveJobs \/ Live(j)
        /\ k \in ActiveJobs \/ Live(k)
        /\ jobRun[j] \in scheduled
        /\ jobRun[k] \in scheduled
        => j = k

\* Every queued or claimed row is settled in the end: no interruption leaves
\* the queue counted as busy forever.
EveryJobSettles ==
    \A j \in JobId : j \in ActiveJobs ~> jobStatus[j] \in Settled

\* No run record reads "queued", as pending work, forever.
QueuedRunsClose ==
    \A r \in RunId : runStatus[r] = "queued" ~> runStatus[r] # "queued"

\* No run record reads "running" forever.
RunningRunsClose ==
    \A r \in RunId : runStatus[r] = "running" ~> runStatus[r] \in Closed

\* What the queue promises (JobLedger), with the rows some loop is executing
\* as the held ones.
Ledger == INSTANCE JobLedger WITH
    row  <- jobStatus,
    held <- {j \in JobId : Live(j)}
ImplementsLedger == Ledger!Spec

=============================================================================
