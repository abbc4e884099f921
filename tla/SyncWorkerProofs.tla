-------------------------- MODULE SyncWorkerProofs --------------------------
(***************************************************************************)
(* Theorems about SyncWorker, for every value of its constants: any number *)
(* of handlers, rows, database errors and crashes, in both roles.          *)
(***************************************************************************)
EXTENDS SyncWorker, TLAPS

-----------------------------------------------------------------------------
(* Typing.                                                                 *)

LEMMA InitType == Init => TypeOK
<1> SUFFICES ASSUME Init PROVE TypeOK
  OBVIOUS
<1>1. BootPc \in [Loops -> LoopPcs]
  BY DEF BootPc, BootLoop, Loops, LoopPcs
<1>2. jobRun \in [JobId -> 0..MaxRuns] /\ callerRun \in [Callers -> 0..MaxRuns]
  BY BoundsAssumption DEF Init, NoRun
<1>3. jobStatus \in [JobId -> {"absent", "queued", "running"} \cup Settled]
  BY DEF Init
<1>4. runStatus \in [RunId -> {"absent"} \cup Open \cup Closed]
  BY DEF Init
<1>5. callerPc \in [Callers -> CallerPcs] /\ victims \in [Releasers -> SUBSET JobId]
  BY DEF Init, CallerPcs
<1>6. loopJob \in [Loops -> {NoJob} \cup JobId] /\ outcome \in [Loops -> Settled]
  BY DEF Init, Settled
<1> QED
  BY <1>1, <1>2, <1>3, <1>4, <1>5, <1>6 DEF Init, TypeOK

\* A process death keeps the types.
LEMMA RebootType ==
    ASSUME TypeOK, Reboot
    PROVE  /\ active' \in BOOLEAN
           /\ loopPc' \in [Loops -> LoopPcs]
           /\ loopJob' \in [Loops -> {NoJob} \cup JobId]
           /\ outcome' \in [Loops -> Settled]
           /\ victims' \in [Releasers -> SUBSET JobId]
           /\ callerPc' \in [Callers -> CallerPcs]
           /\ callerRun' \in [Callers -> 0..MaxRuns]
<1>1. BootPc \in [Loops -> LoopPcs]
  BY DEF BootPc, BootLoop, Loops, LoopPcs
<1>2. callerPc' \in [Callers -> CallerPcs]
  BY DEF Reboot, TypeOK, CallerPcs
<1>3. callerRun' \in [Callers -> 0..MaxRuns]
  BY BoundsAssumption DEF Reboot, TypeOK, NoRun
<1> QED
  BY <1>1, <1>2, <1>3 DEF Reboot, TypeOK, Settled

\* So does the end of one loop.
LEMMA LoopDiesType ==
    ASSUME TypeOK, NEW l \in Loops, LoopDies(l)
    PROVE  /\ active' \in BOOLEAN
           /\ loopPc' \in [Loops -> LoopPcs]
           /\ loopJob' \in [Loops -> {NoJob} \cup JobId]
           /\ outcome' \in [Loops -> Settled]
           /\ victims' \in [Releasers -> SUBSET JobId]
           /\ callerPc' \in [Callers -> CallerPcs]
           /\ callerRun' \in [Callers -> 0..MaxRuns]
<1>1. CASE Reboot
  BY <1>1, RebootType
<1>2. CASE ~Reboot
  BY <1>2 DEF LoopDies, TypeOK, LoopPcs, Settled, callerVars
<1> QED
  BY <1>1, <1>2

\* And a release of orphans.
LEMMA ReleaseType ==
    ASSUME TypeOK, NEW x \in Releasers, ReleaseRows(x) \/ ReleaseFails(x)
    PROVE  /\ jobStatus' \in [JobId -> {"absent", "queued", "running"} \cup Settled]
           /\ runStatus' \in [RunId -> {"absent"} \cup Open \cup Closed]
           /\ victims' \in [Releasers -> SUBSET JobId]
           /\ UNCHANGED <<jobRun, stale, scheduled>>
<1>1. CASE ReleaseRows(x)
  BY <1>1 DEF ReleaseRows, TypeOK, Settled, Closed
<1>2. CASE ReleaseFails(x)
  BY <1>2 DEF ReleaseFails, TypeOK, tableVars, runVars
<1> QED
  BY <1>1, <1>2

LEMMA FaultType ==
    ASSUME TypeOK, NEW point, Fault(point) \/ UNCHANGED boundVars
    PROVE  faults' \in Nat /\ crashes' \in Nat
  BY DEF Fault, TypeOK, boundVars

LEMMA LoopStepType ==
    ASSUME TypeOK, NEW l \in Loops, LoopStep(l)
    PROVE  TypeOK'
<1> USE DEF tableVars, runVars, loopVars, callerVars, boundVars, TypeOK, Settled,
            LoopPcs, Goto
<1>1. CASE LoopSelect(l)
  BY <1>1 DEF LoopSelect, Running, Releasers
<1>2. CASE LoopRelease(l)
  <2>1. l \in Releasers
    BY DEF Releasers
  <2>2. faults' \in Nat /\ crashes' \in Nat
    BY <1>2 DEF LoopRelease, ReleaseFails, Fault
  <2> QED
    BY <1>2, <2>1, <2>2, ReleaseType DEF LoopRelease
<1>3. CASE ClaimJob(l)
  BY <1>3 DEF ClaimJob
<1>4. CASE ClaimFails(l)
  <2>1. faults' \in Nat /\ crashes' \in Nat
    BY <1>4 DEF ClaimFails, Fault
  <2>2. jobStatus' \in [JobId -> {"absent", "queued", "running"} \cup Settled]
    BY <1>4 DEF ClaimFails
  <2> QED
    BY <1>4, <2>1, <2>2, LoopDiesType DEF ClaimFails
<1>5. CASE AcquireLock(l)
  BY <1>5 DEF AcquireLock
<1>6. CASE RefuseSync(l)
  BY <1>6 DEF RefuseSync
<1>7. CASE IdentityDone(l)
  BY <1>7 DEF IdentityDone, Fault
<1>8. CASE EnterRun(l)
  BY <1>8 DEF EnterRun, Open
<1>9. CASE EnterFails(l)
  <2>1. runStatus' \in [RunId -> {"absent"} \cup Open \cup Closed]
    BY <1>9 DEF EnterFails, Open
  <2>2. faults' \in Nat /\ crashes' \in Nat
    BY <1>9 DEF EnterFails, Fault
  <2> QED
    BY <1>9, <2>1, <2>2 DEF EnterFails, AfterRun
<1>10. CASE CloseRun(l)
  <2>1. runStatus' \in [RunId -> {"absent"} \cup Open \cup Closed]
    BY <1>10 DEF CloseRun, Closed
  <2>2. outcome' \in [Loops -> Settled]
    BY <1>10 DEF CloseRun
  <2>3. faults' \in Nat /\ crashes' \in Nat
    BY <1>10 DEF CloseRun, Fault
  <2> QED
    BY <1>10, <2>1, <2>2, <2>3 DEF CloseRun
<1>11. CASE ReleaseLock(l)
  BY <1>11 DEF ReleaseLock, AfterRun
<1>15. CASE ReportRun(l)
  <2>1. runStatus' \in [RunId -> {"absent"} \cup Open \cup Closed]
    BY <1>15 DEF ReportRun, Closed
  <2>2. outcome' \in [Loops -> Settled]
    BY <1>15 DEF ReportRun
  <2>3. faults' \in Nat /\ crashes' \in Nat
    BY <1>15 DEF ReportRun, Fault
  <2> QED
    BY <1>15, <2>1, <2>2, <2>3 DEF ReportRun
<1>12. CASE FinishJob(l)
  BY <1>12 DEF FinishJob
<1>13. CASE FailRun(l)
  BY <1>13 DEF FailRun, Closed
<1>14. CASE FinishFails(l)
  <2>1. faults' \in Nat /\ crashes' \in Nat
    BY <1>14 DEF FinishFails, Fault
  <2> QED
    BY <1>14, <2>1, LoopDiesType DEF FinishFails
<1> QED
  BY <1>1, <1>2, <1>3, <1>4, <1>5, <1>6, <1>7, <1>8, <1>9, <1>10, <1>11,
     <1>12, <1>13, <1>14, <1>15 DEF LoopStep

LEMMA CallerStepType ==
    ASSUME TypeOK,
           \/ \E c \in Callers : EnqueueStep(c)
           \/ PollSelect \/ PollRelease \/ PollGoesOn \/ PollSkips \/ ReconcileGoesOn
    PROVE  TypeOK'
<1> USE DEF tableVars, runVars, loopVars, callerVars, boundVars, TypeOK, CallerPcs
<1>1. ASSUME NEW c \in Callers, NEW next \in {"run", "identity"}, Begin(c, next)
      PROVE  TypeOK'
  BY <1>1 DEF Begin, StartWorker, LoopPcs
<1>2. ASSUME NEW c \in Callers, AddRun(c)
      PROVE  TypeOK'
  BY <1>2, BoundsAssumption DEF AddRun, RunId, Open, JobId
<1>3. ASSUME NEW c \in Callers, AddJob(c)
      PROVE  TypeOK'
  BY <1>3, BoundsAssumption DEF AddJob, NoRun
<1>4. ASSUME NEW c \in Callers, EnqueueFails(c)
      PROVE  TypeOK'
  BY <1>4, BoundsAssumption DEF EnqueueFails, Fault, NoRun
<1>5. CASE PollSelect
  BY <1>5 DEF PollSelect, CallerStep, Running, Releasers
<1>6. CASE PollRelease
  <2>1. "poll" \in Releasers
    BY DEF Releasers
  <2>2. faults' \in Nat /\ crashes' \in Nat
    BY <1>6 DEF PollRelease, ReleaseFails, Fault
  <2> QED
    BY <1>6, <2>1, <2>2, ReleaseType DEF PollRelease
<1>7. CASE PollGoesOn \/ PollSkips \/ ReconcileGoesOn
  BY <1>7 DEF PollGoesOn, PollSkips, ReconcileGoesOn, CallerStep, QueueLooksEmpty, Fault
<1> QED
  BY <1>1, <1>2, <1>3, <1>4, <1>5, <1>6, <1>7
     DEF EnqueueStep, BeginSync, BeginIdentity

\* Every reachable state is well typed (all of worker.py and the queue part
\* of repo.py).
THEOREM TypeCorrect == Spec => []TypeOK
<1>1. TypeOK /\ [Next]_vars => TypeOK'
  <2> SUFFICES ASSUME TypeOK, [Next]_vars PROVE TypeOK'
    OBVIOUS
  <2> USE DEF tableVars, runVars, loopVars, callerVars, boundVars
  <2>1. ASSUME NEW l \in Loops, LoopStep(l) PROVE TypeOK'
    BY <2>1, LoopStepType
  <2>2. CASE \/ \E c \in Callers : EnqueueStep(c)
             \/ PollSelect \/ PollRelease \/ PollGoesOn \/ PollSkips \/ ReconcileGoesOn
    BY <2>2, CallerStepType
  <2>3. ASSUME NEW j \in JobId, GoStale(j) PROVE TypeOK'
    BY <2>3 DEF GoStale, TypeOK
  <2>4. CASE WorkerCrash
    BY <2>4, RebootType DEF WorkerCrash, TypeOK
  <2>5. CASE WebCrash
    <3>1. callerPc' \in [Callers -> CallerPcs]
      BY <2>5 DEF WebCrash, TypeOK, CallerPcs
    <3>2. callerRun' \in [Callers -> 0..MaxRuns]
      BY <2>5, BoundsAssumption DEF WebCrash, TypeOK, NoRun
    <3> QED
      BY <2>5, <3>1, <3>2 DEF WebCrash, TypeOK
  <2>6. CASE UNCHANGED vars
    BY <2>6 DEF vars, TypeOK
  <2> QED
    BY <2>1, <2>2, <2>3, <2>4, <2>5, <2>6 DEF Next
<1> QED
  BY InitType, <1>1, PTL DEF Spec

-----------------------------------------------------------------------------
(* One sync at a time.  The lock is held by whoever is inside run(), which *)
(* makes OneSync inductive; the converse (LockHasHolder) is false in the   *)
(* code and is not needed.                                                 *)

LockInv == OneSync /\ \A l \in Loops : InSync(l) => active

\* A step that leaves no loop newly inside run(), and keeps the lock or
\* empties run(), keeps the invariant.
LEMMA LockInvKept ==
    ASSUME LockInv,
           \A l \in Loops : InSync(l)' => InSync(l),
           active' = active \/ \A l \in Loops : ~InSync(l)'
    PROVE  LockInv'
  BY DEF LockInv, OneSync

LEMMA RebootOutside == ASSUME Reboot PROVE \A l \in Loops : ~InSync(l)'
  BY DEF Reboot, BootPc, InSync

LEMMA LoopDiesKeepsLock ==
    ASSUME TypeOK, LockInv, NEW l \in Loops, LoopDies(l)
    PROVE  LockInv'
<1>1. CASE Reboot
  BY <1>1, RebootOutside, LockInvKept
<1>2. CASE ~Reboot
  <2>1. \A k \in Loops : InSync(k)' => InSync(k)
    BY <1>2 DEF LoopDies, InSync, TypeOK
  <2> QED
    BY <1>2, <2>1, LockInvKept DEF LoopDies
<1> QED
  BY <1>1, <1>2

LEMMA LoopStepKeepsLock ==
    ASSUME TypeOK, LockInv, NEW l \in Loops, LoopStep(l)
    PROVE  LockInv'
<1> DEFINE Outside == \A k \in Loops : InSync(k)' => InSync(k)
<1>1. CASE LoopSelect(l) \/ LoopRelease(l) \/ ClaimJob(l)
  <2>1. Outside /\ active' = active
    BY <1>1 DEF LoopSelect, LoopRelease, ClaimJob, InSync, TypeOK
  <2> QED
    BY <2>1, LockInvKept
<1>2. CASE ClaimFails(l) \/ FinishFails(l)
  BY <1>2, LoopDiesKeepsLock DEF ClaimFails, FinishFails
<1>3. CASE AcquireLock(l)
  <2>1. \A k \in Loops : ~InSync(k)
    BY <1>3 DEF AcquireLock, LockInv
  <2>2. \A k \in Loops \ {l} : ~InSync(k)'
    BY <1>3, <2>1 DEF AcquireLock, Goto, InSync, TypeOK
  <2>3. active'
    BY <1>3 DEF AcquireLock
  <2> QED
    BY <2>2, <2>3 DEF LockInv, OneSync
<1>4. CASE RefuseSync(l) \/ IdentityDone(l) \/ EnterFails(l) \/ FinishJob(l) \/ FailRun(l)
  <2>1. Outside /\ active' = active
    BY <1>4 DEF RefuseSync, IdentityDone, EnterFails, AfterRun, FinishJob, FailRun,
                Goto, InSync, TypeOK
  <2> QED
    BY <2>1, LockInvKept
<1>5. CASE EnterRun(l) \/ CloseRun(l) \/ ReportRun(l)
  <2>1. Outside /\ active' = active
    BY <1>5 DEF EnterRun, CloseRun, ReportRun, Goto, InSync, TypeOK
  <2> QED
    BY <2>1, LockInvKept
<1>6. CASE ReleaseLock(l)
  <2>1. InSync(l)
    BY <1>6 DEF ReleaseLock, InSync
  <2>2. \A k \in Loops \ {l} : ~InSync(k)
    BY <2>1 DEF LockInv, OneSync
  <2>3. \A k \in Loops : ~InSync(k)'
    BY <1>6, <2>2 DEF ReleaseLock, AfterRun, Goto, InSync, TypeOK
  <2> QED
    BY <2>3, LockInvKept
<1> QED
  BY <1>1, <1>2, <1>3, <1>4, <1>5, <1>6 DEF LoopStep

LEMMA OtherStepKeepsLock ==
    ASSUME TypeOK, LockInv,
           \/ \E c \in Callers : EnqueueStep(c)
           \/ PollSelect \/ PollRelease \/ PollGoesOn \/ PollSkips \/ ReconcileGoesOn
           \/ \E j \in JobId : GoStale(j)
           \/ WebCrash
           \/ UNCHANGED vars
    PROVE  LockInv'
<1> DEFINE Outside == \A k \in Loops : InSync(k)' => InSync(k)
<1>1. ASSUME NEW c \in Callers, EnqueueStep(c) PROVE Outside /\ active' = active
  <2>1. ASSUME NEW next \in {"run", "identity"}, Begin(c, next)
        PROVE  Outside /\ active' = active
    BY <2>1 DEF Begin, StartWorker, InSync, TypeOK
  <2>2. CASE AddRun(c) \/ AddJob(c) \/ EnqueueFails(c)
    BY <2>2 DEF AddRun, AddJob, EnqueueFails, InSync, loopVars
  <2> QED
    BY <1>1, <2>1, <2>2 DEF EnqueueStep, BeginSync, BeginIdentity
<1>2. CASE PollSelect \/ PollRelease \/ PollGoesOn \/ PollSkips \/ ReconcileGoesOn
  <2>1. Outside /\ active' = active
    BY <1>2 DEF PollSelect, PollRelease, PollGoesOn, PollSkips, ReconcileGoesOn,
                CallerStep, InSync, loopVars
  <2> QED
    BY <2>1, LockInvKept
<1>3. CASE (\E j \in JobId : GoStale(j)) \/ WebCrash \/ UNCHANGED vars
  <2>1. Outside /\ active' = active
    BY <1>3 DEF GoStale, WebCrash, vars, InSync, loopVars
  <2> QED
    BY <2>1, LockInvKept
<1> QED
  BY <1>1, <1>2, <1>3, LockInvKept

LEMMA LockInvariant == Spec => []LockInv
<1>1. Init => LockInv
  BY DEF Init, LockInv, OneSync, InSync, BootPc
<1>2. TypeOK /\ LockInv /\ [Next]_vars => LockInv'
  <2> SUFFICES ASSUME TypeOK, LockInv, [Next]_vars PROVE LockInv'
    OBVIOUS
  <2>1. ASSUME NEW l \in Loops, LoopStep(l) PROVE LockInv'
    BY <2>1, LoopStepKeepsLock
  <2>2. CASE WorkerCrash
    BY <2>2, RebootOutside, LockInvKept DEF WorkerCrash
  <2> QED
    BY <2>1, <2>2, OtherStepKeepsLock DEF Next
<1> QED
  BY <1>1, <1>2, TypeCorrect, PTL DEF Spec

\* At most one sync runs in the executing process, even with the second loop
\* start_worker adds in the worker container and whatever a database call
\* raises: the lock of SyncOrchestrator.run is only ever given back by the
\* loop that took it, or left taken.
THEOREM OneSyncAtATime == Spec => []OneSync
<1>1. LockInv => OneSync
  BY DEF LockInv
<1> QED
  BY <1>1, LockInvariant, PTL

-----------------------------------------------------------------------------
(* No row has two executors.  Inductive once it is known that a held row   *)
(* has left the queue: claim_job only takes queued rows, and no row goes   *)
(* back to the queue.                                                      *)

Left == {"running", "done", "error"}
HoldInv == OneHolder /\ \A l \in Loops : Working(l) => jobStatus[loopJob[l]] \in Left

\* A step after which every executor had its row before, and no row went
\* back to the queue.
HoldKept ==
    /\ \A l \in Loops : Working(l)' => Working(l) /\ loopJob'[l] = loopJob[l]
    /\ \A l \in Loops : Working(l) /\ jobStatus[loopJob[l]] \in Left
                            => jobStatus'[loopJob[l]] \in Left

LEMMA HoldInvKept == ASSUME HoldInv, HoldKept PROVE HoldInv'
  BY DEF HoldInv, HoldKept, OneHolder

LEMMA RebootIdle == ASSUME Reboot PROVE \A l \in Loops : ~Working(l)'
  BY DEF Reboot, BootPc, Working

LEMMA LoopDiesHold ==
    ASSUME TypeOK, NEW l \in Loops, LoopDies(l)
    PROVE  \A k \in Loops : Working(k)' => Working(k) /\ loopJob'[k] = loopJob[k]
<1>1. CASE Reboot
  BY <1>1, RebootIdle
<1>2. CASE ~Reboot
  BY <1>2 DEF LoopDies, Working, TypeOK
<1> QED
  BY <1>1, <1>2

LEMMA ReleaseHold ==
    ASSUME TypeOK, NEW x \in Releasers, ReleaseRows(x) \/ ReleaseFails(x),
           NEW j, jobStatus[j] \in Left, j \in JobId
    PROVE  jobStatus'[j] \in Left
  BY DEF ReleaseRows, ReleaseFails, tableVars, Left

\* An executor has a row.
RowsNamed ==
    \A l \in Loops : loopPc[l] \in {"execute", "enter", "sync", "report", "leave", "finish", "fail"}
                         => loopJob[l] \in JobId

LEMMA LoopStepKeepsHold ==
    ASSUME TypeOK, RowsNamed, HoldInv, NEW l \in Loops, LoopStep(l)
    PROVE  HoldInv' /\ RowsNamed'
<1> DEFINE Same == \A k \in Loops : Working(k)' => Working(k) /\ loopJob'[k] = loopJob[k]
<1> USE DEF tableVars, runVars, loopVars, callerVars
<1>1. CASE LoopSelect(l) \/ LoopRelease(l)
  <2>1. Same /\ RowsNamed'
    BY <1>1 DEF LoopSelect, LoopRelease, Working, TypeOK, RowsNamed
  <2>2. \A j \in JobId : jobStatus[j] \in Left => jobStatus'[j] \in Left
    BY <1>1, ReleaseHold DEF LoopSelect, LoopRelease, Releasers
  <2> QED
    BY <2>1, <2>2, HoldInvKept DEF HoldKept, RowsNamed, Working
<1>2. CASE ClaimJob(l)
  <2>1. PICK j \in JobId : /\ Oldest(j)
                           /\ jobStatus' = [jobStatus EXCEPT ![j] = "running"]
                           /\ loopJob' = [loopJob EXCEPT ![l] = j]
    BY <1>2 DEF ClaimJob
  <2>2. loopPc' = [loopPc EXCEPT ![l] = "execute"]
    BY <1>2 DEF ClaimJob
  <2>3. \A k \in Loops : Working(k) => loopJob[k] # j
    BY <2>1 DEF HoldInv, Oldest, Left
  <2>4. \A k \in Loops : k # l /\ Working(k)' => Working(k) /\ loopJob'[k] = loopJob[k]
    BY <2>1, <2>2 DEF Working, TypeOK
  <2>5. loopJob'[l] = j /\ jobStatus'[j] = "running"
    BY <2>1 DEF TypeOK
  <2>6. OneHolder'
    BY <2>3, <2>4, <2>5 DEF OneHolder, HoldInv
  <2>7. \A k \in Loops : Working(k)' => jobStatus'[loopJob'[k]] \in Left
    BY <2>1, <2>4, <2>5 DEF HoldInv, Left, TypeOK
  <2>8. RowsNamed'
    BY <2>1, <2>2 DEF RowsNamed, TypeOK
  <2> QED
    BY <2>6, <2>7, <2>8 DEF HoldInv
<1>3. CASE ClaimFails(l) \/ FinishFails(l)
  <2>1. LoopDies(l)
    BY <1>3 DEF ClaimFails, FinishFails
  <2>2. \A j \in JobId : jobStatus[j] \in Left => jobStatus'[j] \in Left
    BY <1>3 DEF ClaimFails, FinishFails, Left, TypeOK
  <2>3. RowsNamed'
    BY <2>1 DEF LoopDies, Reboot, BootPc, RowsNamed, TypeOK
  <2> QED
    BY <2>1, <2>2, <2>3, LoopDiesHold, HoldInvKept DEF HoldKept, RowsNamed, Working
<1>4. CASE AcquireLock(l) \/ RefuseSync(l) \/ IdentityDone(l) \/ EnterRun(l)
  <2>1. Same /\ RowsNamed' /\ jobStatus' = jobStatus
    BY <1>4 DEF AcquireLock, RefuseSync, IdentityDone, EnterRun, Goto, Working, RowsNamed, TypeOK
  <2> QED
    BY <2>1, HoldInvKept DEF HoldKept
<1>5. CASE EnterFails(l) \/ CloseRun(l) \/ ReportRun(l) \/ ReleaseLock(l)
  <2>1. Same /\ RowsNamed' /\ jobStatus' = jobStatus
    BY <1>5 DEF EnterFails, CloseRun, ReportRun, ReleaseLock, AfterRun, Goto, Working, RowsNamed, TypeOK
  <2> QED
    BY <2>1, HoldInvKept DEF HoldKept
<1>6. CASE FinishJob(l) \/ FailRun(l)
  <2>1. Same
    BY <1>6 DEF FinishJob, FailRun, Goto, Working, TypeOK
  <2>2. RowsNamed'
    BY <1>6 DEF FinishJob, FailRun, Goto, RowsNamed, TypeOK
  <2>3. \A j \in JobId : jobStatus[j] \in Left => jobStatus'[j] \in Left
    BY <1>6 DEF FinishJob, FailRun, Left, Settled, TypeOK
  <2> QED
    BY <2>1, <2>2, <2>3, HoldInvKept DEF HoldKept, RowsNamed, Working
<1> QED
  BY <1>1, <1>2, <1>3, <1>4, <1>5, <1>6 DEF LoopStep

\* Steps of everything but the loops leave the executors alone and send no
\* row back to the queue.
LEMMA OtherStepHold ==
    ASSUME TypeOK,
           \/ \E c \in Callers : EnqueueStep(c)
           \/ PollSelect \/ PollRelease \/ PollGoesOn \/ PollSkips \/ ReconcileGoesOn
           \/ \E j \in JobId : GoStale(j)
           \/ WebCrash
           \/ UNCHANGED vars
    PROVE  /\ loopJob' = loopJob
           /\ \A l \in Loops : \/ loopPc'[l] = loopPc[l]
                               \/ loopPc[l] = "dead" /\ loopPc'[l] = "select"
           /\ \A j \in JobId : jobStatus[j] \in Left => jobStatus'[j] \in Left
<1> USE DEF tableVars, runVars, loopVars, callerVars
<1>1. ASSUME NEW c \in Callers, NEW next \in {"run", "identity"}, Begin(c, next)
      PROVE  /\ loopJob' = loopJob
             /\ jobStatus' = jobStatus
             /\ \A l \in Loops : \/ loopPc'[l] = loopPc[l]
                                 \/ loopPc[l] = "dead" /\ loopPc'[l] = "select"
  BY <1>1 DEF Begin, StartWorker, TypeOK
<1>2. ASSUME NEW c \in Callers, AddRun(c) \/ AddJob(c) \/ EnqueueFails(c)
      PROVE  /\ UNCHANGED <<loopJob, loopPc>>
             /\ \A j \in JobId : jobStatus[j] \in Left => jobStatus'[j] \in Left
  BY <1>2 DEF AddRun, AddJob, EnqueueFails, NextId, Left, TypeOK
<1>3. CASE PollRelease
  BY <1>3, ReleaseHold DEF PollRelease, Releasers
<1>4. CASE PollSelect \/ PollGoesOn \/ PollSkips \/ ReconcileGoesOn
  BY <1>4 DEF PollSelect, PollGoesOn, PollSkips, ReconcileGoesOn, CallerStep
<1>5. CASE (\E j \in JobId : GoStale(j)) \/ WebCrash \/ UNCHANGED vars
  BY <1>5 DEF GoStale, WebCrash, vars
<1> QED
  BY <1>1, <1>2, <1>3, <1>4, <1>5 DEF EnqueueStep, BeginSync, BeginIdentity

LEMMA HoldInvariant == Spec => [](HoldInv /\ RowsNamed)
<1>1. Init => HoldInv /\ RowsNamed
  BY DEF Init, HoldInv, OneHolder, RowsNamed, Working, BootPc
<1>2. TypeOK /\ HoldInv /\ RowsNamed /\ [Next]_vars => HoldInv' /\ RowsNamed'
  <2> SUFFICES ASSUME TypeOK, HoldInv, RowsNamed, [Next]_vars PROVE HoldInv' /\ RowsNamed'
    OBVIOUS
  <2>1. ASSUME NEW l \in Loops, LoopStep(l) PROVE HoldInv' /\ RowsNamed'
    BY <2>1, LoopStepKeepsHold
  <2>2. CASE WorkerCrash
    <3>1. RowsNamed'
      BY <2>2 DEF WorkerCrash, Reboot, BootPc, RowsNamed
    <3>2. HoldKept
      BY <2>2, RebootIdle DEF WorkerCrash, tableVars, HoldKept
    <3> QED
      BY <3>1, <3>2, HoldInvKept
  <2>3. CASE ~WorkerCrash /\ ~\E l \in Loops : LoopStep(l)
    <3>1. /\ loopJob' = loopJob
          /\ \A l \in Loops : \/ loopPc'[l] = loopPc[l]
                              \/ loopPc[l] = "dead" /\ loopPc'[l] = "select"
          /\ \A j \in JobId : jobStatus[j] \in Left => jobStatus'[j] \in Left
      BY <2>3, OtherStepHold DEF Next
    <3>2. HoldKept /\ RowsNamed'
      BY <3>1 DEF HoldKept, RowsNamed, Working
    <3> QED
      BY <3>2, HoldInvKept
  <2> QED
    BY <2>1, <2>2, <2>3
<1> QED
  BY <1>1, <1>2, TypeCorrect, PTL DEF Spec

\* Two loops never execute the same work_queue row, in either role and
\* through every crash (claim_job with SKIP LOCKED, rows never re-queued).
THEOREM OneHolderPerRow == Spec => []OneHolder
<1>1. HoldInv => OneHolder
  BY DEF HoldInv
<1> QED
  BY <1>1, HoldInvariant, PTL

-----------------------------------------------------------------------------
(* In the one-process layout a row being executed reads "running".  The    *)
(* strengthening says why each release is harmless: there is one loop, so  *)
(* when it releases it executes nothing; and the poll releases only stale  *)
(* rows, which no loop executes as long as live runs are not slow.         *)

StaleInv ==
    /\ \A j \in stale : jobStatus[j] \in Left /\ ~Live(j)
    /\ victims["poll"] \subseteq stale

AloneInv == loopPc["main"] = "dead" /\ HeldRowsRun /\ StaleInv

\* A step after which every executor had its row before, no executed row
\* changed, no row went back to the queue and the poll releases nothing new.
AloneKept ==
    /\ loopPc'["main"] = "dead"
    /\ HoldKept
    /\ \A l \in Loops : Working(l)' => jobStatus'[loopJob[l]] = jobStatus[loopJob[l]]
    /\ \A j \in JobId : jobStatus[j] \in Left => jobStatus'[j] \in Left
    /\ stale' = stale
    /\ victims'["poll"] \subseteq stale

LEMMA AloneInvKept == ASSUME TypeOK, AloneInv, AloneKept PROVE AloneInv'
<1>1. HeldRowsRun'
  BY DEF AloneInv, AloneKept, HoldKept, HeldRowsRun
<1>2. \A j \in JobId : Live(j)' => Live(j)
  BY DEF AloneKept, HoldKept, Live
<1>3. StaleInv'
  BY <1>2 DEF AloneInv, AloneKept, StaleInv, TypeOK
<1> QED
  BY <1>1, <1>3 DEF AloneInv, AloneKept

LEMMA RebootAlone ==
    ASSUME Role = "all", Reboot
    PROVE  loopPc'["main"] = "dead" /\ victims'["poll"] = {}
  BY DEF Reboot, BootPc, BootLoop, Loops, Releasers

LEMMA ThreadStepAlone ==
    ASSUME Role = "all", TypeOK, RowsNamed, AloneInv, NEW l \in Loops, LoopStep(l)
    PROVE  AloneInv'
<1> USE DEF tableVars, runVars, loopVars, callerVars
<1>1. l = "thread" /\ "thread" \in Loops
  BY DEF AloneInv, LoopStep, LoopSelect, LoopRelease, ClaimJob, ClaimFails, AcquireLock,
         RefuseSync, IdentityDone, EnterRun, EnterFails, CloseRun, ReportRun, ReleaseLock,
         FinishJob, FailRun, FinishFails, Loops
<1>2. \A k \in Loops : k # "thread" => ~Working(k)
  BY DEF AloneInv, Loops, Working
<1>3. CASE LoopSelect(l) \/ LoopRelease(l)
  <2>1. \A k \in Loops : ~Working(k) /\ ~Working(k)'
    BY <1>1, <1>2, <1>3 DEF LoopSelect, LoopRelease, Working, TypeOK
  <2>2. loopPc'["main"] = "dead" /\ stale' = stale
    BY <1>1, <1>3 DEF LoopSelect, LoopRelease, ReleaseRows, ReleaseFails, AloneInv, TypeOK, Loops
  <2>3. \A j \in JobId : jobStatus[j] \in Left => jobStatus'[j] \in Left
    BY <1>3, ReleaseHold DEF LoopSelect, LoopRelease, Releasers
  <2>4. victims'["poll"] = victims["poll"]
    BY <1>1, <1>3 DEF LoopSelect, LoopRelease, ReleaseRows, ReleaseFails, TypeOK, Releasers
  <2> QED
    BY <2>1, <2>2, <2>3, <2>4, AloneInvKept DEF AloneKept, HoldKept, AloneInv, StaleInv
<1>4. CASE ClaimJob(l)
  <2>1. PICK j \in JobId : /\ Oldest(j)
                           /\ jobStatus' = [jobStatus EXCEPT ![j] = "running"]
                           /\ loopJob' = [loopJob EXCEPT ![l] = j]
    BY <1>4 DEF ClaimJob
  <2>2. loopPc' = [loopPc EXCEPT ![l] = "execute"] /\ UNCHANGED <<stale, victims>>
    BY <1>4 DEF ClaimJob
  <2>3. j \notin stale
    BY <2>1 DEF AloneInv, StaleInv, Oldest, Left
  <2>4. \A k \in Loops : Working(k)' => k = l
    BY <1>1, <1>2, <2>2 DEF Working, TypeOK
  <2>5. loopJob'[l] = j /\ jobStatus'[j] = "running"
    BY <2>1 DEF TypeOK
  <2>6. HeldRowsRun'
    BY <2>4, <2>5 DEF HeldRowsRun
  <2>7. StaleInv'
    BY <2>1, <2>2, <2>3, <2>4, <2>5 DEF StaleInv, AloneInv, Live, Left, TypeOK
  <2>8. loopPc'["main"] = "dead"
    BY <1>1, <2>2 DEF AloneInv, TypeOK
  <2> QED
    BY <2>6, <2>7, <2>8 DEF AloneInv
<1>5. CASE ClaimFails(l) \/ FinishFails(l)
  <2>1. LoopDies(l) /\ stale' = stale
    BY <1>5 DEF ClaimFails, FinishFails
  <2>2. \A j \in JobId : jobStatus[j] \in Left => jobStatus'[j] \in Left
    BY <1>5 DEF ClaimFails, FinishFails, Left, TypeOK
  <2>3. loopPc'["main"] = "dead" /\ victims'["poll"] \subseteq stale
    BY <1>1, <2>1, RebootAlone DEF LoopDies, AloneInv, StaleInv, TypeOK, Loops
  <2>4. \A k \in Loops : ~Working(k)'
    BY <1>1, <1>2, <2>1, RebootIdle DEF LoopDies, Working, TypeOK
  <2> QED
    BY <2>1, <2>2, <2>3, <2>4, AloneInvKept DEF AloneKept, HoldKept, RowsNamed, Working
<1>6. CASE AcquireLock(l) \/ RefuseSync(l) \/ IdentityDone(l) \/ EnterRun(l)
  <2>1. /\ \A k \in Loops : Working(k)' => Working(k) /\ loopJob'[k] = loopJob[k]
        /\ UNCHANGED <<jobStatus, stale, victims>>
        /\ loopPc'["main"] = "dead"
    BY <1>1, <1>6 DEF AcquireLock, RefuseSync, IdentityDone, EnterRun, Goto, Working, AloneInv, TypeOK, Loops
  <2> QED
    BY <2>1, AloneInvKept DEF AloneKept, HoldKept, AloneInv, StaleInv
<1>7. CASE EnterFails(l) \/ CloseRun(l) \/ ReportRun(l) \/ ReleaseLock(l)
  <2>1. /\ \A k \in Loops : Working(k)' => Working(k) /\ loopJob'[k] = loopJob[k]
        /\ UNCHANGED <<jobStatus, stale, victims>>
        /\ loopPc'["main"] = "dead"
    BY <1>1, <1>7 DEF EnterFails, CloseRun, ReportRun, ReleaseLock, AfterRun, Goto, Working, AloneInv, TypeOK, Loops
  <2> QED
    BY <2>1, AloneInvKept DEF AloneKept, HoldKept, AloneInv, StaleInv
<1>8. CASE FinishJob(l) \/ FailRun(l)
  <2>1. \A k \in Loops : ~Working(k)'
    BY <1>1, <1>2, <1>8 DEF FinishJob, FailRun, Goto, Working, TypeOK
  <2>2. loopPc'["main"] = "dead" /\ UNCHANGED <<stale, victims>>
    BY <1>1, <1>8 DEF FinishJob, FailRun, Goto, AloneInv, TypeOK, Loops
  <2>3. \A j \in JobId : jobStatus[j] \in Left => jobStatus'[j] \in Left
    BY <1>8 DEF FinishJob, FailRun, Left, Settled, TypeOK
  <2> QED
    BY <2>1, <2>2, <2>3, AloneInvKept DEF AloneKept, HoldKept, RowsNamed, Working, AloneInv, StaleInv
<1> QED
  BY <1>3, <1>4, <1>5, <1>6, <1>7, <1>8 DEF LoopStep

LEMMA OtherStepAlone ==
    ASSUME ~SlowRuns, TypeOK, RowsNamed, AloneInv,
           \/ \E c \in Callers : EnqueueStep(c)
           \/ PollSelect \/ PollRelease \/ PollGoesOn \/ PollSkips \/ ReconcileGoesOn
           \/ \E j \in JobId : GoStale(j)
           \/ WebCrash
           \/ UNCHANGED vars
    PROVE  AloneInv'
<1> USE DEF tableVars, runVars, loopVars, callerVars
<1>1. /\ loopJob' = loopJob
      /\ \A l \in Loops : \/ loopPc'[l] = loopPc[l]
                          \/ loopPc[l] = "dead" /\ loopPc'[l] = "select"
      /\ \A j \in JobId : jobStatus[j] \in Left => jobStatus'[j] \in Left
  BY OtherStepHold
<1>2. HoldKept
  BY <1>1 DEF HoldKept, RowsNamed, Working
<1>3. \A l \in Loops : Working(l)' <=> Working(l)
  BY <1>1 DEF Working
<1>4. \A j \in JobId : Live(j)' <=> Live(j)
  BY <1>1, <1>3 DEF Live
<1>5. loopPc'["main"] = "dead"
  <2>1. ASSUME NEW c \in Callers, NEW next \in {"run", "identity"}, Begin(c, next)
        PROVE  loopPc'["main"] = "dead"
    BY <2>1 DEF Begin, StartWorker, AloneInv, TypeOK, Loops
  <2>2. ASSUME NEW c \in Callers, AddRun(c) \/ AddJob(c) \/ EnqueueFails(c)
        PROVE  loopPc'["main"] = "dead"
    BY <2>2 DEF AddRun, AddJob, EnqueueFails, AloneInv
  <2>3. CASE PollSelect \/ PollRelease \/ PollGoesOn \/ PollSkips \/ ReconcileGoesOn
    BY <2>3 DEF PollSelect, PollRelease, PollGoesOn, PollSkips, ReconcileGoesOn, CallerStep, AloneInv
  <2>4. CASE (\E j \in JobId : GoStale(j)) \/ WebCrash \/ UNCHANGED vars
    BY <2>4 DEF GoStale, WebCrash, vars, AloneInv
  <2> QED
    BY <2>1, <2>2, <2>3, <2>4 DEF EnqueueStep, BeginSync, BeginIdentity
<1>6. ASSUME NEW c \in Callers, EnqueueStep(c) PROVE AloneInv'
  <2>1. stale' = stale /\ victims' = victims
    BY <1>6 DEF EnqueueStep, BeginSync, BeginIdentity, Begin, AddRun, AddJob, EnqueueFails
  <2>2. \A l \in Loops : Working(l) => jobStatus'[loopJob[l]] = jobStatus[loopJob[l]]
    <3>1. CASE AddJob(c)
      <4>1. PICK j \in JobId : NextId(jobStatus, j) /\ jobStatus' = [jobStatus EXCEPT ![j] = "queued"]
        BY <3>1 DEF AddJob
      <4>2. \A l \in Loops : Working(l) => loopJob[l] # j
        BY <4>1 DEF AloneInv, HeldRowsRun, NextId
      <4> QED
        BY <4>1, <4>2 DEF TypeOK, RowsNamed, Working
    <3>2. CASE ~AddJob(c)
      BY <1>6, <3>2 DEF EnqueueStep, BeginSync, BeginIdentity, Begin, AddRun, EnqueueFails
    <3> QED
      BY <3>1, <3>2
  <2> QED
    BY <1>1, <1>2, <1>3, <1>5, <2>1, <2>2, AloneInvKept DEF AloneKept, AloneInv, StaleInv
<1>7. CASE PollSelect \/ PollGoesOn \/ PollSkips \/ ReconcileGoesOn \/ WebCrash \/ UNCHANGED vars
  <2>1. UNCHANGED <<jobStatus, stale>> /\ victims'["poll"] \subseteq stale
    BY <1>7 DEF PollSelect, PollGoesOn, PollSkips, ReconcileGoesOn, CallerStep, WebCrash, vars,
                AloneInv, StaleInv, TypeOK, Releasers
  <2> QED
    BY <1>1, <1>2, <1>5, <2>1, AloneInvKept DEF AloneKept
<1>8. CASE PollRelease
  <2>1. stale' = stale /\ victims'["poll"] = {}
    BY <1>8 DEF PollRelease, ReleaseRows, ReleaseFails, TypeOK, Releasers
  <2>2. \A l \in Loops : Working(l) => loopJob[l] \notin victims["poll"]
    BY DEF AloneInv, StaleInv, Live
  <2>3. \A l \in Loops : Working(l) => jobStatus'[loopJob[l]] = jobStatus[loopJob[l]]
    BY <1>8, <2>2 DEF PollRelease, ReleaseRows, ReleaseFails, TypeOK, RowsNamed, Working
  <2> QED
    BY <1>1, <1>2, <1>3, <1>5, <2>1, <2>3, AloneInvKept DEF AloneKept
<1>9. ASSUME NEW j \in JobId, GoStale(j) PROVE AloneInv'
  <2>1. /\ jobStatus[j] = "running" /\ ~Live(j)
        /\ stale' = stale \cup {j}
        /\ UNCHANGED <<jobStatus, loopPc, loopJob, victims>>
    BY <1>9 DEF GoStale
  <2>2. HeldRowsRun'
    BY <2>1, <1>3 DEF HeldRowsRun, AloneInv
  <2>3. StaleInv'
    BY <2>1, <1>4 DEF StaleInv, AloneInv, Left, TypeOK
  <2> QED
    BY <1>5, <2>2, <2>3 DEF AloneInv
<1> QED
  BY <1>6, <1>7, <1>8, <1>9

LEMMA AloneInvariant ==
    ASSUME Role = "all", ~SlowRuns
    PROVE  Spec => []AloneInv
<1>1. Init => AloneInv
  BY DEF Init, AloneInv, StaleInv, HeldRowsRun, Working, BootPc, BootLoop, Loops, Releasers
<1>2. TypeOK /\ HoldInv /\ RowsNamed /\ AloneInv /\ [Next]_vars => AloneInv'
  <2> SUFFICES ASSUME TypeOK, RowsNamed, AloneInv, [Next]_vars PROVE AloneInv'
    OBVIOUS
  <2>1. ASSUME NEW l \in Loops, LoopStep(l) PROVE AloneInv'
    BY <2>1, ThreadStepAlone
  <2>2. CASE WorkerCrash
    <3>1. AloneKept
      BY <2>2, RebootIdle, RebootAlone DEF WorkerCrash, tableVars, AloneKept, HoldKept
    <3> QED
      BY <3>1, AloneInvKept
  <2> QED
    BY <2>1, <2>2, OtherStepAlone DEF Next
<1> QED
  BY <1>1, <1>2, TypeCorrect, HoldInvariant, PTL DEF Spec

\* In the one-process layout, if no live run outlasts the stale cutoff, no
\* release of orphans ever settles the row of a job that is being executed:
\* run_forever's comment "Nothing of ours is in flight yet" is then true.
THEOREM ExecutedRowsRun ==
    ASSUME Role = "all", ~SlowRuns
    PROVE  Spec => []HeldRowsRun
<1>1. AloneInv => HeldRowsRun
  BY DEF AloneInv
<1> QED
  BY <1>1, AloneInvariant, PTL

-----------------------------------------------------------------------------
(* Run records.  A record enqueue_sync created belongs to one call, later  *)
(* to one row: no two of them name it, and it exists.                      *)

RunInv ==
    /\ \A j \in JobId : jobStatus[j] = "absent" => jobRun[j] = NoRun
    /\ \A j, k \in JobId : jobRun[j] = jobRun[k] /\ jobRun[j] # NoRun => j = k
    /\ \A c, d \in Callers : callerRun[c] = callerRun[d] /\ callerRun[c] # NoRun => c = d
    /\ \A j \in JobId, c \in Callers : jobRun[j] = callerRun[c] => jobRun[j] = NoRun
    /\ \A j \in JobId : jobRun[j] # NoRun => runStatus[jobRun[j]] # "absent"
    /\ \A c \in Callers : callerRun[c] # NoRun => runStatus[callerRun[c]] # "absent"

\* A step after which no row or call names a record it did not name before,
\* and no record or row is gone.
NamesKept ==
    /\ jobRun' = jobRun
    /\ \A c \in Callers : callerRun'[c] = callerRun[c] \/ callerRun'[c] = NoRun
    /\ \A j \in JobId : jobStatus'[j] = "absent" => jobStatus[j] = "absent"
    /\ \A r \in RunId : runStatus[r] # "absent" => runStatus'[r] # "absent"

LEMMA NamedRuns ==
    ASSUME TypeOK
    PROVE  /\ \A j \in JobId : jobRun[j] # NoRun => jobRun[j] \in 1..MaxRuns
           /\ \A c \in Callers : callerRun[c] # NoRun => callerRun[c] \in 1..MaxRuns
           /\ 1..MaxRuns \subseteq RunId
           /\ NoRun \notin 1..MaxRuns
  BY BoundsAssumption DEF TypeOK, NoRun, RunId

LEMMA RunInvKept == ASSUME TypeOK, RunInv, NamesKept PROVE RunInv'
  BY NamedRuns DEF RunInv, NamesKept

LEMMA AddRunNames ==
    ASSUME TypeOK, RunInv, NEW c \in Callers, AddRun(c)
    PROVE  RunInv'
<1>1. PICK r \in 1..MaxRuns : /\ runStatus[r] = "absent"
                              /\ runStatus' = [runStatus EXCEPT ![r] = "queued"]
                              /\ callerRun' = [callerRun EXCEPT ![c] = r]
  BY DEF AddRun, NextId
<1>2. UNCHANGED <<jobRun, jobStatus>>
  BY DEF AddRun, tableVars
<1>3. r \in RunId /\ r # NoRun
  BY NamedRuns
<1>4. /\ \A j \in JobId : jobRun[j] # r
      /\ \A d \in Callers : callerRun[d] # r
  BY <1>1, <1>3 DEF RunInv
<1>5. /\ \A d \in Callers : callerRun'[d] = IF d = c THEN r ELSE callerRun[d]
      /\ \A k \in RunId : runStatus'[k] = IF k = r THEN "queued" ELSE runStatus[k]
  BY <1>1 DEF TypeOK
<1> QED
  BY <1>2, <1>3, <1>4, <1>5, NamedRuns DEF RunInv

LEMMA AddJobNames ==
    ASSUME TypeOK, RunInv, NEW c \in Callers, AddJob(c)
    PROVE  RunInv'
<1>1. PICK j \in JobId : /\ jobStatus[j] = "absent"
                         /\ jobStatus' = [jobStatus EXCEPT ![j] = "queued"]
                         /\ jobRun' = [jobRun EXCEPT ![j] = callerRun[c]]
  BY DEF AddJob, NextId
<1>2. callerRun' = [callerRun EXCEPT ![c] = NoRun] /\ runStatus' = runStatus
  BY DEF AddJob, runVars
<1>3. /\ \A d \in Callers : callerRun'[d] = IF d = c THEN NoRun ELSE callerRun[d]
      /\ \A k \in JobId : jobRun'[k] = IF k = j THEN callerRun[c] ELSE jobRun[k]
      /\ \A k \in JobId : jobStatus'[k] = "absent" => k # j /\ jobStatus[k] = "absent"
  BY <1>1, <1>2 DEF TypeOK
<1> QED
  BY <1>1, <1>2, <1>3 DEF RunInv

\* Loops write verdicts and "running" over a run record, never anything else,
\* and rows only leave the queue under them.
LEMMA LoopStepNames ==
    ASSUME TypeOK, NEW l \in Loops, LoopStep(l)
    PROVE  NamesKept
<1> USE DEF tableVars, runVars, loopVars, callerVars
<1> DEFINE Calls == \A c \in Callers : callerRun'[c] = callerRun[c] \/ callerRun'[c] = NoRun
           Rows == \A j \in JobId : jobStatus'[j] = "absent" => jobStatus[j] = "absent"
           Runs == \A r \in RunId : runStatus[r] # "absent" => runStatus'[r] # "absent"
<1>1. CASE LoopSelect(l) \/ LoopRelease(l)
  BY <1>1 DEF LoopSelect, LoopRelease, ReleaseRows, ReleaseFails, NamesKept, TypeOK
<1>2. CASE ClaimFails(l) \/ FinishFails(l)
  <2>1. Calls
    BY <1>2 DEF ClaimFails, FinishFails, LoopDies, Reboot
  <2>2. jobRun' = jobRun /\ runStatus' = runStatus /\ Rows
    BY <1>2 DEF ClaimFails, FinishFails, TypeOK
  <2> QED
    BY <2>1, <2>2 DEF NamesKept
<1>3. CASE ClaimJob(l) \/ AcquireLock(l) \/ RefuseSync(l) \/ IdentityDone(l) \/ ReleaseLock(l)
  BY <1>3 DEF ClaimJob, AcquireLock, RefuseSync, IdentityDone, ReleaseLock, NamesKept, TypeOK
<1>4. CASE EnterRun(l) \/ EnterFails(l) \/ CloseRun(l) \/ ReportRun(l)
  <2>1. UNCHANGED <<jobRun, callerRun, jobStatus>>
    BY <1>4 DEF EnterRun, EnterFails, CloseRun, ReportRun
  <2>2. Runs
    BY <1>4 DEF EnterRun, EnterFails, CloseRun, ReportRun, Closed, TypeOK
  <2> QED
    BY <2>1, <2>2 DEF NamesKept
<1>5. CASE FinishJob(l) \/ FailRun(l)
  BY <1>5 DEF FinishJob, FailRun, Settled, NamesKept, TypeOK
<1> QED
  BY <1>1, <1>2, <1>3, <1>4, <1>5 DEF LoopStep

LEMMA OtherStepNames ==
    ASSUME TypeOK, [Next]_vars, ~\E l \in Loops : LoopStep(l),
           ~\E c \in Callers : AddRun(c) \/ AddJob(c)
    PROVE  NamesKept
<1> USE DEF tableVars, runVars, loopVars, callerVars, NamesKept
<1>1. ASSUME NEW c \in Callers, EnqueueStep(c) PROVE NamesKept
  BY <1>1 DEF EnqueueStep, BeginSync, BeginIdentity, Begin, EnqueueFails, TypeOK
<1>2. CASE PollRelease
  BY <1>2 DEF PollRelease, ReleaseRows, ReleaseFails, TypeOK
<1>3. CASE PollSelect \/ PollGoesOn \/ PollSkips \/ ReconcileGoesOn
  BY <1>3 DEF PollSelect, PollGoesOn, PollSkips, ReconcileGoesOn, CallerStep
<1>4. CASE (\E j \in JobId : GoStale(j)) \/ UNCHANGED vars
  BY <1>4 DEF GoStale, vars
<1>5. CASE WorkerCrash \/ WebCrash
  BY <1>5 DEF WorkerCrash, WebCrash, Reboot
<1> QED
  BY <1>1, <1>2, <1>3, <1>4, <1>5 DEF Next

LEMMA RunInvariant == Spec => []RunInv
<1>1. Init => RunInv
  BY DEF Init, RunInv
<1>2. TypeOK /\ RunInv /\ [Next]_vars => RunInv'
  BY LoopStepNames, OtherStepNames, RunInvKept, AddRunNames, AddJobNames
<1> QED
  BY <1>1, <1>2, TypeCorrect, PTL DEF Spec

-----------------------------------------------------------------------------
(* "done" is written by the executor that saw its run closed, and a row    *)
(* that reads "done" has no executor left to open the run again.           *)

\* The loop has seen its sync's verdict committed and will say "done".
SawVerdict(l) ==
    /\ loopPc[l] \in {"report", "leave", "finish"}
    /\ IsSync(l)
    /\ loopPc[l] = "report" \/ outcome[l] = "done"

DoneInv ==
    /\ DoneMeansClosed
    /\ \A j \in JobId : jobStatus[j] = "done" => ~Live(j)
    /\ \A l \in Loops : SawVerdict(l) => runStatus[jobRun[loopJob[l]]] \in Closed

\* A step after which only rows done before are done, only loops that saw
\* their verdict before have, every executor had its row, and no verdict of
\* theirs is gone.
DoneKept ==
    /\ jobRun' = jobRun
    /\ \A j \in JobId : jobStatus'[j] = "done" => jobStatus[j] = "done"
    /\ \A l \in Loops : Working(l)' => Working(l) /\ loopJob'[l] = loopJob[l]
    /\ \A l \in Loops : SawVerdict(l)' => SawVerdict(l)
    /\ \A j \in JobId :
          /\ jobRun[j] # NoRun
          /\ runStatus[jobRun[j]] \in Closed
          /\ jobStatus[j] = "done" \/ \E l \in Loops : SawVerdict(l) /\ loopJob[l] = j
          => runStatus'[jobRun[j]] \in Closed

LEMMA DoneInvKept == ASSUME TypeOK, RowsNamed, DoneInv, DoneKept PROVE DoneInv'
<1> USE DEF DoneInv, DoneKept
<1>1. DoneMeansClosed'
  BY DEF DoneMeansClosed
<1>2. \A j \in JobId : jobStatus'[j] = "done" => ~Live(j)'
  BY DEF Live
<1>3. ASSUME NEW l \in Loops, SawVerdict(l)'
      PROVE  runStatus'[jobRun'[loopJob'[l]]] \in Closed
  <2>1. SawVerdict(l) /\ Working(l)' /\ Working(l)
    BY <1>3 DEF SawVerdict, Working
  <2>2. loopJob'[l] = loopJob[l] /\ loopJob[l] \in JobId /\ jobRun[loopJob[l]] # NoRun
    BY <2>1 DEF RowsNamed, SawVerdict, IsSync
  <2> QED
    BY <2>1, <2>2
<1> QED
  BY <1>1, <1>2, <1>3

\* The record a loop inside run() writes is that of no other row, whether
\* its job is a sync or an identity job.
LEMMA OwnRecord ==
    ASSUME TypeOK, RunInv, NEW i \in JobId, NEW j \in JobId,
           jobRun[j] # NoRun, RunOf(i) = jobRun[j]
    PROVE  i = j
<1>1. jobRun[j] \in 1..MaxRuns
  BY NamedRuns
<1>2. jobRun[i] # NoRun
  BY <1>1, BoundsAssumption DEF RunOf, JobId
<1> QED
  BY <1>2 DEF RunOf, RunInv

LEMMA LoopStepDone ==
    ASSUME TypeOK, RowsNamed, HoldInv, RunInv, DoneInv, NEW l \in Loops, LoopStep(l)
    PROVE  DoneInv'
<1> USE DEF tableVars, runVars, loopVars, callerVars
<1> DEFINE i == loopJob[l]
           Same == \A k \in Loops : Working(k)' => Working(k) /\ loopJob'[k] = loopJob[k]
           Saw == \A k \in Loops : SawVerdict(k)' => SawVerdict(k)
<1>1. CASE LoopSelect(l) \/ LoopRelease(l)
  <2>1. /\ jobRun' = jobRun /\ loopJob' = loopJob /\ outcome' = outcome
        /\ \A k \in Loops : loopPc'[k] = loopPc[k] \/ loopPc'[k] \in {"release", "claim"}
    BY <1>1 DEF LoopSelect, LoopRelease, ReleaseRows, ReleaseFails, TypeOK
  <2>2. Same /\ Saw
    BY <2>1 DEF Working, SawVerdict, IsSync
  <2>3. \A j \in JobId : jobStatus'[j] = "done" => jobStatus[j] = "done"
    BY <1>1 DEF LoopSelect, LoopRelease, ReleaseRows, ReleaseFails, TypeOK
  <2>4. \A r \in RunId : runStatus[r] \in Closed => runStatus'[r] \in Closed
    BY <1>1 DEF LoopSelect, LoopRelease, ReleaseRows, ReleaseFails, Closed, TypeOK
  <2> QED
    BY <2>1, <2>2, <2>3, <2>4, NamedRuns, DoneInvKept DEF DoneKept
<1>2. CASE ClaimJob(l)
  <2>1. PICK j \in JobId : /\ Oldest(j)
                           /\ jobStatus' = [jobStatus EXCEPT ![j] = "running"]
                           /\ loopJob' = [loopJob EXCEPT ![l] = j]
    BY <1>2 DEF ClaimJob
  <2>2. loopPc' = [loopPc EXCEPT ![l] = "execute"] /\ UNCHANGED <<jobRun, runStatus, outcome>>
    BY <1>2 DEF ClaimJob
  <2>3. \A k \in JobId : jobStatus'[k] = "done" => jobStatus[k] = "done" /\ k # j
    BY <2>1 DEF TypeOK
  <2>4. \A k \in Loops : k # l => loopPc'[k] = loopPc[k] /\ loopJob'[k] = loopJob[k]
    BY <2>1, <2>2 DEF TypeOK
  <2>5. loopJob'[l] = j /\ loopPc'[l] = "execute"
    BY <2>1, <2>2 DEF TypeOK
  <2>6. \A k \in JobId : jobStatus'[k] = "done" => ~Live(k)'
    BY <2>3, <2>4, <2>5 DEF DoneInv, Live, Working
  <2>7. DoneMeansClosed'
    BY <2>2, <2>3 DEF DoneInv, DoneMeansClosed
  <2>8. \A k \in Loops : SawVerdict(k)' => SawVerdict(k) /\ loopJob'[k] = loopJob[k]
    BY <2>2, <2>4, <2>5 DEF SawVerdict, IsSync
  <2> QED
    BY <2>2, <2>6, <2>7, <2>8 DEF DoneInv
<1>3. CASE ClaimFails(l) \/ FinishFails(l)
  <2>1. LoopDies(l) /\ UNCHANGED <<jobRun, runStatus>>
    BY <1>3 DEF ClaimFails, FinishFails
  <2>2. \A j \in JobId : jobStatus'[j] = "done" => jobStatus[j] = "done"
    BY <1>3 DEF ClaimFails, FinishFails, TypeOK
  <2>3. Saw
    BY <2>1 DEF LoopDies, Reboot, BootPc, SawVerdict, IsSync, TypeOK
  <2> QED
    BY <2>1, <2>2, <2>3, LoopDiesHold, DoneInvKept DEF DoneKept
<1>4. CASE AcquireLock(l) \/ RefuseSync(l) \/ IdentityDone(l) \/ ReleaseLock(l)
  <2>1. UNCHANGED <<jobRun, runStatus, jobStatus, loopJob>>
    BY <1>4 DEF AcquireLock, RefuseSync, IdentityDone, ReleaseLock
  <2>2. Same /\ Saw
    BY <1>4 DEF AcquireLock, RefuseSync, IdentityDone, ReleaseLock, AfterRun, Goto, Working,
                SawVerdict, IsSync, TypeOK
  <2> QED
    BY <2>1, <2>2, DoneInvKept DEF DoneKept
<1>5. CASE EnterRun(l) \/ EnterFails(l)
  <2>1. UNCHANGED <<jobRun, jobStatus, loopJob>> /\ loopPc[l] = "enter" /\ i \in JobId
    BY <1>5 DEF EnterRun, EnterFails, RowsNamed
  <2>2. Same /\ Saw
    BY <1>5 DEF EnterRun, EnterFails, AfterRun, Goto, Working, SawVerdict, IsSync, TypeOK
  <2>3. \A r \in RunId : r # RunOf(i) => runStatus'[r] = runStatus[r]
    BY <1>5 DEF EnterRun, EnterFails, TypeOK
  <2>4. ASSUME NEW j \in JobId, jobRun[j] # NoRun, runStatus[jobRun[j]] \in Closed,
               jobStatus[j] = "done" \/ \E k \in Loops : SawVerdict(k) /\ loopJob[k] = j
        PROVE  runStatus'[jobRun[j]] \in Closed
    <3>1. Working(l) /\ Live(i)
      BY <2>1 DEF Live, Working
    <3>2. j # i
      <4>1. CASE jobStatus[j] = "done"
        BY <3>1, <4>1 DEF DoneInv
      <4>2. CASE \E k \in Loops : SawVerdict(k) /\ loopJob[k] = j
        BY <2>1, <3>1, <4>2 DEF HoldInv, OneHolder, SawVerdict, Working
      <4> QED
        BY <2>4, <4>1, <4>2
    <3> QED
      BY <2>1, <2>3, <2>4, <3>2, OwnRecord, NamedRuns
  <2> QED
    BY <2>1, <2>2, <2>4, DoneInvKept DEF DoneKept
<1>6. CASE CloseRun(l)
  <2>1. UNCHANGED <<jobRun, jobStatus, loopJob>> /\ loopPc[l] = "sync" /\ i \in JobId
    BY <1>6 DEF CloseRun, RowsNamed
  <2>2. Same
    BY <1>6 DEF CloseRun, Goto, Working, TypeOK
  <2>3. \A r \in RunId : runStatus[r] \in Closed => runStatus'[r] \in Closed
    BY <1>6 DEF CloseRun, Closed, TypeOK
  <2>4. SawVerdict(l)' => runStatus'[jobRun'[i]] \in Closed
    <3>1. CASE Goto(l, "report")
      <4>1. PICK verdict \in Closed : runStatus' = [runStatus EXCEPT ![RunOf(i)] = verdict]
        BY <1>6, <3>1 DEF CloseRun, Goto, TypeOK
      <4>2. IsSync(l)' => RunOf(i) = jobRun[i] /\ jobRun[i] \in RunId
        BY <2>1, NamedRuns DEF IsSync, RunOf
      <4> QED
        BY <2>1, <4>1, <4>2 DEF SawVerdict, TypeOK
    <3>2. CASE ~Goto(l, "report")
      BY <1>6, <3>2 DEF CloseRun, Goto, SawVerdict, TypeOK
    <3> QED
      BY <3>1, <3>2
  <2>5. \A k \in Loops : k # l /\ SawVerdict(k)' => SawVerdict(k) /\ loopJob[k] \in JobId
    BY <1>6, <2>1 DEF CloseRun, Goto, SawVerdict, IsSync, RowsNamed, TypeOK
  <2>6. \A k \in Loops : SawVerdict(k)' => runStatus'[jobRun'[loopJob'[k]]] \in Closed
    BY <2>1, <2>3, <2>4, <2>5, NamedRuns DEF DoneInv, SawVerdict, IsSync
  <2>7. DoneMeansClosed'
    BY <2>1, <2>3, NamedRuns DEF DoneInv, DoneMeansClosed
  <2>8. \A j \in JobId : jobStatus'[j] = "done" => ~Live(j)'
    BY <2>1, <2>2 DEF DoneInv, Live
  <2> QED
    BY <2>6, <2>7, <2>8 DEF DoneInv
<1>7. CASE ReportRun(l) \/ FailRun(l)
  <2>1. UNCHANGED <<jobRun, jobStatus>>
    BY <1>7 DEF ReportRun, FailRun
  <2>2. Same /\ Saw
    BY <1>7 DEF ReportRun, FailRun, Goto, Working, SawVerdict, IsSync, TypeOK
  <2>3. \A r \in RunId : runStatus[r] \in Closed => runStatus'[r] \in Closed
    BY <1>7 DEF ReportRun, FailRun, Closed, Open, TypeOK
  <2> QED
    BY <2>1, <2>2, <2>3, NamedRuns, DoneInvKept DEF DoneKept
<1>8. CASE FinishJob(l)
  <2>1. /\ UNCHANGED <<jobRun, runStatus>> /\ loopPc[l] = "finish" /\ i \in JobId
        /\ jobStatus' = [jobStatus EXCEPT ![i] = outcome[l]]
    BY <1>8 DEF FinishJob, RowsNamed
  <2>2. Same /\ Saw /\ ~Working(l)'
    BY <1>8 DEF FinishJob, Goto, Working, SawVerdict, IsSync, TypeOK
  <2>3. \A k \in Loops : Working(k)' => loopJob'[k] # i
    BY <2>1, <2>2 DEF HoldInv, OneHolder, Working
  <2>4. \A j \in JobId : jobStatus'[j] = "done" => ~Live(j)'
    <3>1. \A j \in JobId : j # i => jobStatus'[j] = jobStatus[j]
      BY <2>1 DEF TypeOK
    <3> QED
      BY <2>2, <2>3, <3>1 DEF DoneInv, Live
  <2>5. DoneMeansClosed'
    <3>1. \A j \in JobId : jobStatus'[j] = "done" => jobStatus[j] = "done" \/ (j = i /\ outcome[l] = "done")
      BY <2>1 DEF TypeOK
    <3> QED
      BY <2>1, <3>1 DEF DoneInv, DoneMeansClosed, SawVerdict, IsSync
  <2>6. \A k \in Loops : SawVerdict(k)' => SawVerdict(k) /\ loopJob'[k] = loopJob[k]
    BY <2>2 DEF SawVerdict, Working
  <2> QED
    BY <2>1, <2>4, <2>5, <2>6 DEF DoneInv
<1> QED
  BY <1>1, <1>2, <1>3, <1>4, <1>5, <1>6, <1>7, <1>8 DEF LoopStep

LEMMA OtherStepDone ==
    ASSUME TypeOK, RowsNamed, HoldInv, RunInv, DoneInv, [Next]_vars,
           ~\E l \in Loops : LoopStep(l)
    PROVE  DoneInv'
<1> USE DEF tableVars, runVars, loopVars, callerVars
<1>1. CASE WorkerCrash
  <2>1. \A l \in Loops : ~SawVerdict(l)'
    BY <1>1, RebootIdle DEF WorkerCrash, SawVerdict, Working
  <2> QED
    BY <1>1, <2>1, RebootIdle, DoneInvKept DEF WorkerCrash, DoneKept
<1>2. CASE ~WorkerCrash
  <2>1. /\ loopJob' = loopJob
        /\ \A l \in Loops : \/ loopPc'[l] = loopPc[l]
                            \/ loopPc[l] = "dead" /\ loopPc'[l] = "select"
    BY <1>2, OtherStepHold DEF Next
  <2>2. outcome' = outcome
    BY <1>2 DEF Next, EnqueueStep, BeginSync, BeginIdentity, Begin, AddRun, AddJob, EnqueueFails,
                PollSelect, PollRelease, PollGoesOn, PollSkips, ReconcileGoesOn, CallerStep,
                GoStale, WebCrash, vars
  <2>3. \A l \in Loops : Working(l)' => Working(l)
    BY <2>1 DEF Working
  <2>4. CASE \E c \in Callers : AddJob(c)
    <3>1. PICK c \in Callers : AddJob(c)
      BY <2>4
    <3>2. PICK j \in JobId : /\ jobStatus[j] = "absent"
                             /\ jobStatus' = [jobStatus EXCEPT ![j] = "queued"]
                             /\ jobRun' = [jobRun EXCEPT ![j] = callerRun[c]]
      BY <3>1 DEF AddJob, NextId
    <3>3. runStatus' = runStatus
      BY <3>1 DEF AddJob
    <3>4. \A k \in JobId : /\ k # j => jobStatus'[k] = jobStatus[k] /\ jobRun'[k] = jobRun[k]
                           /\ jobStatus'[k] = "done" => k # j
      BY <3>2 DEF TypeOK
    <3>5. \A l \in Loops : Working(l) => loopJob[l] # j /\ loopJob[l] \in JobId
      BY <3>2 DEF HoldInv, Left, RowsNamed, Working
    <3>6. \A l \in Loops : SawVerdict(l)' => /\ SawVerdict(l) /\ Working(l)
                                             /\ jobRun'[loopJob'[l]] = jobRun[loopJob[l]]
      BY <2>1, <2>2, <3>4, <3>5 DEF SawVerdict, IsSync, Working
    <3> QED
      BY <2>1, <2>3, <3>3, <3>4, <3>6 DEF DoneInv, DoneMeansClosed, Live
  <2>5. CASE ~\E c \in Callers : AddJob(c)
    <3>1. jobRun' = jobRun
      BY <1>2, <2>5 DEF Next, EnqueueStep, BeginSync, BeginIdentity, Begin, AddRun, EnqueueFails,
                PollSelect, PollRelease, PollGoesOn, PollSkips, ReconcileGoesOn, CallerStep,
                ReleaseRows, ReleaseFails, GoStale, WebCrash, vars
    <3>2. \A j \in JobId : jobStatus'[j] = "done" => jobStatus[j] = "done"
      BY <1>2, <2>5 DEF Next, EnqueueStep, BeginSync, BeginIdentity, Begin, AddRun, EnqueueFails,
                PollSelect, PollRelease, PollGoesOn, PollSkips, ReconcileGoesOn, CallerStep,
                ReleaseRows, ReleaseFails, GoStale, WebCrash, vars, TypeOK
    <3>3. \A r \in RunId : runStatus[r] \in Closed => runStatus'[r] \in Closed
      BY <1>2, <2>5 DEF Next, EnqueueStep, BeginSync, BeginIdentity, Begin, AddRun, NextId,
                EnqueueFails, PollSelect, PollRelease, PollGoesOn, PollSkips, ReconcileGoesOn,
                CallerStep, ReleaseRows, ReleaseFails, GoStale, WebCrash, vars, Closed, TypeOK
    <3>4. \A l \in Loops : SawVerdict(l)' => SawVerdict(l)
      BY <2>1, <2>2, <3>1 DEF SawVerdict, IsSync
    <3> QED
      BY <2>1, <2>3, <3>1, <3>2, <3>3, <3>4, NamedRuns, DoneInvKept DEF DoneKept
  <2> QED
    BY <2>4, <2>5
<1> QED
  BY <1>1, <1>2

\* A row recorded "done" has its run record closed, in both layouts, however
\* slow a run is and whatever is released, raises or dies (finish_job is
\* called with "done" only after run() returned).
THEOREM DoneRowsClosed == Spec => []DoneMeansClosed
<1>1. Init => DoneInv
  BY DEF Init, DoneInv, DoneMeansClosed, SawVerdict, BootPc
<1>2. TypeOK /\ HoldInv /\ RowsNamed /\ RunInv /\ DoneInv /\ [Next]_vars => DoneInv'
  BY LoopStepDone, OtherStepDone
<1>3. DoneInv => DoneMeansClosed
  BY DEF DoneInv
<1> QED
  BY <1>1, <1>2, <1>3, TypeCorrect, HoldInvariant, RunInvariant, PTL DEF Spec

-----------------------------------------------------------------------------
(* The lock leaks only where run() marks its record, outside the try block *)
(* whose finally gives the lock back.                                      *)

LEMMA LoopStepHolder ==
    ASSUME "enter" \notin FaultPoints, TypeOK, LockInv, LockHasHolder,
           NEW l \in Loops, LoopStep(l)
    PROVE  LockHasHolder'
<1> USE DEF loopVars, callerVars
<1>1. CASE LoopSelect(l) \/ LoopRelease(l) \/ ClaimJob(l) \/ RefuseSync(l) \/ IdentityDone(l)
           \/ FinishJob(l) \/ FailRun(l)
  <2>1. active' = active /\ ~InSync(l)
    BY <1>1 DEF LoopSelect, LoopRelease, ClaimJob, RefuseSync, IdentityDone, FinishJob,
                FailRun, InSync
  <2>2. \A k \in Loops : k # l => loopPc'[k] = loopPc[k]
    BY <1>1 DEF LoopSelect, LoopRelease, ClaimJob, RefuseSync, IdentityDone, FinishJob,
                FailRun, Goto, TypeOK
  <2> QED
    BY <2>1, <2>2 DEF LockHasHolder, InSync
<1>2. CASE ClaimFails(l) \/ FinishFails(l)
  <2>1. ~InSync(l) /\ LoopDies(l)
    BY <1>2 DEF ClaimFails, FinishFails, InSync
  <2>2. CASE Reboot
    BY <2>2 DEF Reboot, LockHasHolder
  <2>3. CASE ~Reboot
    <3>1. active' = active /\ \A k \in Loops : k # l => loopPc'[k] = loopPc[k]
      BY <2>1, <2>3 DEF LoopDies, TypeOK
    <3> QED
      BY <2>1, <3>1 DEF LockHasHolder, InSync
  <2> QED
    BY <2>2, <2>3
<1>3. CASE AcquireLock(l) \/ EnterRun(l) \/ CloseRun(l) \/ ReportRun(l)
  <2>1. loopPc'[l] \in {"enter", "sync", "report", "leave"}
    BY <1>3 DEF AcquireLock, EnterRun, CloseRun, ReportRun, Goto, TypeOK
  <2> QED
    BY <2>1 DEF LockHasHolder, InSync
<1>4. CASE EnterFails(l)
  BY <1>4 DEF EnterFails, Fault
<1>5. CASE ReleaseLock(l)
  BY <1>5 DEF ReleaseLock, LockHasHolder
<1> QED
  BY <1>1, <1>2, <1>3, <1>4, <1>5 DEF LoopStep

LEMMA OtherStepHolder ==
    ASSUME TypeOK, LockHasHolder, [Next]_vars, ~\E l \in Loops : LoopStep(l)
    PROVE  LockHasHolder'
<1> USE DEF loopVars, callerVars
<1>1. CASE WorkerCrash
  BY <1>1 DEF WorkerCrash, Reboot, LockHasHolder
<1>2. CASE ~WorkerCrash
  <2>1. \A l \in Loops : \/ loopPc'[l] = loopPc[l]
                         \/ loopPc[l] = "dead" /\ loopPc'[l] = "select"
    BY <1>2, OtherStepHold DEF Next
  <2>2. active' = active
    BY <1>2 DEF Next, EnqueueStep, BeginSync, BeginIdentity, Begin, AddRun, AddJob, EnqueueFails,
                PollSelect, PollRelease, PollGoesOn, PollSkips, ReconcileGoesOn, CallerStep,
                GoStale, WebCrash, vars
  <2> QED
    BY <2>1, <2>2 DEF LockHasHolder, InSync
<1> QED
  BY <1>1, <1>2

\* Unless the database raises while run() marks its record running, the lock
\* is held only by a loop inside run(): every other exception of
\* orchestrator.py and worker.py, and every crash, gives it back.
THEOREM LockLeaksOnlyAtEntry ==
    ASSUME "enter" \notin FaultPoints
    PROVE  Spec => []LockHasHolder
<1>1. Init => LockHasHolder
  BY DEF Init, LockHasHolder
<1>2. TypeOK /\ LockInv /\ LockHasHolder /\ [Next]_vars => LockHasHolder'
  BY LoopStepHolder, OtherStepHolder
<1> QED
  BY <1>1, <1>2, TypeCorrect, LockInvariant, PTL DEF Spec

\* In the one-process layout the loop of the main thread never runs:
\* start_worker only ever starts the other.
MainDead == loopPc["main"] = "dead"

LEMMA MainStaysDead ==
    ASSUME Role = "all"
    PROVE  Spec => []MainDead
<1> USE DEF MainDead, loopVars, callerVars
<1>1. Init => MainDead
  BY DEF Init, BootPc, BootLoop, Loops
<1>2. TypeOK /\ MainDead /\ [Next]_vars => MainDead'
  <2> SUFFICES ASSUME TypeOK, MainDead, [Next]_vars PROVE MainDead'
    OBVIOUS
  <2>1. ASSUME NEW l \in Loops, LoopStep(l) PROVE MainDead'
    <3>1. l = "thread"
      BY <2>1 DEF LoopStep, LoopSelect, LoopRelease, ClaimJob, ClaimFails, AcquireLock,
            RefuseSync, IdentityDone, EnterRun, EnterFails, CloseRun, ReportRun, ReleaseLock,
            FinishJob, FailRun, FinishFails, Loops
    <3>2. CASE ClaimFails(l) \/ FinishFails(l)
      BY <3>1, <3>2, RebootAlone DEF ClaimFails, FinishFails, LoopDies, TypeOK, Loops
    <3>3. CASE ~ClaimFails(l) /\ ~FinishFails(l)
      BY <2>1, <3>1, <3>3 DEF LoopStep, LoopSelect, LoopRelease, ClaimJob, AcquireLock,
            RefuseSync, IdentityDone, EnterRun, EnterFails, CloseRun, ReportRun, ReleaseLock,
            AfterRun, FinishJob, FailRun, Goto, TypeOK, Loops
    <3> QED
      BY <3>2, <3>3
  <2>2. CASE WorkerCrash
    BY <2>2, RebootAlone DEF WorkerCrash
  <2>3. ASSUME NEW c \in Callers, NEW next \in {"run", "identity"}, Begin(c, next)
        PROVE  MainDead'
    BY <2>3 DEF Begin, StartWorker, TypeOK, Loops
  <2>4. ASSUME NEW c \in Callers, AddRun(c) \/ AddJob(c) \/ EnqueueFails(c) PROVE MainDead'
    BY <2>4 DEF AddRun, AddJob, EnqueueFails
  <2>5. CASE \/ PollSelect \/ PollRelease \/ PollGoesOn \/ PollSkips \/ ReconcileGoesOn
             \/ \E j \in JobId : GoStale(j)
             \/ WebCrash \/ UNCHANGED vars
    BY <2>5 DEF PollSelect, PollRelease, PollGoesOn, PollSkips, ReconcileGoesOn, CallerStep,
                GoStale, WebCrash, vars
  <2> QED
    BY <2>1, <2>2, <2>3, <2>4, <2>5 DEF Next, EnqueueStep, BeginSync, BeginIdentity
<1> QED
  BY <1>1, <1>2, TypeCorrect, PTL DEF Spec

\* In the one-process layout a claimed sync finds the lock free, whatever else
\* fails: there is one loop, and it gives the lock back before it claims.
THEOREM ClaimedSyncsRun ==
    ASSUME Role = "all", "enter" \notin FaultPoints
    PROVE  Spec => []NeverRefused
<1>1. MainDead /\ LockHasHolder => NeverRefused
  BY DEF MainDead, LockHasHolder, NeverRefused, InSync, Loops
<1> QED
  BY <1>1, MainStaysDead, LockLeaksOnlyAtEntry, PTL

-----------------------------------------------------------------------------
(* The queue keeps its promise.  In the one-process layout the rows that a *)
(* release is about to settle are running or settled as errors already,    *)
(* and no executor holds them: each commit of the code is one step of      *)
(* JobLedger, or none.                                                     *)

VictimInv ==
    /\ \A x \in Releasers : \A j \in victims[x] : jobStatus[j] \in {"running", "error"}
    /\ victims["main"] = {}
    /\ loopPc["thread"] # "release" => victims["thread"] = {}

LEMMA OnlyThread ==
    ASSUME MainDead, NEW l \in Loops, LoopStep(l)
    PROVE  l = "thread" /\ \A k \in Loops : k # l => ~Working(k)
<1>1. l = "thread"
  BY DEF MainDead, LoopStep, LoopSelect, LoopRelease, ClaimJob, ClaimFails, AcquireLock,
         RefuseSync, IdentityDone, EnterRun, EnterFails, CloseRun, ReportRun, ReleaseLock,
         FinishJob, FailRun, FinishFails, Loops
<1> QED
  BY <1>1 DEF MainDead, Working, Loops

\* What a release does to the rows, when it is not the main loop's.
LEMMA ReleaseVictims ==
    ASSUME TypeOK, VictimInv, NEW x \in Releasers, ReleaseRows(x) \/ ReleaseFails(x)
    PROVE  /\ \A y \in Releasers : \A j \in victims'[y] : jobStatus'[j] \in {"running", "error"}
           /\ victims' = [victims EXCEPT ![x] = {}]
  BY DEF ReleaseRows, ReleaseFails, tableVars, VictimInv, TypeOK

LEMMA RebootVictims == ASSUME TypeOK, Reboot PROVE VictimInv'
  BY DEF Reboot, VictimInv, Releasers, Loops

LEMMA LoopStepVictims ==
    ASSUME TypeOK, RowsNamed, AloneInv, VictimInv, NEW l \in Loops, LoopStep(l)
    PROVE  VictimInv'
<1> USE DEF tableVars, runVars, loopVars, callerVars
<1>1. l = "thread" /\ "thread" \in Loops
  BY OnlyThread DEF AloneInv, MainDead
<1>2. {"main", "thread", "poll"} = Releasers
  BY DEF Releasers, Loops
<1>3. CASE LoopSelect(l)
  BY <1>1, <1>2, <1>3 DEF LoopSelect, Running, VictimInv, TypeOK
<1>4. CASE LoopRelease(l)
  BY <1>1, <1>2, <1>4, ReleaseVictims DEF LoopRelease, VictimInv, TypeOK
<1>5. CASE ClaimFails(l) \/ FinishFails(l)
  <2>1. LoopDies(l) /\ loopPc[l] # "release"
    BY <1>5 DEF ClaimFails, FinishFails
  <2>2. \A j \in JobId : jobStatus[j] \in {"running", "error"} => jobStatus'[j] \in {"running", "error"}
    BY <1>5 DEF ClaimFails, FinishFails, TypeOK
  <2>3. CASE ~Reboot
    BY <1>1, <2>1, <2>2, <2>3 DEF LoopDies, VictimInv, TypeOK
  <2> QED
    BY <2>1, <2>3, RebootVictims
<1>6. CASE FinishJob(l)
  <2>1. loopPc[l] = "finish" /\ loopPc'[l] # "release" /\ UNCHANGED victims
        /\ jobStatus' = [jobStatus EXCEPT ![loopJob[l]] = outcome[l]]
    BY <1>6 DEF FinishJob, Goto, TypeOK
  <2>2. Live(loopJob[l])
    BY <2>1 DEF Live, Working
  <2>3. \A x \in Releasers : loopJob[l] \notin victims[x]
    BY <1>1, <1>2, <2>1, <2>2 DEF VictimInv, AloneInv, StaleInv
  <2>4. \A x \in Releasers : \A j \in victims[x] : jobStatus'[j] = jobStatus[j]
    BY <2>1, <2>3 DEF TypeOK
  <2> QED
    BY <1>1, <2>1, <2>4 DEF VictimInv
<1>7. CASE ~LoopSelect(l) /\ ~LoopRelease(l) /\ ~ClaimFails(l) /\ ~FinishFails(l) /\ ~FinishJob(l)
  <2>1. UNCHANGED victims /\ loopPc[l] # "release" /\ loopPc'[l] # "release"
    BY <1>7 DEF LoopStep, ClaimJob, AcquireLock, RefuseSync, IdentityDone, EnterRun, EnterFails,
                CloseRun, ReportRun, ReleaseLock, AfterRun, FailRun, Goto, TypeOK
  <2>2. \A j \in JobId : jobStatus[j] \in {"running", "error"} => jobStatus'[j] \in {"running", "error"}
    BY <1>7 DEF LoopStep, ClaimJob, AcquireLock, RefuseSync, IdentityDone, EnterRun, EnterFails,
                CloseRun, ReportRun, ReleaseLock, FailRun, TypeOK
  <2> QED
    BY <1>1, <2>1, <2>2 DEF VictimInv, TypeOK
<1> QED
  BY <1>3, <1>4, <1>5, <1>6, <1>7

LEMMA OtherStepVictims ==
    ASSUME TypeOK, VictimInv, [Next]_vars, ~\E l \in Loops : LoopStep(l)
    PROVE  VictimInv'
<1> USE DEF tableVars, runVars, loopVars, callerVars
<1>1. CASE WorkerCrash
  BY <1>1, RebootVictims DEF WorkerCrash
<1>2. CASE ~WorkerCrash
  <2>1. \A l \in Loops : \/ loopPc'[l] = loopPc[l]
                         \/ loopPc[l] = "dead" /\ loopPc'[l] = "select"
    BY <1>2, OtherStepHold DEF Next
  <2>2. loopPc'["thread"] # "release" => victims["thread"] = {}
    BY <2>1 DEF VictimInv, Loops
  <2>3. CASE PollRelease
    <3>1. "poll" \in Releasers /\ "poll" # "thread" /\ "poll" # "main"
      BY DEF Releasers
    <3>2. ReleaseRows("poll") \/ ReleaseFails("poll")
      BY <2>3 DEF PollRelease
    <3>3. victims'["thread"] = victims["thread"] /\ victims'["main"] = victims["main"]
      BY <3>1, <3>2, ReleaseVictims DEF TypeOK, Releasers, Loops
    <3> QED
      BY <2>2, <3>1, <3>2, <3>3, ReleaseVictims DEF VictimInv
  <2>4. CASE PollSelect
    <3>1. /\ \A x \in Releasers : x # "poll" => victims'[x] = victims[x]
          /\ victims'["poll"] \subseteq Running /\ jobStatus' = jobStatus
      BY <2>4 DEF PollSelect, CallerStep, TypeOK, Releasers
    <3> QED
      BY <2>2, <3>1 DEF VictimInv, Running, Releasers, Loops
  <2>5. CASE ~PollRelease /\ ~PollSelect
    <3>1. UNCHANGED victims
      BY <1>2, <2>5 DEF Next, EnqueueStep, BeginSync, BeginIdentity, Begin, AddRun, AddJob,
                EnqueueFails, PollGoesOn, PollSkips, ReconcileGoesOn, CallerStep,
                GoStale, WebCrash, vars
    <3>2. \A j \in JobId : jobStatus[j] \in {"running", "error"} => jobStatus'[j] = jobStatus[j]
      BY <1>2, <2>5 DEF Next, EnqueueStep, BeginSync, BeginIdentity, Begin, AddRun, AddJob, NextId,
                EnqueueFails, PollGoesOn, PollSkips, ReconcileGoesOn, CallerStep,
                GoStale, WebCrash, vars, TypeOK
    <3> QED
      BY <2>2, <3>1, <3>2 DEF VictimInv, TypeOK
  <2> QED
    BY <2>3, <2>4, <2>5
<1> QED
  BY <1>1, <1>2

LEMMA VictimInvariant ==
    ASSUME Role = "all", ~SlowRuns
    PROVE  Spec => []VictimInv
<1>1. Init => VictimInv
  BY DEF Init, VictimInv, Releasers, Loops
<1>2. TypeOK /\ RowsNamed /\ AloneInv /\ VictimInv /\ [Next]_vars => VictimInv'
  BY LoopStepVictims, OtherStepVictims
<1> QED
  BY <1>1, <1>2, TypeCorrect, HoldInvariant, AloneInvariant, PTL DEF Spec

\* The rows some loop is executing: JobLedger's held.
Held == {j \in JobId : Live(j)}

LedgerStep == [Ledger!Next]_(Ledger!ledgerVars)

\* A step that changes no row and gives no loop a row is nothing, or executors
\* dying.
LEMMA AbandonStep ==
    ASSUME jobStatus' = jobStatus,
           \A l \in Loops : Working(l)' => Working(l) /\ loopJob'[l] = loopJob[l]
    PROVE  LedgerStep
<1>1. Held' \subseteq Held
  BY DEF Held, Live
<1> QED
  BY <1>1 DEF LedgerStep, Ledger!Next, Ledger!Abandon, Held

LEMMA ReleaseStep ==
    ASSUME TypeOK, VictimInv, NEW x \in Releasers, ReleaseRows(x) \/ ReleaseFails(x),
           \A j \in victims[x] : ~Live(j), Held' = Held
    PROVE  LedgerStep
<1> USE DEF tableVars
<1>1. CASE ReleaseRows(x)
  <2> DEFINE orphans == {j \in victims[x] : jobStatus[j] = "running"}
  <2>1. \A j \in JobId : j \in victims[x] /\ j \notin orphans => jobStatus[j] = "error"
    BY DEF VictimInv
  <2>2. jobStatus' = [j \in JobId |-> IF j \in orphans THEN "error" ELSE jobStatus[j]]
    BY <1>1, <2>1 DEF ReleaseRows
  <2>3. orphans \in SUBSET JobId /\ orphans \cap Held = {}
    BY DEF TypeOK, Held
  <2>4. Ledger!Release(orphans)
    BY <2>2, <2>3 DEF Ledger!Release, Held
  <2> QED
    BY <2>3, <2>4 DEF LedgerStep, Ledger!Next
<1>2. CASE ReleaseFails(x)
  BY <1>2 DEF ReleaseFails, LedgerStep, Ledger!Next, Ledger!Abandon, Held
<1> QED
  BY <1>1, <1>2

LEMMA LoopStepLedger ==
    ASSUME TypeOK, HoldInv, RowsNamed, AloneInv, VictimInv, NEW l \in Loops, LoopStep(l)
    PROVE  LedgerStep
<1> USE DEF tableVars, runVars, loopVars, callerVars
<1> DEFINE Same == \A k \in Loops : Working(k)' => Working(k) /\ loopJob'[k] = loopJob[k]
<1>1. l = "thread" /\ \A k \in Loops : k # l => ~Working(k)
  BY OnlyThread DEF AloneInv, MainDead
<1>2. CASE LoopSelect(l)
  BY <1>2, AbandonStep DEF LoopSelect, Working, TypeOK
<1>3. CASE LoopRelease(l)
  <2>1. \A k \in Loops : ~Working(k) /\ ~Working(k)'
    BY <1>1, <1>3 DEF LoopRelease, Working, TypeOK
  <2>2. Held' = Held /\ \A j \in victims[l] : ~Live(j)
    BY <2>1 DEF Held, Live
  <2> QED
    BY <1>3, <2>2, ReleaseStep DEF LoopRelease, Releasers
<1>4. CASE ClaimJob(l)
  <2>1. PICK j \in JobId : /\ Oldest(j)
                           /\ jobStatus' = [jobStatus EXCEPT ![j] = "running"]
                           /\ loopJob' = [loopJob EXCEPT ![l] = j]
    BY <1>4 DEF ClaimJob
  <2>2. loopPc' = [loopPc EXCEPT ![l] = "execute"]
    BY <1>4 DEF ClaimJob
  <2>3. \A k \in Loops : Working(k)' => k = l
    BY <1>1, <2>2 DEF Working, TypeOK
  <2>4. loopJob'[l] = j
    BY <2>1 DEF TypeOK
  <2>5. Held' \subseteq Held \cup {j}
    BY <2>3, <2>4 DEF Held, Live
  <2>6. Ledger!Claim(j)
    BY <2>1, <2>5 DEF Ledger!Claim, Oldest, Held
  <2> QED
    BY <2>6 DEF LedgerStep, Ledger!Next
<1>5. CASE ClaimFails(l)
  <2>1. Same
    BY <1>5, LoopDiesHold DEF ClaimFails
  <2>2. CASE jobStatus' = jobStatus
    BY <2>1, <2>2, AbandonStep
  <2>3. CASE \E j \in JobId : Oldest(j) /\ jobStatus' = [jobStatus EXCEPT ![j] = "running"]
    <3>1. PICK j \in JobId : Oldest(j) /\ jobStatus' = [jobStatus EXCEPT ![j] = "running"]
      BY <2>3
    <3>2. Held' \subseteq Held \cup {j}
      BY <2>1 DEF Held, Live
    <3>3. Ledger!Claim(j)
      BY <3>1, <3>2 DEF Ledger!Claim, Oldest, Held
    <3> QED
      BY <3>3 DEF LedgerStep, Ledger!Next
  <2> QED
    BY <1>5, <2>2, <2>3 DEF ClaimFails
<1>6. CASE FinishFails(l)
  BY <1>6, LoopDiesHold, AbandonStep DEF FinishFails
<1>7. CASE FinishJob(l)
  <2>1. loopPc[l] = "finish" /\ loopJob[l] \in JobId
        /\ jobStatus' = [jobStatus EXCEPT ![loopJob[l]] = outcome[l]]
    BY <1>7 DEF FinishJob, RowsNamed
  <2>2. \A k \in Loops : ~Working(k)'
    BY <1>1, <1>7 DEF FinishJob, Goto, Working, TypeOK
  <2>3. Held = {loopJob[l]} /\ Held' = {}
    BY <1>1, <2>1, <2>2 DEF Held, Live, Working
  <2>4. outcome[l] \in {"done", "error"}
    BY DEF TypeOK, Settled
  <2>5. Ledger!Settle(loopJob[l])
    BY <2>1, <2>3, <2>4 DEF Ledger!Settle, Held
  <2> QED
    BY <2>1, <2>5 DEF LedgerStep, Ledger!Next
<1>8. CASE ~LoopSelect(l) /\ ~LoopRelease(l) /\ ~ClaimJob(l) /\ ~ClaimFails(l)
           /\ ~FinishFails(l) /\ ~FinishJob(l)
  <2>1. Same /\ jobStatus' = jobStatus
    BY <1>8 DEF LoopStep, AcquireLock, RefuseSync, IdentityDone, EnterRun, EnterFails,
                CloseRun, ReportRun, ReleaseLock, AfterRun, FailRun, Goto, Working, TypeOK
  <2> QED
    BY <2>1, AbandonStep
<1> QED
  BY <1>2, <1>3, <1>4, <1>5, <1>6, <1>7, <1>8

LEMMA OtherStepLedger ==
    ASSUME TypeOK, RowsNamed, HoldInv, AloneInv, VictimInv, [Next]_vars,
           ~\E l \in Loops : LoopStep(l)
    PROVE  LedgerStep
<1> USE DEF tableVars, runVars, loopVars, callerVars
<1>1. CASE WorkerCrash
  BY <1>1, RebootIdle, AbandonStep DEF WorkerCrash
<1>2. CASE ~WorkerCrash
  <2>1. /\ loopJob' = loopJob
        /\ \A l \in Loops : \/ loopPc'[l] = loopPc[l]
                            \/ loopPc[l] = "dead" /\ loopPc'[l] = "select"
    BY <1>2, OtherStepHold DEF Next
  <2>2. \A l \in Loops : (Working(l)' <=> Working(l)) /\ loopJob'[l] = loopJob[l]
    BY <2>1 DEF Working
  <2>3. Held' = Held
    BY <2>2 DEF Held, Live
  <2>4. CASE PollRelease
    BY <2>3, <2>4, ReleaseStep DEF PollRelease, Releasers, AloneInv, StaleInv
  <2>5. CASE \E c \in Callers : AddJob(c)
    <3>1. PICK j \in JobId : /\ jobStatus[j] = "absent"
                             /\ jobStatus' = [jobStatus EXCEPT ![j] = "queued"]
      BY <2>5 DEF AddJob, NextId
    <3>2. Ledger!Insert(j)
      BY <2>3, <3>1 DEF Ledger!Insert, Held
    <3> QED
      BY <3>2 DEF LedgerStep, Ledger!Next
  <2>6. CASE ~PollRelease /\ ~\E c \in Callers : AddJob(c)
    <3>1. jobStatus' = jobStatus
      BY <1>2, <2>6 DEF Next, EnqueueStep, BeginSync, BeginIdentity, Begin, AddRun,
                EnqueueFails, PollSelect, PollGoesOn, PollSkips, ReconcileGoesOn, CallerStep,
                GoStale, WebCrash, vars
    <3> QED
      BY <2>2, <3>1, AbandonStep
  <2> QED
    BY <2>4, <2>5, <2>6
<1> QED
  BY <1>1, <1>2

\* In the one-process layout the work queue implements JobLedger: a row is
\* inserted, claimed and settled once, by the loop that holds it or by a
\* release that finds it abandoned.
THEOREM QueueImplementsLedger ==
    ASSUME Role = "all", ~SlowRuns
    PROVE  Spec => ImplementsLedger
<1>1. Init => Ledger!Init
  <2> SUFFICES ASSUME Init PROVE Ledger!Init
    OBVIOUS
  <2>1. \A l \in Loops : ~Working(l)
    BY DEF Init, BootPc, Working
  <2>2. {j \in JobId : Live(j)} = {}
    BY <2>1 DEF Live
  <2> QED
    BY <2>2 DEF Init, Ledger!Init
<1>2. TypeOK /\ HoldInv /\ RowsNamed /\ AloneInv /\ VictimInv /\ [Next]_vars
          => [Ledger!Next]_(Ledger!ledgerVars)
  BY LoopStepLedger, OtherStepLedger DEF LedgerStep
<1> QED
  BY <1>1, <1>2, TypeCorrect, HoldInvariant, AloneInvariant, VictimInvariant,
     PTL DEF Spec, ImplementsLedger, Ledger!Spec

-----------------------------------------------------------------------------
(* Verdicts.  A run record is open until its sync closes it: while its row *)
(* is queued, while a call still has to write that row, and while a loop   *)
(* is on its way to the verdict.                                           *)

VerdictInv ==
    /\ \A j \in JobId : jobStatus[j] = "queued" /\ jobRun[j] # NoRun
                            => runStatus[jobRun[j]] \notin Closed
    /\ \A c \in Callers : callerRun[c] # NoRun => runStatus[callerRun[c]] \notin Closed
    /\ \A l \in Loops : loopPc[l] \in {"execute", "enter", "sync"} /\ IsSync(l)
                            => runStatus[jobRun[loopJob[l]]] \notin Closed
    /\ \A l \in Loops : loopPc[l] = "fail" => jobStatus[loopJob[l]] \in Left

\* A step that names no record anew, puts no row back in the queue, sends no
\* loop on its way and closes no record that has to be open.
VerdictKept ==
    /\ jobRun' = jobRun
    /\ \A c \in Callers : callerRun'[c] = callerRun[c] \/ callerRun'[c] = NoRun
    /\ \A j \in JobId : jobStatus'[j] = "queued" => jobStatus[j] = "queued"
    /\ \A l \in Loops : loopPc'[l] \in {"execute", "enter", "sync"} =>
            loopPc[l] \in {"execute", "enter", "sync"} /\ loopJob'[l] = loopJob[l]
    /\ \A l \in Loops : loopPc'[l] = "fail" =>
            loopJob'[l] \in JobId /\ jobStatus'[loopJob'[l]] \in Left
    /\ \A j \in JobId :
          /\ jobRun[j] # NoRun /\ runStatus[jobRun[j]] \notin Closed
          /\ jobStatus[j] = "queued" \/ \E l \in Loops :
                loopPc[l] \in {"execute", "enter", "sync"} /\ loopJob[l] = j
                /\ loopPc'[l] \in {"execute", "enter", "sync"}
          => runStatus'[jobRun[j]] \notin Closed
    /\ \A c \in Callers : callerRun[c] # NoRun /\ runStatus[callerRun[c]] \notin Closed
                            => runStatus'[callerRun[c]] \notin Closed

LEMMA VerdictInvKept ==
    ASSUME TypeOK, RowsNamed, VerdictInv, VerdictKept
    PROVE  VerdictInv'
<1> USE DEF VerdictInv, VerdictKept
<1>1. \A j \in JobId : jobStatus'[j] = "queued" /\ jobRun'[j] # NoRun
                            => runStatus'[jobRun'[j]] \notin Closed
  OBVIOUS
<1>2. \A c \in Callers : callerRun'[c] # NoRun => runStatus'[callerRun'[c]] \notin Closed
  OBVIOUS
<1>3. ASSUME NEW l \in Loops, loopPc'[l] \in {"execute", "enter", "sync"}, IsSync(l)'
      PROVE  runStatus'[jobRun'[loopJob'[l]]] \notin Closed
  <2>1. /\ loopPc[l] \in {"execute", "enter", "sync"} /\ loopJob'[l] = loopJob[l]
        /\ loopJob[l] \in JobId /\ jobRun[loopJob[l]] # NoRun
    BY <1>3 DEF RowsNamed, IsSync
  <2>2. runStatus[jobRun[loopJob[l]]] \notin Closed
    BY <2>1 DEF IsSync
  <2> QED
    BY <1>3, <2>1, <2>2
<1> QED
  BY <1>1, <1>2, <1>3

\* A step that writes only the records of rows that are neither queued nor on
\* their way closes none that has to be open.
LEMMA OthersOpen ==
    ASSUME TypeOK, RunInv, NEW rows \in SUBSET JobId,
           \A r \in RunId : runStatus'[r] # runStatus[r] => \E i \in rows : RunOf(i) = r
    PROVE  /\ \A j \in JobId : jobRun[j] # NoRun /\ j \notin rows
                                 => runStatus'[jobRun[j]] = runStatus[jobRun[j]]
           /\ \A c \in Callers : callerRun[c] # NoRun
                                 => runStatus'[callerRun[c]] = runStatus[callerRun[c]]
<1>1. ASSUME NEW j \in JobId, jobRun[j] # NoRun, j \notin rows
      PROVE  runStatus'[jobRun[j]] = runStatus[jobRun[j]]
  <2>1. jobRun[j] \in RunId
    BY <1>1, NamedRuns
  <2> QED
    BY <1>1, <2>1, OwnRecord
<1>2. ASSUME NEW c \in Callers, callerRun[c] # NoRun
      PROVE  runStatus'[callerRun[c]] = runStatus[callerRun[c]]
  <2>1. callerRun[c] \in 1..MaxRuns /\ callerRun[c] \in RunId
    BY <1>2, NamedRuns
  <2>2. ASSUME NEW i \in JobId, RunOf(i) = callerRun[c] PROVE FALSE
    <3>1. jobRun[i] = callerRun[c]
      BY <2>1, <2>2, BoundsAssumption DEF RunOf, JobId
    <3> QED
      BY <1>2, <3>1 DEF RunInv
  <2> QED
    BY <2>1, <2>2
<1> QED
  BY <1>1, <1>2

\* A release writes the records of rows that are running or settled and that
\* no loop executes.
LEMMA ReleaseOpen ==
    ASSUME TypeOK, RunInv, VictimInv, NEW x \in Releasers, ReleaseRows(x) \/ ReleaseFails(x),
           \A j \in victims[x] : ~Live(j)
    PROVE  /\ \A j \in JobId : jobRun[j] # NoRun /\ (jobStatus[j] = "queued" \/ Live(j))
                                 => runStatus'[jobRun[j]] = runStatus[jobRun[j]]
           /\ \A c \in Callers : callerRun[c] # NoRun
                                 => runStatus'[callerRun[c]] = runStatus[callerRun[c]]
<1>1. victims[x] \in SUBSET JobId /\ \A j \in victims[x] : jobStatus[j] # "queued"
  BY DEF VictimInv, TypeOK
<1>2. \A r \in RunId : runStatus'[r] # runStatus[r] => \E i \in victims[x] : RunOf(i) = r
  <2>1. ASSUME NEW r \in RunId, runStatus'[r] # runStatus[r]
        PROVE  \E i \in victims[x] : RunOf(i) = r
    <3>1. \E i \in victims[x] : jobRun[i] = r
      BY <2>1 DEF ReleaseRows, ReleaseFails, runVars
    <3>2. r # NoRun
      BY BoundsAssumption DEF RunId, NoRun
    <3> QED
      BY <3>1, <3>2 DEF RunOf
  <2> QED
    BY <2>1
<1> QED
  BY <1>1, <1>2, OthersOpen

VerdictStep ==
    \A r \in 1..MaxRuns :
        \/ runStatus[r] \notin Closed
        \/ runStatus'[r] = runStatus[r]
        \/ /\ \E l \in Loops : loopPc[l] = "report" /\ RunOf(loopJob[l]) = r
           /\ runStatus'[r] = "error"

\* A loop inside run() writes its own record only, and no other row names it.
LEMMA RecordStepVerdict ==
    ASSUME TypeOK, RowsNamed, HoldInv, RunInv, MainDead, VerdictInv, NEW l \in Loops,
           EnterRun(l) \/ EnterFails(l) \/ CloseRun(l) \/ ReportRun(l)
    PROVE  VerdictInv' /\ VerdictStep
<1> USE DEF tableVars, runVars, loopVars, callerVars
<1> DEFINE i == loopJob[l]
<1>1. /\ loopPc[l] \in {"enter", "sync", "report"} /\ i \in JobId
      /\ UNCHANGED <<jobRun, jobStatus, callerRun, loopJob>>
      /\ \A k \in Loops : k # l => loopPc'[k] = loopPc[k]
      /\ jobStatus[i] # "queued"
  <2>1. /\ loopPc[l] \in {"enter", "sync", "report"}
        /\ UNCHANGED <<jobRun, jobStatus, callerRun, loopJob>>
        /\ \A k \in Loops : k # l => loopPc'[k] = loopPc[k]
    BY DEF EnterRun, EnterFails, CloseRun, ReportRun, AfterRun, Goto, TypeOK
  <2> QED
    BY <2>1 DEF RowsNamed, HoldInv, Working, Left
<1>2. /\ \A r \in RunId : runStatus'[r] # runStatus[r] => RunOf(i) = r
      /\ loopPc[l] = "enter" => \A r \in RunId : runStatus'[r] \in {runStatus[r], "running"}
      /\ loopPc[l] = "report" => \A r \in RunId : runStatus'[r] \in {runStatus[r], "error"}
  BY DEF EnterRun, EnterFails, CloseRun, ReportRun, TypeOK
<1>3. /\ \A j \in JobId : jobRun[j] # NoRun /\ j # i
                            => runStatus'[jobRun[j]] = runStatus[jobRun[j]]
      /\ \A c \in Callers : callerRun[c] # NoRun
                            => runStatus'[callerRun[c]] = runStatus[callerRun[c]]
  BY <1>1, <1>2, OthersOpen, {i} \in SUBSET JobId
<1>4. \A k \in Loops : loopPc[k] # "dead" => k = l
  BY <1>1 DEF MainDead, Loops
<1>5. \/ loopPc[l] = "enter" /\ loopPc'[l] = "sync"
      \/ loopPc'[l] \in {"report", "leave", "finish"}
      \/ loopPc[l] = "enter" /\ loopPc'[l] = "execute" /\ ~IsSync(l)
  BY DEF EnterRun, EnterFails, CloseRun, ReportRun, AfterRun, Goto, TypeOK
<1>6. \A j \in JobId :
          /\ jobRun[j] # NoRun /\ runStatus[jobRun[j]] \notin Closed
          /\ jobStatus[j] = "queued" \/ \E k \in Loops :
                loopPc[k] \in {"execute", "enter", "sync"} /\ loopJob[k] = j
                /\ loopPc'[k] \in {"execute", "enter", "sync"}
          => runStatus'[jobRun[j]] \notin Closed
  <2> SUFFICES ASSUME NEW j \in JobId, jobRun[j] # NoRun, runStatus[jobRun[j]] \notin Closed,
                      jobStatus[j] = "queued" \/ \E k \in Loops :
                         loopPc[k] \in {"execute", "enter", "sync"} /\ loopJob[k] = j
                         /\ loopPc'[k] \in {"execute", "enter", "sync"}
               PROVE  runStatus'[jobRun[j]] \notin Closed
    OBVIOUS
  <2>1. CASE j # i
    BY <1>3, <2>1
  <2>2. CASE j = i
    <3>1. loopPc'[l] \in {"execute", "enter", "sync"}
      BY <1>1, <1>4, <2>2
    <3>2. loopPc[l] = "enter" /\ jobRun[j] \in RunId
      BY <1>5, <3>1, NamedRuns
    <3> QED
      BY <1>2, <3>2 DEF Closed
  <2> QED
    BY <2>1, <2>2
<1>7. \A k \in Loops : loopPc'[k] # "fail"
  BY <1>1, <1>4, <1>5
<1>8. VerdictKept
  BY <1>1, <1>3, <1>4, <1>5, <1>6, <1>7 DEF VerdictKept
<1>9. VerdictStep
  <2> SUFFICES ASSUME NEW r \in 1..MaxRuns, runStatus[r] \in Closed, runStatus'[r] # runStatus[r]
               PROVE  loopPc[l] = "report" /\ RunOf(i) = r /\ runStatus'[r] = "error"
    BY DEF VerdictStep
  <2>1. r \in RunId /\ RunOf(i) = r
    BY <1>2, NamedRuns
  <2>2. jobRun[i] = r /\ IsSync(l)
    BY <1>1, <2>1, BoundsAssumption DEF RunOf, JobId, IsSync, NoRun
  <2>3. loopPc[l] \notin {"enter", "sync"}
    BY <2>2 DEF VerdictInv
  <2> QED
    BY <1>1, <1>2, <2>1, <2>3
<1> QED
  BY <1>8, <1>9, VerdictInvKept

LEMMA LoopStepVerdict ==
    ASSUME TypeOK, RowsNamed, HoldInv, RunInv, AloneInv, VictimInv, VerdictInv,
           NEW l \in Loops, LoopStep(l)
    PROVE  VerdictInv' /\ VerdictStep
<1> USE DEF tableVars, runVars, loopVars, callerVars
<1>1. MainDead /\ l = "thread" /\ \A k \in Loops : k # l => ~Working(k)
  BY OnlyThread DEF AloneInv, MainDead
<1>2. \A k \in Loops : k # l => loopPc[k] = "dead"
  BY <1>1 DEF MainDead, Loops
<1>3. CASE EnterRun(l) \/ EnterFails(l) \/ CloseRun(l) \/ ReportRun(l)
  BY <1>1, <1>3, RecordStepVerdict
<1>4. CASE LoopSelect(l) \/ LoopRelease(l)
  <2>1. /\ UNCHANGED <<jobRun, callerRun>>
        /\ \A k \in Loops : loopPc'[k] \in {"dead", "release", "claim"}
    BY <1>2, <1>4 DEF LoopSelect, LoopRelease, ReleaseRows, ReleaseFails, TypeOK
  <2>2. \A j \in JobId : ~Live(j)
    BY <1>1, <1>4 DEF Live, LoopSelect, LoopRelease, Working
  <2>3. /\ \A j \in JobId : jobStatus'[j] = "queued" => jobStatus[j] = "queued"
        /\ \A r \in RunId : runStatus[r] \in Closed => runStatus'[r] = runStatus[r]
    BY <1>4 DEF LoopSelect, LoopRelease, ReleaseRows, ReleaseFails, Open, Closed, TypeOK
  <2>4. /\ \A j \in JobId : jobRun[j] # NoRun /\ jobStatus[j] = "queued"
                              => runStatus'[jobRun[j]] = runStatus[jobRun[j]]
        /\ \A c \in Callers : callerRun[c] # NoRun
                              => runStatus'[callerRun[c]] = runStatus[callerRun[c]]
    BY <1>4, <2>2, ReleaseOpen DEF LoopSelect, LoopRelease, Releasers, TypeOK
  <2>5. VerdictKept
    BY <2>1, <2>3, <2>4 DEF VerdictKept
  <2>6. VerdictStep
    BY <2>3, NamedRuns DEF VerdictStep
  <2> QED
    BY <2>5, <2>6, VerdictInvKept
<1>5. CASE ClaimJob(l)
  <2>1. PICK j \in JobId : /\ jobStatus[j] = "queued"
                           /\ jobStatus' = [jobStatus EXCEPT ![j] = "running"]
                           /\ loopJob' = [loopJob EXCEPT ![l] = j]
    BY <1>5 DEF ClaimJob, Oldest
  <2>2. loopPc' = [loopPc EXCEPT ![l] = "execute"]
        /\ UNCHANGED <<jobRun, callerRun, runStatus>>
    BY <1>5 DEF ClaimJob
  <2>3. \A k \in Loops : IF k = l THEN loopPc'[k] = "execute" /\ loopJob'[k] = j
                                  ELSE loopPc'[k] = "dead"
    BY <1>2, <2>1, <2>2 DEF TypeOK
  <2>4. \A k \in JobId : jobStatus'[k] = "queued" => jobStatus[k] = "queued"
    BY <2>1 DEF TypeOK
  <2>5. \A k \in Loops : loopPc'[k] \in {"execute", "enter", "sync"} /\ IsSync(k)'
                            => runStatus'[jobRun'[loopJob'[k]]] \notin Closed
    BY <2>1, <2>2, <2>3 DEF VerdictInv, IsSync
  <2>6. VerdictInv'
    BY <2>2, <2>3, <2>4, <2>5 DEF VerdictInv
  <2> QED
    BY <2>2, <2>6 DEF VerdictStep
<1>6. CASE ClaimFails(l) \/ FinishFails(l)
  <2>1. LoopDies(l) /\ UNCHANGED <<jobRun, runStatus>>
    BY <1>6 DEF ClaimFails, FinishFails
  <2>2. \A j \in JobId : jobStatus'[j] = "queued" => jobStatus[j] = "queued"
    BY <1>6 DEF ClaimFails, FinishFails, TypeOK
  <2>3. \A c \in Callers : callerRun'[c] = callerRun[c] \/ callerRun'[c] = NoRun
    BY <2>1 DEF LoopDies, Reboot
  <2>4. \A k \in Loops : loopPc'[k] \in {"dead", "select"}
    BY <1>2, <2>1 DEF LoopDies, Reboot, BootPc, TypeOK
  <2> QED
    BY <2>1, <2>2, <2>3, <2>4, VerdictInvKept DEF VerdictKept, VerdictStep
<1>7. CASE AcquireLock(l) \/ RefuseSync(l) \/ IdentityDone(l) \/ ReleaseLock(l)
  <2>1. UNCHANGED <<jobRun, runStatus, jobStatus, loopJob, callerRun>>
    BY <1>7 DEF AcquireLock, RefuseSync, IdentityDone, ReleaseLock
  <2>2. \A k \in Loops : k # l => loopPc'[k] = loopPc[k]
    BY <1>7 DEF AcquireLock, RefuseSync, IdentityDone, ReleaseLock, AfterRun, Goto, TypeOK
  <2>3. \/ loopPc[l] = "execute" /\ loopPc'[l] \in {"enter", "finish"}
        \/ loopPc[l] = "leave" /\ loopPc'[l] = "finish"
        \/ loopPc[l] = "leave" /\ loopPc'[l] = "execute" /\ ~IsSync(l)
    BY <1>7 DEF AcquireLock, RefuseSync, IdentityDone, ReleaseLock, AfterRun, Goto, TypeOK
  <2>4. VerdictInv'
    BY <1>2, <2>1, <2>2, <2>3 DEF VerdictInv, IsSync
  <2> QED
    BY <2>1, <2>4 DEF VerdictStep
<1>8. CASE FinishJob(l) \/ FailRun(l)
  <2>1. /\ UNCHANGED <<jobRun, callerRun>>
        /\ \A k \in Loops : k # l => loopPc'[k] = "dead"
        /\ \A j \in JobId : jobStatus'[j] = "queued" => jobStatus[j] = "queued"
        /\ loopPc'[l] \in {"claim", "fail"}
        /\ loopJob[l] \in JobId /\ jobStatus[loopJob[l]] # "queued"
    BY <1>2, <1>8 DEF FinishJob, FailRun, Goto, Settled, RowsNamed, HoldInv, Working, Left,
                      VerdictInv, TypeOK
  <2>2. loopPc'[l] = "fail" =>
            loopJob'[l] = loopJob[l] /\ jobStatus'[loopJob[l]] \in Left
    BY <1>8, <2>1 DEF FinishJob, FailRun, Goto, Settled, Left, TypeOK
  <2>3. \A r \in RunId : runStatus'[r] # runStatus[r] =>
                            runStatus[r] \in Open /\ RunOf(loopJob[l]) = r
    BY <1>8, BoundsAssumption DEF FinishJob, FailRun, RunOf, RunId, NoRun, TypeOK
  <2>4. /\ \A j \in JobId : jobRun[j] # NoRun /\ j # loopJob[l]
                              => runStatus'[jobRun[j]] = runStatus[jobRun[j]]
        /\ \A c \in Callers : callerRun[c] # NoRun
                              => runStatus'[callerRun[c]] = runStatus[callerRun[c]]
    BY <2>1, <2>3, OthersOpen, {loopJob[l]} \in SUBSET JobId
  <2>5. VerdictKept
    BY <2>1, <2>2, <2>4 DEF VerdictKept
  <2>6. VerdictStep
    BY <2>3, NamedRuns DEF VerdictStep, Open, Closed
  <2> QED
    BY <2>5, <2>6, VerdictInvKept
<1> QED
  BY <1>3, <1>4, <1>5, <1>6, <1>7, <1>8 DEF LoopStep

LEMMA OtherStepVerdict ==
    ASSUME TypeOK, RowsNamed, HoldInv, RunInv, AloneInv, VictimInv, VerdictInv,
           [Next]_vars, ~\E l \in Loops : LoopStep(l)
    PROVE  VerdictInv' /\ VerdictStep
<1> USE DEF tableVars, runVars, loopVars, callerVars
<1>1. CASE WorkerCrash
  <2>1. /\ UNCHANGED <<jobRun, runStatus, jobStatus>>
        /\ \A c \in Callers : callerRun'[c] = callerRun[c] \/ callerRun'[c] = NoRun
        /\ \A l \in Loops : loopPc'[l] \in {"dead", "select"}
    BY <1>1 DEF WorkerCrash, Reboot, BootPc
  <2> QED
    BY <2>1, VerdictInvKept DEF VerdictKept, VerdictStep
<1>2. CASE ~WorkerCrash
  <2>1. /\ loopJob' = loopJob
        /\ \A l \in Loops : \/ loopPc'[l] = loopPc[l]
                            \/ loopPc[l] = "dead" /\ loopPc'[l] = "select"
    BY <1>2, OtherStepHold DEF Next
  <2>2. \A l \in Loops : /\ loopPc'[l] \in {"execute", "enter", "sync"} =>
                                loopPc[l] \in {"execute", "enter", "sync"}
                         /\ loopPc'[l] = "fail" => loopPc[l] = "fail"
    BY <2>1
  <2>3. \A l \in Loops : loopPc[l] = "fail" =>
              /\ loopJob[l] \in JobId /\ jobStatus[loopJob[l]] \in Left
              /\ jobStatus'[loopJob[l]] \in Left
    BY <1>2, OtherStepHold DEF Next, RowsNamed, VerdictInv
  <2>4. CASE \E c \in Callers : AddRun(c)
    <3>1. PICK c \in Callers : AddRun(c)
      BY <2>4
    <3>2. PICK r \in 1..MaxRuns : /\ runStatus[r] = "absent"
                                  /\ runStatus' = [runStatus EXCEPT ![r] = "queued"]
                                  /\ callerRun' = [callerRun EXCEPT ![c] = r]
      BY <3>1 DEF AddRun, NextId
    <3>3. UNCHANGED <<jobRun, jobStatus, loopPc>>
      BY <3>1 DEF AddRun
    <3>4. r \in RunId /\ \A k \in RunId : runStatus'[k] = IF k = r THEN "queued" ELSE runStatus[k]
      BY <3>2, NamedRuns DEF TypeOK
    <3>5. \A k \in RunId : runStatus[k] \notin Closed => runStatus'[k] \notin Closed
      BY <3>4 DEF Closed
    <3>6. \A d \in Callers : callerRun'[d] = IF d = c THEN r ELSE callerRun[d]
      BY <3>2 DEF TypeOK
    <3>7. \A d \in Callers : callerRun'[d] # NoRun => runStatus'[callerRun'[d]] \notin Closed
      BY <3>4, <3>5, <3>6, NamedRuns DEF VerdictInv, Closed
    <3>8. \A l \in Loops : IsSync(l) /\ loopPc[l] \in {"execute", "enter", "sync"}
              => jobRun[loopJob[l]] \in RunId
      BY NamedRuns DEF IsSync, RowsNamed
    <3>9. VerdictInv'
      BY <2>1, <2>3, <3>3, <3>5, <3>7, <3>8, NamedRuns DEF VerdictInv, IsSync
    <3> QED
      BY <3>2, <3>4, <3>9, NamedRuns DEF VerdictStep, Closed
  <2>5. CASE \E c \in Callers : AddJob(c)
    <3>1. PICK c \in Callers : AddJob(c)
      BY <2>5
    <3>2. PICK j \in JobId : /\ jobStatus[j] = "absent"
                             /\ jobStatus' = [jobStatus EXCEPT ![j] = "queued"]
                             /\ jobRun' = [jobRun EXCEPT ![j] = callerRun[c]]
      BY <3>1 DEF AddJob, NextId
    <3>3. /\ callerRun' = [callerRun EXCEPT ![c] = NoRun]
          /\ UNCHANGED <<runStatus, loopPc>>
      BY <3>1 DEF AddJob
    <3>4. \A k \in JobId : /\ jobStatus'[k] = "queued" => k = j \/ jobStatus[k] = "queued"
                           /\ k # j => jobRun'[k] = jobRun[k] /\ jobStatus'[k] = jobStatus[k]
                           /\ k = j => jobRun'[k] = callerRun[c]
      BY <3>2 DEF TypeOK
    <3>5. \A d \in Callers : callerRun'[d] = callerRun[d] \/ callerRun'[d] = NoRun
      BY <3>3 DEF TypeOK
    <3>6. \A l \in Loops : loopPc[l] \in {"execute", "enter", "sync", "fail"} =>
              loopJob[l] # j /\ loopJob[l] \in JobId
      BY <2>3, <3>2 DEF HoldInv, Working, Left, RowsNamed
    <3>7. VerdictInv'
      BY <2>1, <2>3, <3>3, <3>4, <3>5, <3>6 DEF VerdictInv, IsSync
    <3> QED
      BY <3>3, <3>7 DEF VerdictStep
  <2>6. CASE PollRelease
    <3>1. /\ ReleaseRows("poll") \/ ReleaseFails("poll")
          /\ UNCHANGED <<jobRun, callerRun, loopPc>>
      BY <2>6 DEF PollRelease, ReleaseRows, ReleaseFails
    <3>2. \A j \in victims["poll"] : ~Live(j)
      BY DEF AloneInv, StaleInv
    <3>3. /\ \A j \in JobId : jobRun[j] # NoRun /\ (jobStatus[j] = "queued" \/ Live(j))
                                => runStatus'[jobRun[j]] = runStatus[jobRun[j]]
          /\ \A c \in Callers : callerRun[c] # NoRun
                                => runStatus'[callerRun[c]] = runStatus[callerRun[c]]
      BY <3>1, <3>2, ReleaseOpen, "poll" \in Releasers DEF Releasers
    <3>4. /\ \A j \in JobId : jobStatus'[j] = "queued" => jobStatus[j] = "queued"
          /\ \A r \in RunId : runStatus[r] \in Closed => runStatus'[r] = runStatus[r]
      BY <3>1 DEF ReleaseRows, ReleaseFails, Open, Closed, TypeOK
    <3>5. \A l \in Loops : loopPc[l] \in {"execute", "enter", "sync"} => Live(loopJob[l])
      BY DEF Live, Working
    <3>6. VerdictKept
      BY <2>1, <2>2, <2>3, <3>1, <3>3, <3>4, <3>5 DEF VerdictKept
    <3> QED
      BY <3>4, <3>6, NamedRuns, VerdictInvKept DEF VerdictStep
  <2>7. CASE ~PollRelease /\ ~\E c \in Callers : AddRun(c) \/ AddJob(c)
    <3>1. /\ UNCHANGED <<jobRun, jobStatus, runStatus>>
          /\ \A c \in Callers : callerRun'[c] = callerRun[c] \/ callerRun'[c] = NoRun
      BY <1>2, <2>7 DEF Next, EnqueueStep, BeginSync, BeginIdentity, Begin,
                EnqueueFails, PollSelect, PollGoesOn, PollSkips, ReconcileGoesOn, CallerStep,
                GoStale, WebCrash, vars, TypeOK
    <3> QED
      BY <2>1, <2>2, <2>3, <3>1, VerdictInvKept DEF VerdictKept, VerdictStep
  <2> QED
    BY <2>4, <2>5, <2>6, <2>7
<1> QED
  BY <1>1, <1>2

LEMMA VerdictInvariant ==
    ASSUME Role = "all", ~SlowRuns
    PROVE  Spec => []VerdictInv
<1>1. Init => VerdictInv
  BY DEF Init, VerdictInv, BootPc
<1>2. /\ TypeOK /\ RowsNamed /\ HoldInv /\ RunInv /\ AloneInv /\ VictimInv /\ VerdictInv
      /\ [Next]_vars
      => VerdictInv'
  BY LoopStepVerdict, OtherStepVerdict
<1> QED
  BY <1>1, <1>2, TypeCorrect, HoldInvariant, RunInvariant, AloneInvariant, VictimInvariant,
     PTL DEF Spec

\* In the one-process layout a run record keeps the verdict its sync reached:
\* no release, fail_run or later executor writes over it, only the sync itself
\* while it reports.
THEOREM VerdictsAreKept ==
    ASSUME Role = "all", ~SlowRuns
    PROVE  Spec => VerdictsStay
<1>1. /\ TypeOK /\ RowsNamed /\ HoldInv /\ RunInv /\ AloneInv /\ VictimInv /\ VerdictInv
      /\ [Next]_vars
      => [VerdictStep]_vars
  BY LoopStepVerdict, OtherStepVerdict
<1> QED
  BY <1>1, TypeCorrect, HoldInvariant, RunInvariant, AloneInvariant, VictimInvariant,
     VerdictInvariant, PTL DEF Spec, VerdictsStay, VerdictStep

-----------------------------------------------------------------------------
(* Scheduled syncs.  From the count of the queue to the commit of its row  *)
(* the poll is the only one that can add a scheduled sync.                 *)

SchedInv ==
    /\ \A r \in scheduled : r \in RunId /\ runStatus[r] # "absent"
    /\ \A c \in Callers \ {"poll"} : callerRun[c] \notin scheduled
    /\ callerPc["poll"] # "identity"
    /\ callerPc["poll"] \in {"start", "run", "job"} =>
         \A j \in ActiveJobs : jobRun[j] \notin scheduled
    /\ \A j, k \in ActiveJobs : jobRun[j] \in scheduled /\ jobRun[k] \in scheduled => j = k

\* A step that activates no row, schedules no run and lets the poll not pass
\* its count.
SchedKept ==
    /\ jobRun' = jobRun /\ scheduled' = scheduled
    /\ \A c \in Callers : callerRun'[c] = callerRun[c] \/ callerRun'[c] = NoRun
    /\ ActiveJobs' \subseteq ActiveJobs
    /\ \A r \in RunId : runStatus[r] # "absent" => runStatus'[r] # "absent"
    /\ callerPc'["poll"] # "identity"
    /\ callerPc'["poll"] \in {"start", "run", "job"} =>
          callerPc["poll"] \in {"start", "run", "job"} \/ ActiveJobs = {}

LEMMA SchedInvKept == ASSUME TypeOK, SchedInv, SchedKept PROVE SchedInv'
<1>1. NoRun \notin RunId
  BY BoundsAssumption DEF RunId, NoRun
<1> QED
  BY <1>1 DEF SchedInv, SchedKept

LEMMA LoopStepSched ==
    ASSUME TypeOK, RowsNamed, HoldInv, SchedInv, NEW l \in Loops, LoopStep(l)
    PROVE  SchedInv'
<1> USE DEF tableVars, runVars, loopVars, callerVars
<1>1. NamesKept
  BY LoopStepNames
<1>2. scheduled' = scheduled
  BY DEF LoopStep, LoopSelect, LoopRelease, ReleaseRows, ReleaseFails, ClaimJob, ClaimFails,
         AcquireLock, RefuseSync, IdentityDone, EnterRun, EnterFails, CloseRun, ReportRun,
         ReleaseLock, FinishJob, FailRun, FinishFails
<1>3. callerPc'["poll"] \in {callerPc["poll"], "idle"}
  <2>1. CASE ClaimFails(l) \/ FinishFails(l)
    BY <2>1 DEF ClaimFails, FinishFails, LoopDies, Reboot, Callers, Jobs
  <2>2. CASE ~ClaimFails(l) /\ ~FinishFails(l)
    BY <2>2 DEF LoopStep, LoopSelect, LoopRelease, ClaimJob,
         AcquireLock, RefuseSync, IdentityDone, EnterRun, EnterFails, CloseRun, ReportRun,
         ReleaseLock, FinishJob, FailRun
  <2> QED
    BY <2>1, <2>2
<1>4. ActiveJobs' \subseteq ActiveJobs
  <2>1. CASE FinishJob(l)
    BY <2>1 DEF FinishJob, ActiveJobs, Settled, TypeOK
  <2>2. CASE ~FinishJob(l)
    BY <2>2 DEF LoopStep, LoopSelect, LoopRelease, ReleaseRows, ReleaseFails, ClaimJob, ClaimFails,
         Oldest, AcquireLock, RefuseSync, IdentityDone, EnterRun, EnterFails, CloseRun, ReportRun,
         ReleaseLock, FailRun, FinishFails, ActiveJobs, TypeOK
  <2> QED
    BY <2>1, <2>2
<1> QED
  BY <1>1, <1>2, <1>3, <1>4, SchedInvKept DEF SchedKept, NamesKept, SchedInv

LEMMA OtherStepSched ==
    ASSUME "count" \notin FaultPoints, TypeOK, RunInv, SchedInv, [Next]_vars,
           ~\E l \in Loops : LoopStep(l)
    PROVE  SchedInv'
<1> USE DEF tableVars, runVars, loopVars, callerVars
<1>0. "poll" \in Callers /\ "poll" \notin Handlers /\ "reconcile" \notin Handlers
  BY HandlersAssumption DEF Callers, Jobs
<1>1. CASE \E c \in Callers : AddRun(c)
  <2>1. PICK c \in Callers : AddRun(c)
    BY <1>1
  <2>2. PICK r \in 1..MaxRuns : /\ runStatus[r] = "absent"
                                /\ runStatus' = [runStatus EXCEPT ![r] = "queued"]
                                /\ callerRun' = [callerRun EXCEPT ![c] = r]
                                /\ scheduled' = IF c = "poll" THEN scheduled \cup {r} ELSE scheduled
    BY <2>1 DEF AddRun, NextId
  <2>3. /\ callerPc[c] = "run" /\ callerPc' = [callerPc EXCEPT ![c] = "job"]
        /\ UNCHANGED <<jobRun, jobStatus>>
    BY <2>1 DEF AddRun
  <2>4. /\ r \in RunId /\ r # NoRun /\ r \notin scheduled
        /\ \A j \in JobId : jobRun[j] # r
        /\ \A d \in Callers : callerRun[d] # r
    BY <2>2, NamedRuns DEF RunInv, SchedInv
  <2>5. /\ \A d \in Callers : callerRun'[d] = IF d = c THEN r ELSE callerRun[d]
        /\ \A k \in RunId : runStatus'[k] = IF k = r THEN "queued" ELSE runStatus[k]
        /\ callerPc'["poll"] = IF c = "poll" THEN "job" ELSE callerPc["poll"]
    BY <1>0, <2>2, <2>3 DEF TypeOK
  <2>6. ActiveJobs' = ActiveJobs /\ ActiveJobs \subseteq JobId
    BY <2>3 DEF ActiveJobs
  <2>7. \A r2 \in scheduled' : r2 \in RunId /\ runStatus'[r2] # "absent"
    BY <2>2, <2>4, <2>5 DEF SchedInv
  <2>8. \A d \in Callers \ {"poll"} : callerRun'[d] \notin scheduled'
    BY <2>2, <2>4, <2>5 DEF SchedInv
  <2>9. \A j \in ActiveJobs : jobRun[j] \in scheduled' <=> jobRun[j] \in scheduled
    BY <2>2, <2>4, <2>6
  <2>10. /\ callerPc'["poll"] \in {"start", "run", "job"} =>
               callerPc["poll"] \in {"start", "run", "job"}
         /\ callerPc'["poll"] # "identity"
    BY <2>3, <2>5 DEF SchedInv
  <2> QED
    BY <2>3, <2>6, <2>7, <2>8, <2>9, <2>10 DEF SchedInv
<1>2. CASE \E c \in Callers : AddJob(c)
  <2>1. PICK c \in Callers : AddJob(c)
    BY <1>2
  <2>2. PICK j \in JobId, pc \in {"idle", "start"} :
            /\ jobStatus[j] = "absent" /\ AfterJob(c, pc)
            /\ jobStatus' = [jobStatus EXCEPT ![j] = "queued"]
            /\ jobRun' = [jobRun EXCEPT ![j] = callerRun[c]]
            /\ callerPc' = [callerPc EXCEPT ![c] = pc]
    BY <2>1 DEF AddJob, NextId
  <2>3. /\ callerPc[c] \in {"job", "identity"}
        /\ callerRun' = [callerRun EXCEPT ![c] = NoRun]
        /\ UNCHANGED <<runStatus, scheduled>>
    BY <2>1 DEF AddJob
  <2>4. /\ \A k \in JobId : /\ k # j => jobRun'[k] = jobRun[k] /\ jobStatus'[k] = jobStatus[k]
                            /\ k = j => jobRun'[k] = callerRun[c]
        /\ \A d \in Callers : callerRun'[d] = IF d = c THEN NoRun ELSE callerRun[d]
        /\ callerPc'["poll"] = IF c = "poll" THEN pc ELSE callerPc["poll"]
    BY <1>0, <2>2, <2>3 DEF TypeOK
  <2>5. ActiveJobs' \subseteq ActiveJobs \cup {j} /\ j \notin ActiveJobs
    BY <2>2, <2>4 DEF ActiveJobs
  <2>6. NoRun \notin scheduled
    BY BoundsAssumption DEF SchedInv, RunId, NoRun
  <2>7. \A d \in Callers \ {"poll"} : callerRun'[d] \notin scheduled
    BY <2>4, <2>6 DEF SchedInv
  <2>8. CASE c # "poll"
    <3>1. jobRun'[j] \notin scheduled
      BY <2>4, <2>8 DEF SchedInv
    <3>2. \A k \in ActiveJobs' : jobRun'[k] \in scheduled =>
              k \in ActiveJobs /\ jobRun[k] \in scheduled
      BY <2>4, <2>5, <3>1 DEF ActiveJobs
    <3> QED
      BY <2>3, <2>4, <2>7, <2>8, <3>2 DEF SchedInv
  <2>9. CASE c = "poll"
    <3>1. callerPc["poll"] = "job" /\ callerPc'["poll"] = "idle"
      <4>1. callerPc["poll"] # "identity"
        BY DEF SchedInv
      <4>2. pc = "idle"
        BY <2>2, <2>9 DEF AfterJob
      <4> QED
        BY <2>3, <2>4, <2>9, <4>1, <4>2
    <3>2. \A k \in ActiveJobs' : jobRun'[k] \in scheduled => k = j
      BY <2>4, <2>5, <3>1 DEF SchedInv, ActiveJobs
    <3> QED
      BY <2>3, <2>7, <3>1, <3>2 DEF SchedInv
  <2> QED
    BY <2>8, <2>9
<1>3. CASE ~\E c \in Callers : AddRun(c) \/ AddJob(c)
  <2>1. NamesKept
    BY <1>3, OtherStepNames
  <2>2. scheduled' = scheduled
    BY <1>3 DEF Next, EnqueueStep, BeginSync, BeginIdentity, Begin, EnqueueFails,
          PollSelect, PollRelease, PollGoesOn, PollSkips, ReconcileGoesOn, CallerStep,
          ReleaseRows, ReleaseFails, GoStale, WorkerCrash, WebCrash, vars
  <2>3. ActiveJobs' \subseteq ActiveJobs
    BY <1>3 DEF Next, EnqueueStep, BeginSync, BeginIdentity, Begin, EnqueueFails,
          PollSelect, PollRelease, PollGoesOn, PollSkips, ReconcileGoesOn, CallerStep,
          ReleaseRows, ReleaseFails, GoStale, WorkerCrash, WebCrash, vars, ActiveJobs
  <2>4. /\ callerPc'["poll"] # "identity"
        /\ callerPc'["poll"] \in {"start", "run", "job"} =>
              callerPc["poll"] \in {"start", "run", "job"} \/ ActiveJobs = {}
    <3> USE DEF SchedInv
    <3>1. ASSUME NEW c \in Callers, EnqueueStep(c)
          PROVE  /\ callerPc'["poll"] # "identity"
                 /\ callerPc'["poll"] \in {"start", "run", "job"} =>
                       callerPc["poll"] \in {"start", "run", "job"}
      BY <1>0, <1>3, <3>1 DEF EnqueueStep, BeginSync, BeginIdentity, Begin, EnqueueFails,
                              AfterJob, TypeOK
    <3>2. CASE PollGoesOn
      BY <1>0, <3>2 DEF PollGoesOn, QueueLooksEmpty, Fault, CallerStep, TypeOK
    <3>3. CASE PollSelect \/ PollRelease \/ PollSkips
      BY <1>0, <3>3 DEF PollSelect, PollRelease, PollSkips, CallerStep, TypeOK
    <3>4. CASE ReconcileGoesOn
      BY <1>0, <3>4 DEF ReconcileGoesOn, CallerStep, TypeOK
    <3>5. CASE WorkerCrash \/ WebCrash
      BY <1>0, <3>5 DEF WorkerCrash, WebCrash, Reboot
    <3>6. CASE (\E j \in JobId : GoStale(j)) \/ UNCHANGED vars
      BY <3>6 DEF GoStale, vars
    <3> QED
      BY <3>1, <3>2, <3>3, <3>4, <3>5, <3>6 DEF Next
  <2> QED
    BY <2>1, <2>2, <2>3, <2>4, SchedInvKept DEF SchedKept, NamesKept
<1> QED
  BY <1>1, <1>2, <1>3

\* Unless the count of the queue itself raises (queue_size answers 0 then),
\* polls of the one-process layout never pile up: PollJob.run enqueues only
\* onto an empty queue, and what it enqueued counts until it is settled.
THEOREM PollsNeverPileUp ==
    ASSUME Role = "all", ~SlowRuns, "count" \notin FaultPoints
    PROVE  Spec => []OneScheduled
<1>1. Init => SchedInv
  BY DEF Init, SchedInv, ActiveJobs, Callers, Jobs
<1>2. TypeOK /\ RowsNamed /\ HoldInv /\ RunInv /\ SchedInv /\ [Next]_vars => SchedInv'
  BY LoopStepSched, OtherStepSched
<1>3. SchedInv /\ HeldRowsRun => OneScheduled
  BY DEF SchedInv, HeldRowsRun, OneScheduled, Live, ActiveJobs
<1> QED
  BY <1>1, <1>2, <1>3, TypeCorrect, HoldInvariant, RunInvariant, ExecutedRowsRun,
     PTL DEF Spec
=============================================================================
