------------------------- MODULE DeadLettersProofs -------------------------
(***************************************************************************)
(* Theorems about DeadLetters, for any number of records, rows, operator   *)
(* actions and faults, any cap and any budget.                             *)
(***************************************************************************)
EXTENDS DeadLetters, FiniteSetTheorems, TLAPS

-----------------------------------------------------------------------------
(* Typing.                                                                 *)

LEMMA InitType == Init => TypeOK
<1> SUFFICES ASSUME Init PROVE TypeOK
  OBVIOUS
<1>1. budget \in 2..MaxBudget
  BY BoundsAssumption DEF Init
<1>2. linked \subseteq Records
  BY DEF Init
<1>3. /\ status \in [RowId -> {"absent", "open", "frozen", "resolved", "deleted"}]
      /\ record \in [RowId -> Records \cup {NoRecord}]
  BY DEF Init
<1>4. /\ attempts \in [RowId -> Nat]
      /\ seen \in [RowId -> Nat]
      /\ cycles \in [RowId -> Nat]
  BY DEF Init
<1> QED
  BY <1>1, <1>2, <1>3, <1>4 DEF Init, TypeOK

LEMMA FaultType ==
    ASSUME TypeOK, Fault \/ UNCHANGED bounds
    PROVE  ops' \in Nat /\ faults' \in Nat
  BY DEF Fault, bounds, TypeOK

\* add_dead_letter folds into a pending row or fills an absent one.
LEMMA AddCases ==
    ASSUME NEW x \in Records, NEW aid \in BOOLEAN, AddDeadLetter(x, aid)
    PROVE  \E r \in RowId : Fold(r, aid) \/ Insert(x, r, aid)
  BY DEF AddDeadLetter, Matching, Rows

LEMMA AddType ==
    ASSUME TypeOK, NEW x \in Records, NEW aid \in BOOLEAN, AddDeadLetter(x, aid)
    PROVE  /\ status' \in [RowId -> {"absent", "open", "frozen", "resolved", "deleted"}]
           /\ record' \in [RowId -> Records \cup {NoRecord}]
           /\ hasAid' \subseteq RowId
           /\ attempts' \in [RowId -> Nat]
           /\ due' \subseteq RowId
           /\ cycles' \in [RowId -> Nat]
<1>1. PICK r \in RowId : Fold(r, aid) \/ Insert(x, r, aid)
  BY AddCases
<1> QED
  BY <1>1 DEF Fold, Insert, TypeOK

LEMMA SyncStepType ==
    ASSUME TypeOK, SyncStep
    PROVE  TypeOK'
<1> USE DEF TypeOK, rowVars, passVars, history, bounds
<1>1. CASE StartFull
  BY <1>1 DEF StartFull, Start
<1>2. CASE EndSync
  <2>1. ops' \in Nat /\ faults' \in Nat
    BY <1>2, FaultType DEF EndSync
  <2>2. status' \in [RowId -> {"absent", "open", "frozen", "resolved", "deleted"}]
        /\ alerted' \subseteq RowId /\ due' \subseteq RowId
    BY <1>2 DEF EndSync, Resolve
  <2> QED
    BY <1>2, <2>1, <2>2 DEF EndSync
<1>3. CASE SyncAborts
  BY <1>3, FaultType DEF SyncAborts
<1>4. ASSUME NEW x \in Records, StartRetry(x) PROVE TypeOK'
  BY <1>4 DEF StartRetry, Start
<1>5. ASSUME NEW x \in Records, ApplyOk(x) PROVE TypeOK'
  BY <1>5 DEF ApplyOk
<1>6. ASSUME NEW x \in Records, ApplySkip(x) PROVE TypeOK'
  BY <1>6 DEF ApplySkip
<1>7. ASSUME NEW x \in Records, ApplyFails(x) PROVE TypeOK'
  <2>1. ops' \in Nat /\ faults' \in Nat
    BY <1>7, FaultType DEF ApplyFails
  <2>2. /\ status' \in [RowId -> {"absent", "open", "frozen", "resolved", "deleted"}]
        /\ record' \in [RowId -> Records \cup {NoRecord}]
        /\ hasAid' \subseteq RowId
        /\ attempts' \in [RowId -> Nat]
        /\ due' \subseteq RowId
        /\ cycles' \in [RowId -> Nat]
    <3>1. CASE \E aid \in BOOLEAN : AddDeadLetter(x, aid)
      BY <3>1, AddType
    <3>2. CASE UNCHANGED <<rowVars, cycles>>
      BY <3>2
    <3> QED
      BY <1>7, <3>1, <3>2 DEF ApplyFails
  <2> QED
    BY <1>7, <2>1, <2>2 DEF ApplyFails
<1> QED
  BY <1>1, <1>2, <1>3, <1>4, <1>5, <1>6, <1>7 DEF SyncStep

LEMMA PassStepType ==
    ASSUME TypeOK, PassStart \/ PassWork
    PROVE  TypeOK'
<1> USE DEF TypeOK, rowVars, syncVars, passVars, history, bounds
<1>1. CASE PassStart
  BY <1>1 DEF PassStart
<1>2. ASSUME NEW x \in Records, QueueRetry(x) PROVE TypeOK'
  <2>1. cycles' \in [RowId -> Nat]
    BY <1>2 DEF QueueRetry, CountCycle
  <2> QED
    BY <1>2, <2>1 DEF QueueRetry, Group
<1>3. ASSUME NEW x \in Records, QueueFails(x) PROVE TypeOK'
  <2>1. cycles' \in [RowId -> Nat]
    BY <1>3 DEF QueueFails, CountCycle
  <2>2. queue' \subseteq Records
    BY <1>3 DEF QueueFails
  <2> QED
    BY <1>3, <2>1, <2>2, FaultType DEF QueueFails, Group
<1>4. ASSUME NEW x \in Records, HoldGroup(x) PROVE TypeOK'
  BY <1>4 DEF HoldGroup, Group
<1>5. CASE MarkRead
  BY <1>5 DEF MarkRead
<1>6. CASE MarkCommit
  <2>1. attempts' \in [RowId -> Nat]
    BY <1>6 DEF MarkCommit
  <2>2. status' \in [RowId -> {"absent", "open", "frozen", "resolved", "deleted"}]
    BY <1>6 DEF MarkCommit
  <2>3. charged' \subseteq RowId /\ seen' \in [RowId -> Nat]
    BY <1>6 DEF MarkCommit, Forget
  <2> QED
    BY <1>6, <2>1, <2>2, <2>3 DEF MarkCommit
<1>7. CASE HoldRead
  BY <1>7 DEF HoldRead
<1>8. CASE HoldCommit
  <2>1. status' \in [RowId -> {"absent", "open", "frozen", "resolved", "deleted"}]
    BY <1>8 DEF HoldCommit
  <2> QED
    BY <1>8, <2>1 DEF HoldCommit
<1>9. CASE Alert
  BY <1>9 DEF Alert, EndPass
<1>10. CASE PassFails
  <2>1. ops' \in Nat /\ faults' \in Nat
    BY <1>10, FaultType DEF PassFails
  <2> QED
    BY <1>10, <2>1 DEF PassFails, EndPass
<1> QED
  BY <1>1, <1>2, <1>3, <1>4, <1>5, <1>6, <1>7, <1>8, <1>9, <1>10 DEF PassWork

LEMMA OperatorStepType ==
    ASSUME TypeOK, OperatorStep
    PROVE  TypeOK'
<1> USE DEF TypeOK, rowVars, syncVars, passVars, history, bounds, Operate
<1>1. ASSUME NEW rows, Reopen(rows)
      PROVE  /\ status' \in [RowId -> {"absent", "open", "frozen", "resolved", "deleted"}]
             /\ attempts' \in [RowId -> Nat]
             /\ cycles' \in [RowId -> Nat]
             /\ alerted' \subseteq RowId
             /\ UNCHANGED <<record, hasAid, linked, budget>>
  BY <1>1 DEF Reopen
<1>2. ASSUME NEW r \in RowId, RetryNow(r) PROVE TypeOK'
  BY <1>1, <1>2 DEF RetryNow
<1>3. CASE UnfreezeAll
  <2> DEFINE frozen == {r \in RowId : status[r] = "frozen"}
  <2>1. Reopen(frozen) /\ due' = due \cup frozen
    BY <1>3 DEF UnfreezeAll
  <2> QED
    BY <1>1, <1>3, <2>1 DEF UnfreezeAll
<1>4. ASSUME NEW r \in RowId, MarkResolved(r) PROVE TypeOK'
  BY <1>4 DEF MarkResolved, Resolve
<1>5. ASSUME NEW r \in RowId, DeleteRow(r) PROVE TypeOK'
  BY <1>5 DEF DeleteRow
<1>6. ASSUME NEW b \in 2..MaxBudget, SetBudget(b) PROVE TypeOK'
  BY <1>6 DEF SetBudget
<1>7. ASSUME NEW x \in Records, Link(x) PROVE TypeOK'
  BY <1>7 DEF Link
<1> QED
  BY <1>2, <1>3, <1>4, <1>5, <1>6, <1>7 DEF OperatorStep

LEMMA TypeStep == TypeOK /\ [Next]_vars => TypeOK'
<1> SUFFICES ASSUME TypeOK, [Next]_vars PROVE TypeOK'
  OBVIOUS
<1>1. CASE SyncStep
  BY <1>1, SyncStepType
<1>2. CASE PassStart \/ PassWork
  BY <1>2, PassStepType
<1>3. CASE OperatorStep
  BY <1>3, OperatorStepType
<1>4. ASSUME NEW r \in RowId, ComesDue(r) PROVE TypeOK'
  BY <1>4 DEF ComesDue, TypeOK, syncVars, passVars, history, bounds
<1>5. CASE Crash
  BY <1>5, FaultType DEF Crash, EndPass, TypeOK, rowVars, history
<1>6. CASE UNCHANGED vars
  BY <1>6 DEF vars, TypeOK, rowVars, syncVars, passVars, history, bounds
<1> QED
  BY <1>1, <1>2, <1>3, <1>4, <1>5, <1>6 DEF Next

\* Every variable has its type.
THEOREM TypeCorrect == Spec => []TypeOK
  BY InitType, TypeStep, PTL DEF Spec

-----------------------------------------------------------------------------
(* Billing.  A charge writes what the pass read plus one: it stays within  *)
(* the cycles queued because the rows it reads were queued in this pass,   *)
(* and no reopening resets their cycles meanwhile, only the pass itself    *)
(* freezing rows.                                                          *)

\* The states a row the pass works on can be in.
Unfrozen == {"open", "resolved", "deleted"}

InHand == IF pc = "queue" THEN batch \cup charged \cup fresh ELSE fresh

BillInv ==
    /\ NeverBilledTwice
    /\ \A r \in InHand : status[r] \in Unfrozen
    /\ pc = "queue" => \A r \in charged : attempts[r] <= cycles[r]
    /\ pc = "mark" => \A r \in fresh : seen[r] <= cycles[r]
    /\ pc = "idle" => charged = {}

LEMMA InitBill == Init => BillInv
  BY DEF Init, BillInv, NeverBilledTwice, InHand

\* What the operator, time, a link and a sync may do to the rows keeps it.
LEMMA OthersBill ==
    ASSUME TypeOK, TypeOK', BillInv, UNCHANGED passVars,
           \A r \in RowId :
              \/ /\ attempts'[r] = attempts[r]
                 /\ cycles'[r] = cycles[r]
                 /\ status[r] \in Unfrozen => status'[r] \in Unfrozen
              \/ /\ attempts'[r] <= cycles'[r] + 1
                 /\ status[r] \notin Unfrozen
    PROVE  BillInv'
<1>1. InHand' = InHand /\ InHand \subseteq RowId /\ fresh \subseteq InHand
      /\ (pc = "queue" => charged \subseteq InHand)
  BY DEF InHand, passVars, TypeOK
<1>2. NeverBilledTwice'
  BY DEF NeverBilledTwice, BillInv
<1>3. \A r \in InHand : /\ status'[r] \in Unfrozen
                        /\ attempts'[r] = attempts[r] /\ cycles'[r] = cycles[r]
  BY <1>1 DEF BillInv
<1> QED
  BY <1>1, <1>2, <1>3 DEF BillInv, passVars

LEMMA SyncStepBill ==
    ASSUME TypeOK, TypeOK', BillInv, SyncStep
    PROVE  BillInv'
<1> USE DEF rowVars, passVars, history, bounds, Unfrozen
<1>1. CASE StartFull
  BY <1>1, OthersBill DEF StartFull, Start
<1>2. CASE EndSync
  <2>1. UNCHANGED passVars /\ UNCHANGED <<attempts, cycles>>
    BY <1>2 DEF EndSync
  <2>2. \A r \in RowId : status[r] \in Unfrozen => status'[r] \in Unfrozen
    BY <1>2 DEF EndSync, Resolve
  <2> QED
    BY <2>1, <2>2, OthersBill
<1>3. CASE SyncAborts
  BY <1>3, OthersBill DEF SyncAborts
<1>4. ASSUME NEW x \in Records, StartRetry(x) PROVE BillInv'
  BY <1>4, OthersBill DEF StartRetry, Start
<1>5. ASSUME NEW x \in Records, ApplyOk(x) PROVE BillInv'
  BY <1>5, OthersBill DEF ApplyOk
<1>6. ASSUME NEW x \in Records, ApplySkip(x) PROVE BillInv'
  BY <1>6, OthersBill DEF ApplySkip
<1>7. ASSUME NEW x \in Records, ApplyFails(x) PROVE BillInv'
  <2>1. UNCHANGED passVars
    BY <1>7 DEF ApplyFails
  <2>2. CASE \E aid \in BOOLEAN : AddDeadLetter(x, aid)
    <3>1. PICK aid \in BOOLEAN, r \in RowId : Fold(r, aid) \/ Insert(x, r, aid)
      BY <2>2, AddCases
    <3>2. CASE Fold(r, aid)
      BY <2>1, <3>2, OthersBill DEF Fold
    <3>3. CASE Insert(x, r, aid)
      <4>1. status[r] = "absent" /\ attempts'[r] = 1 /\ cycles'[r] = 0
        BY <3>3 DEF Insert, TypeOK
      <4>2. \A k \in RowId \ {r} : UNCHANGED <<attempts[k], cycles[k], status[k]>>
        BY <3>3 DEF Insert, TypeOK
      <4> QED
        BY <2>1, <4>1, <4>2, OthersBill
    <3> QED
      BY <3>1, <3>2, <3>3
  <2>3. CASE UNCHANGED <<rowVars, cycles>>
    BY <2>1, <2>3, OthersBill
  <2> QED
    BY <1>7, <2>2, <2>3 DEF ApplyFails
<1> QED
  BY <1>1, <1>2, <1>3, <1>4, <1>5, <1>6, <1>7 DEF SyncStep

LEMMA PassStepBill ==
    ASSUME TypeOK, TypeOK', BillInv, PassStart \/ PassWork
    PROVE  BillInv'
<1> USE DEF TypeOK, rowVars, history, bounds, BillInv, InHand, Unfrozen, NeverBilledTwice
<1>1. CASE PassStart
  BY <1>1 DEF PassStart
<1>2. ASSUME NEW x \in Records, QueueRetry(x) PROVE BillInv'
  <2>1. \A r \in RowId : cycles'[r] = IF r \in Group(x) THEN cycles[r] + 1 ELSE cycles[r]
    BY <1>2 DEF QueueRetry, CountCycle
  <2>2. /\ UNCHANGED <<attempts, status, fresh, pc>> /\ pc = "queue"
        /\ batch' \subseteq batch /\ Group(x) \subseteq batch
        /\ charged' = charged \cup Group(x)
    BY <1>2 DEF QueueRetry, Group
  <2> QED
    BY <2>1, <2>2
<1>3. ASSUME NEW x \in Records, QueueFails(x) PROVE BillInv'
  <2>1. \A r \in RowId : cycles'[r] \in {cycles[r], cycles[r] + 1}
    BY <1>3 DEF QueueFails, CountCycle
  <2>2. UNCHANGED <<attempts, status, fresh, pc, seen, charged>> /\ batch' \subseteq batch
    BY <1>3 DEF QueueFails
  <2> QED
    BY <2>1, <2>2
<1>4. ASSUME NEW x \in Records, HoldGroup(x) PROVE BillInv'
  BY <1>4 DEF HoldGroup
<1>5. CASE MarkRead
  BY <1>5 DEF MarkRead
<1>6. CASE MarkCommit
  <2>1. \A r \in RowId : attempts'[r] = IF r \in fresh THEN seen[r] + 1 ELSE attempts[r]
    BY <1>6 DEF MarkCommit
  <2>2. pc = "mark" /\ pc' = "hold" /\ fresh' = {} /\ cycles' = cycles
    BY <1>6 DEF MarkCommit
  <2> QED
    BY <2>1, <2>2
<1>7. CASE HoldRead
  BY <1>7 DEF HoldRead
<1>8. CASE HoldCommit
  BY <1>8 DEF HoldCommit
<1>9. CASE Alert
  BY <1>9 DEF Alert, EndPass
<1>10. CASE PassFails
  BY <1>10 DEF PassFails, EndPass
<1> QED
  BY <1>1, <1>2, <1>3, <1>4, <1>5, <1>6, <1>7, <1>8, <1>9, <1>10 DEF PassWork

\* Opening frozen rows again touches none the pass has in hand.
LEMMA ReopenBill ==
    ASSUME TypeOK, TypeOK', BillInv, UNCHANGED passVars, NEW rows,
           Reopen(rows), \A r \in rows : status[r] = "frozen"
    PROVE  BillInv'
<1>1. \A r \in RowId : IF r \in rows
                       THEN status[r] = "frozen" /\ attempts'[r] = 0 /\ cycles'[r] = 0
                       ELSE UNCHANGED <<attempts[r], cycles[r], status[r]>>
  BY DEF Reopen, TypeOK
<1> QED
  BY <1>1, OthersBill DEF Unfrozen

LEMMA OperatorStepBill ==
    ASSUME TypeOK, TypeOK', BillInv, OperatorStep
    PROVE  BillInv'
<1> USE DEF rowVars, history, Unfrozen
<1>0. UNCHANGED passVars
  BY DEF OperatorStep, RetryNow, UnfreezeAll, MarkResolved, DeleteRow, SetBudget, Link,
         Operate
<1>1. ASSUME NEW r \in RowId, RetryNow(r) PROVE BillInv'
  <2> DEFINE rows == {r} \ {k \in RowId : status[k] = "open"}
  <2>1. Reopen(rows) /\ \A k \in rows : status[k] = "frozen"
    BY <1>1 DEF RetryNow, Pending
  <2> QED
    BY <1>0, <2>1, ReopenBill
<1>2. CASE UnfreezeAll
  <2> DEFINE frozen == {k \in RowId : status[k] = "frozen"}
  <2>1. Reopen(frozen)
    BY <1>2 DEF UnfreezeAll
  <2> QED
    BY <1>0, <2>1, ReopenBill
<1>3. ASSUME NEW r \in RowId, MarkResolved(r) PROVE BillInv'
  BY <1>0, <1>3, OthersBill DEF MarkResolved, Resolve
<1>4. ASSUME NEW r \in RowId, DeleteRow(r) PROVE BillInv'
  <2>1. \A k \in RowId : UNCHANGED <<attempts[k], cycles[k]>>
                        /\ (k # r => status'[k] = status[k])
    BY <1>4 DEF DeleteRow, TypeOK
  <2>2. status'[r] = "deleted"
    BY <1>4 DEF DeleteRow, TypeOK
  <2> QED
    BY <1>0, <2>1, <2>2, OthersBill
<1>5. ASSUME NEW b \in 2..MaxBudget, SetBudget(b) PROVE BillInv'
  BY <1>0, <1>5, OthersBill DEF SetBudget
<1>6. ASSUME NEW x \in Records, Link(x) PROVE BillInv'
  BY <1>0, <1>6, OthersBill DEF Link
<1> QED
  BY <1>1, <1>2, <1>3, <1>4, <1>5, <1>6 DEF OperatorStep

LEMMA BillStep == TypeOK /\ TypeOK' /\ BillInv /\ [Next]_vars => BillInv'
<1> SUFFICES ASSUME TypeOK, TypeOK', BillInv, [Next]_vars PROVE BillInv'
  OBVIOUS
<1> USE DEF rowVars, history
<1>1. CASE SyncStep
  BY <1>1, SyncStepBill
<1>2. CASE PassStart \/ PassWork
  BY <1>2, PassStepBill
<1>3. CASE OperatorStep
  BY <1>3, OperatorStepBill
<1>4. ASSUME NEW r \in RowId, ComesDue(r) PROVE BillInv'
  BY <1>4, OthersBill DEF ComesDue
<1>5. CASE Crash
  BY <1>5 DEF Crash, EndPass, BillInv, InHand, NeverBilledTwice
<1>6. CASE UNCHANGED vars
  BY <1>6, OthersBill DEF vars
<1> QED
  BY <1>1, <1>2, <1>3, <1>4, <1>5, <1>6 DEF Next

\* A cycle is billed once, however the retried syncs fail and re-log the row
\* (the budget model at the head of reconcile.py).
THEOREM BilledOnce == Spec => []NeverBilledTwice
<1>1. Init => TypeOK /\ BillInv
  BY InitType, InitBill
<1>2. TypeOK /\ BillInv /\ [Next]_vars => (TypeOK /\ BillInv)'
  BY TypeStep, BillStep
<1>3. TypeOK /\ BillInv => NeverBilledTwice
  BY DEF BillInv
<1> QED
  BY <1>1, <1>2, <1>3, PTL DEF Spec

-----------------------------------------------------------------------------
(* Resolution.                                                             *)

ResolvedStep ==
    \A r \in RowId :
        /\ status[r] = "resolved" /\ r \notin fresh => status'[r] \in {"resolved", "deleted"}
        /\ r \in fresh' \ fresh => status[r] = "open"

LEMMA StepKeepsResolved == TypeOK /\ [Next]_vars => ResolvedStep
<1> SUFFICES ASSUME TypeOK, [Next]_vars PROVE ResolvedStep
  OBVIOUS
<1> USE DEF ResolvedStep, rowVars, passVars
<1>1. CASE SyncStep
  <2>1. UNCHANGED fresh
    BY <1>1 DEF SyncStep, StartFull, EndSync, SyncAborts, StartRetry, Start, ApplyOk,
                ApplySkip, ApplyFails
  <2>2. ASSUME NEW x \in Records, ApplyFails(x), NEW r \in RowId, status[r] = "resolved"
        PROVE  status'[r] = "resolved"
    <3>1. CASE \E aid \in BOOLEAN : AddDeadLetter(x, aid)
      <4>1. PICK aid \in BOOLEAN, k \in RowId : Fold(k, aid) \/ Insert(x, k, aid)
        BY <3>1, AddCases
      <4> QED
        BY <2>2, <4>1 DEF Fold, Insert, TypeOK
    <3> QED
      BY <2>2, <3>1 DEF ApplyFails
  <2>3. CASE EndSync
    BY <2>1, <2>3 DEF EndSync, Resolve
  <2> QED
    BY <1>1, <2>1, <2>2, <2>3 DEF SyncStep, StartFull, SyncAborts, StartRetry, Start,
                                  ApplyOk, ApplySkip
<1>2. CASE PassStart
  BY <1>2 DEF PassStart
<1>3. CASE PassWork
  <2>1. CASE MarkRead \/ HoldRead
    BY <2>1 DEF MarkRead, HoldRead
  <2>2. CASE MarkCommit
    BY <2>2 DEF MarkCommit, TypeOK
  <2>3. CASE HoldCommit
    BY <2>3 DEF HoldCommit, TypeOK
  <2>4. CASE Alert \/ PassFails
    BY <2>4 DEF Alert, PassFails, EndPass
  <2>5. CASE \E x \in Records : QueueRetry(x) \/ QueueFails(x) \/ HoldGroup(x)
    BY <2>5 DEF QueueRetry, QueueFails, HoldGroup
  <2> QED
    BY <1>3, <2>1, <2>2, <2>3, <2>4, <2>5 DEF PassWork
<1>4. CASE OperatorStep
  <2>1. UNCHANGED fresh
    BY <1>4 DEF OperatorStep, RetryNow, UnfreezeAll, MarkResolved, DeleteRow, SetBudget,
                Link, Operate
  <2>2. ASSUME NEW r \in RowId, RetryNow(r) PROVE ResolvedStep
    BY <2>1, <2>2 DEF RetryNow, Reopen, Pending, TypeOK
  <2>3. CASE UnfreezeAll
    BY <2>1, <2>3 DEF UnfreezeAll, Reopen, TypeOK
  <2>4. ASSUME NEW r \in RowId, MarkResolved(r) PROVE ResolvedStep
    BY <2>1, <2>4 DEF MarkResolved, Resolve, TypeOK
  <2>5. ASSUME NEW r \in RowId, DeleteRow(r) PROVE ResolvedStep
    BY <2>1, <2>5 DEF DeleteRow, TypeOK
  <2>6. ASSUME NEW b \in 2..MaxBudget, SetBudget(b) PROVE ResolvedStep
    BY <2>1, <2>6 DEF SetBudget
  <2>7. ASSUME NEW x \in Records, Link(x) PROVE ResolvedStep
    BY <2>1, <2>7 DEF Link
  <2> QED
    BY <1>4, <2>2, <2>3, <2>4, <2>5, <2>6, <2>7 DEF OperatorStep
<1>5. CASE \E r \in RowId : ComesDue(r)
  BY <1>5 DEF ComesDue
<1>6. CASE Crash
  BY <1>6 DEF Crash, EndPass
<1>7. CASE UNCHANGED vars
  BY <1>7 DEF vars
<1> QED
  BY <1>1, <1>2, <1>3, <1>4, <1>5, <1>6, <1>7 DEF Next

\* Nothing but the pass's commit of rows it re-read open opens or freezes a
\* resolved row.
THEOREM ResolvedRowsStay == Spec => ResolvedStays
<1>1. TypeOK /\ [Next]_vars => [ResolvedStep]_vars
  BY StepKeepsResolved
<1> QED
  BY <1>1, TypeCorrect, PTL DEF Spec, ResolvedStays, ResolvedStep

-----------------------------------------------------------------------------
(* What a step of anyone but the pass may do to a row: it never undeletes  *)
(* one, never freezes one, and starts over only rows the pass has not in   *)
(* hand.                                                                   *)

Gone == {r \in RowId : status[r] = "deleted"}

QuietRow(r) ==
    /\ status[r] = "deleted" => status'[r] = "deleted"
    /\ status'[r] = "frozen" => status[r] = "frozen" /\ (r \in alerted => r \in alerted')
    /\ \/ /\ attempts'[r] = attempts[r] /\ cycles'[r] = cycles[r]
          /\ status'[r] \in Pending => status[r] \in Pending
          /\ status[r] \in {"resolved", "deleted"} => status'[r] \in {"resolved", "deleted"}
          /\ status[r] = "open" => status'[r] \in Unfrozen
       \/ cycles'[r] = 0 /\ status[r] \notin Unfrozen

Quiet == UNCHANGED passVars /\ faults <= faults' /\ \A r \in RowId : QuietRow(r)

LEMMA SyncQuiet == ASSUME TypeOK, TypeOK', SyncStep PROVE Quiet
<1> USE DEF Quiet, QuietRow, rowVars, passVars, history, bounds, Unfrozen, Pending, TypeOK
<1>1. CASE StartFull
  BY <1>1 DEF StartFull, Start
<1>2. CASE EndSync
  <2>1. faults <= faults'
    BY <1>2 DEF EndSync, Fault
  <2>2. CASE UNCHANGED <<status, alerted, due>>
    BY <1>2, <2>1, <2>2 DEF EndSync
  <2>3. CASE Resolve(UNION {Rows(x) : x \in wrote})
    <3> DEFINE rows == UNION {Rows(x) : x \in wrote}
    <3>1. \A r \in RowId : status'[r] = IF r \in rows THEN "resolved" ELSE status[r]
      BY <2>3 DEF Resolve
    <3>2. \A r \in rows : status[r] \in Pending
      BY DEF Rows
    <3>3. alerted' = alerted \ rows
      BY <2>3 DEF Resolve
    <3> QED
      BY <1>2, <2>1, <3>1, <3>2, <3>3 DEF EndSync
  <2> QED
    BY <1>2, <2>2, <2>3 DEF EndSync
<1>3. CASE SyncAborts
  BY <1>3 DEF SyncAborts, Fault
<1>4. ASSUME NEW x \in Records, StartRetry(x) PROVE Quiet
  BY <1>4 DEF StartRetry, Start
<1>5. ASSUME NEW x \in Records, ApplyOk(x) PROVE Quiet
  BY <1>5 DEF ApplyOk
<1>6. ASSUME NEW x \in Records, ApplySkip(x) PROVE Quiet
  BY <1>6 DEF ApplySkip
<1>7. ASSUME NEW x \in Records, ApplyFails(x) PROVE Quiet
  <2>1. UNCHANGED <<passVars, alerted>> /\ faults <= faults'
    BY <1>7 DEF ApplyFails, Fault
  <2>2. CASE \E aid \in BOOLEAN : AddDeadLetter(x, aid)
    <3>1. PICK aid \in BOOLEAN, r \in RowId : Fold(r, aid) \/ Insert(x, r, aid)
      BY <2>2, AddCases
    <3>2. CASE Fold(r, aid)
      BY <2>1, <3>2 DEF Fold
    <3>3. CASE Insert(x, r, aid)
      BY <2>1, <3>3 DEF Insert
    <3> QED
      BY <3>1, <3>2, <3>3
  <2>3. CASE UNCHANGED <<rowVars, cycles>>
    BY <2>1, <2>3
  <2> QED
    BY <1>7, <2>2, <2>3 DEF ApplyFails
<1> QED
  BY <1>1, <1>2, <1>3, <1>4, <1>5, <1>6, <1>7 DEF SyncStep

LEMMA ReopenQuiet ==
    ASSUME TypeOK, NEW rows, Reopen(rows), \A r \in rows : status[r] = "frozen"
    PROVE  \A r \in RowId : QuietRow(r)
<1>1. \A r \in RowId : IF r \in rows
                       THEN status[r] = "frozen" /\ status'[r] = "open" /\ cycles'[r] = 0
                       ELSE UNCHANGED <<attempts[r], cycles[r], status[r]>>
  BY DEF Reopen, TypeOK
<1>2. alerted' = alerted \ rows
  BY DEF Reopen
<1> QED
  BY <1>1, <1>2 DEF QuietRow, Unfrozen, Pending

LEMMA OperatorQuiet == ASSUME TypeOK, TypeOK', OperatorStep PROVE Quiet
<1> USE DEF Quiet, rowVars, history, TypeOK
<1>0. UNCHANGED passVars /\ faults <= faults'
  <2>1. \E action \in OperatorMay : Operate(action)
    BY DEF OperatorStep, RetryNow, UnfreezeAll, MarkResolved, DeleteRow, SetBudget, Link,
           Operate
  <2> QED
    BY <2>1 DEF Operate
<1>1. ASSUME NEW r \in RowId, RetryNow(r) PROVE Quiet
  <2> DEFINE rows == {r} \ {k \in RowId : status[k] = "open"}
  <2>1. Reopen(rows) /\ \A k \in rows : status[k] = "frozen"
    BY <1>1 DEF RetryNow, Pending
  <2> QED
    BY <1>0, <2>1, ReopenQuiet
<1>2. CASE UnfreezeAll
  <2> DEFINE frozen == {k \in RowId : status[k] = "frozen"}
  <2>1. Reopen(frozen)
    BY <1>2 DEF UnfreezeAll
  <2> QED
    BY <1>0, <2>1, ReopenQuiet
<1>3. ASSUME NEW r \in RowId, MarkResolved(r) PROVE Quiet
  BY <1>0, <1>3 DEF MarkResolved, Resolve, QuietRow, Unfrozen, Pending
<1>4. ASSUME NEW r \in RowId, DeleteRow(r) PROVE Quiet
  BY <1>0, <1>4 DEF DeleteRow, QuietRow, Unfrozen, Pending
<1>5. ASSUME NEW b \in 2..MaxBudget, SetBudget(b) PROVE Quiet
  BY <1>0, <1>5 DEF SetBudget, QuietRow, Unfrozen, Pending
<1>6. ASSUME NEW x \in Records, Link(x) PROVE Quiet
  BY <1>0, <1>6 DEF Link, QuietRow, Unfrozen, Pending
<1> QED
  BY <1>1, <1>2, <1>3, <1>4, <1>5, <1>6 DEF OperatorStep

\* Only the pass and the end of its process are not quiet.
LEMMA QuietSteps ==
    ASSUME TypeOK, TypeOK', [Next]_vars, ~PassStart, ~PassWork, ~Crash
    PROVE  Quiet
<1>1. CASE \E r \in RowId : ComesDue(r)
  BY <1>1 DEF ComesDue, Quiet, QuietRow, passVars, history, bounds, Unfrozen, Pending, TypeOK
<1>2. CASE UNCHANGED vars
  BY <1>2 DEF vars, Quiet, QuietRow, rowVars, history, bounds, Unfrozen, Pending, TypeOK
<1> QED
  BY <1>1, <1>2, SyncQuiet, OperatorQuiet DEF Next

\* Deleted rows are finitely many: what can cut a pass short is a number.
LEMMA RowsFinite ==
    ASSUME NEW S \in SUBSET RowId
    PROVE  IsFiniteSet(S) /\ Cardinality(S) \in Nat
<1>1. IsFiniteSet(RowId)
  BY BoundsAssumption, FS_Interval DEF RowId
<1> QED
  BY <1>1, FS_Subset, FS_CardinalityType

LEMMA MoreRows ==
    ASSUME NEW S \in SUBSET RowId, NEW T \in SUBSET S
    PROVE  Cardinality(T) <= Cardinality(S)
  BY RowsFinite, FS_Subset

\* Faults and deletions, those of the rows in S aside.
LostBut(S) == faults + Cardinality(Gone \ S)

LEMMA LostIsNat ==
    ASSUME TypeOK, NEW S
    PROVE  LostBut(S) \in Nat /\ LostBut(S) <= CutShort /\ CutShort = LostBut({})
<1>1. Gone \in SUBSET RowId /\ Gone \ S \in SUBSET Gone /\ Gone \ S \in SUBSET RowId
  BY DEF Gone
<1>2. Gone \ {} = Gone
  OBVIOUS
<1> QED
  BY <1>1, <1>2, RowsFinite, MoreRows DEF LostBut, CutShort, Gone, TypeOK

\* They only grow, as long as no deleted row comes back.
LEMMA LostGrows ==
    ASSUME TypeOK, TypeOK', NEW S, faults <= faults',
           \A r \in RowId : status[r] = "deleted" => status'[r] = "deleted"
    PROVE  faults + Cardinality(Gone \ S) <= faults' + Cardinality(Gone' \ S)
<1>1. Gone' \ S \in SUBSET RowId /\ Gone \ S \in SUBSET (Gone' \ S)
      /\ Gone \ S \in SUBSET RowId
  BY DEF Gone
<1>2. Cardinality(Gone \ S) <= Cardinality(Gone' \ S)
  BY <1>1, MoreRows
<1> QED
  BY <1>1, <1>2, RowsFinite DEF TypeOK

LEMMA CutShortGrows ==
    ASSUME TypeOK, TypeOK', faults <= faults',
           \A r \in RowId : status[r] = "deleted" => status'[r] = "deleted"
    PROVE  CutShort \in Nat /\ CutShort' \in Nat /\ CutShort <= CutShort'
<1>1. Gone \ {} = Gone /\ Gone' \ {} = Gone'
  OBVIOUS
<1>2. Gone \in SUBSET RowId /\ Gone' \in SUBSET RowId
  BY DEF Gone
<1>3. faults + Cardinality(Gone) <= faults' + Cardinality(Gone')
  <2>1. faults + Cardinality(Gone \ {}) <= faults' + Cardinality(Gone' \ {})
    BY LostGrows
  <2> QED
    BY <1>1, <2>1
<1>4. CutShort = faults + Cardinality(Gone) /\ CutShort' = faults' + Cardinality(Gone')
  BY DEF CutShort, Gone
<1> QED
  BY <1>2, <1>3, <1>4, RowsFinite DEF TypeOK

-----------------------------------------------------------------------------
(* No retry is free.  A row the pass has queued a retry for owes one       *)
(* attempt until the commit charges it; only a fault, or the deletion of a *)
(* row of the commit, lets the pass forget the debt.                       *)

AllBilled ==
    \A r \in RowId :
        (status[r] \in Pending \/ r \in batch \cup fresh) /\ r \notin charged
            => cycles[r] <= attempts[r] + CutShort

CyclesInv ==
    /\ AllBilled
    /\ batch \cap charged = {}
    /\ pc # "queue" => batch = {}
    /\ pc \notin {"mark", "freeze"} => fresh = {}
    /\ pc \notin {"queue", "mark"} => charged = {}
    /\ \A r \in charged : status[r] \in Unfrozen
    /\ pc = "queue" => \A r \in charged : cycles[r] <= attempts[r] + 1 + CutShort
    /\ pc = "mark" =>
         /\ fresh \subseteq charged
         /\ \A r \in charged \ fresh : status[r] \in {"resolved", "deleted"}
         /\ \A r \in fresh : seen[r] = attempts[r]
                             /\ cycles[r] <= attempts[r] + 1 + LostBut(fresh)

LEMMA InitCycles == Init => CyclesInv
  BY DEF Init, CyclesInv, AllBilled, Pending

LEMMA QuietCycles ==
    ASSUME TypeOK, TypeOK', BillInv, CyclesInv, Quiet
    PROVE  CyclesInv'
<1> USE DEF Quiet, QuietRow, passVars
<1>1. CutShort \in Nat /\ CutShort' \in Nat /\ CutShort <= CutShort'
  BY CutShortGrows
<1>2. /\ UNCHANGED <<pc, batch, charged, fresh, seen>>
      /\ \A r \in RowId : /\ attempts[r] \in Nat /\ attempts'[r] \in Nat
                          /\ cycles[r] \in Nat /\ cycles'[r] \in Nat
  BY DEF TypeOK
<1>3. \A r \in charged \cup batch \cup fresh :
        r \in RowId /\ UNCHANGED <<attempts[r], cycles[r]>> /\ status[r] \in Unfrozen
  <2>1. \A r \in charged \cup batch \cup fresh : r \in RowId /\ status[r] \in Unfrozen
    BY DEF CyclesInv, BillInv, InHand, TypeOK
  <2> QED
    BY <2>1
<1>4. AllBilled'
  <2> SUFFICES ASSUME NEW r \in RowId, status'[r] \in Pending \/ r \in batch \cup fresh,
                      r \notin charged
               PROVE  cycles'[r] <= attempts'[r] + CutShort'
    BY <1>2 DEF AllBilled
  <2>1. CASE cycles'[r] = 0
    BY <1>1, <1>2, <2>1
  <2>2. CASE cycles'[r] # 0
    <3>1. /\ cycles'[r] = cycles[r] /\ attempts'[r] = attempts[r]
          /\ status[r] \in Pending \/ r \in batch \cup fresh
      BY <2>2, <1>3
    <3> QED
      BY <1>1, <1>2, <3>1 DEF CyclesInv, AllBilled
  <2> QED
    BY <2>1, <2>2
<1>5. \A r \in charged : status'[r] \in Unfrozen
  BY <1>3 DEF Unfrozen
<1>6. pc = "queue" => \A r \in charged : cycles'[r] <= attempts'[r] + 1 + CutShort'
  BY <1>1, <1>2, <1>3 DEF CyclesInv
<1>7. ASSUME pc = "mark"
      PROVE  /\ \A r \in charged \ fresh : status'[r] \in {"resolved", "deleted"}
             /\ \A r \in fresh : seen[r] = attempts'[r]
                                 /\ cycles'[r] <= attempts'[r] + 1 + LostBut(fresh)'
  <2>1. LostBut(fresh) <= LostBut(fresh)' /\ LostBut(fresh) \in Nat /\ LostBut(fresh)' \in Nat
    <3>1. faults + Cardinality(Gone \ fresh) <= faults' + Cardinality(Gone' \ fresh)
      BY LostGrows
    <3>2. Gone \ fresh \in SUBSET RowId /\ Gone' \ fresh \in SUBSET RowId
      BY DEF Gone
    <3> QED
      BY <1>2, <3>1, <3>2, RowsFinite DEF LostBut, TypeOK
  <2>2. \A r \in charged \ fresh : status'[r] \in {"resolved", "deleted"}
    <3>1. \A r \in charged \ fresh : status[r] \in {"resolved", "deleted"}
      BY <1>7 DEF CyclesInv
    <3> QED
      BY <1>3, <3>1 DEF Unfrozen
  <2> QED
    BY <1>2, <1>3, <1>7, <2>1, <2>2 DEF CyclesInv
<1> QED
  BY <1>2, <1>4, <1>5, <1>6, <1>7 DEF CyclesInv

\* When the pass ends early and forgets what it charged, the fault or the
\* deleted row that ended it stands for the attempt.
LEMMA ForgottenCycles ==
    ASSUME TypeOK, TypeOK', BillInv, CyclesInv,
           EndPass, UNCHANGED rowVars, UNCHANGED cycles, faults <= faults',
           charged # {} => \/ faults' = faults + 1
                           \/ pc = "mark" /\ \E r \in fresh : status[r] = "deleted"
    PROVE  CyclesInv'
<1> USE DEF EndPass, rowVars
<1>1. CutShort \in Nat /\ CutShort' \in Nat /\ CutShort <= CutShort'
  BY CutShortGrows
<1>2. faults' = faults + 1 => CutShort' = CutShort + 1
  <2>1. CutShort' = faults' + Cardinality(Gone) /\ CutShort = faults + Cardinality(Gone)
    BY DEF CutShort, Gone
  <2>2. Gone \in SUBSET RowId
    BY DEF Gone
  <2> QED
    BY <2>1, <2>2, RowsFinite DEF TypeOK
<1>3. \A r \in RowId : attempts[r] \in Nat /\ cycles[r] \in Nat
  BY DEF TypeOK
<1>4. AllBilled'
  <2> SUFFICES ASSUME NEW r \in RowId, status[r] \in Pending
               PROVE  cycles[r] <= attempts[r] + CutShort'
    BY DEF AllBilled
  <2>1. CASE r \notin charged
    BY <1>1, <1>3, <2>1 DEF CyclesInv, AllBilled
  <2>2. CASE r \in charged /\ pc = "queue"
    <3>1. faults' = faults + 1
      BY <2>2
    <3> QED
      BY <1>1, <1>2, <1>3, <2>2, <3>1 DEF CyclesInv
  <2>3. CASE r \in charged /\ pc = "mark"
    <3>1. r \in fresh
      BY <2>3 DEF CyclesInv, Pending
    <3>2. LostBut(fresh) \in Nat /\ cycles[r] <= attempts[r] + 1 + LostBut(fresh)
      BY <2>3, <3>1, LostIsNat DEF CyclesInv
    <3>3. LostBut(fresh) + 1 <= CutShort'
      <4>1. CASE faults' = faults + 1
        BY <1>1, <1>2, <3>2, <4>1, LostIsNat
      <4>2. CASE \E k \in fresh : status[k] = "deleted"
        <5>1. PICK k \in fresh : status[k] = "deleted"
          BY <4>2
        <5>2. /\ Gone \in SUBSET RowId /\ k \in Gone
              /\ Gone \ {k} \in SUBSET RowId
              /\ Gone \ fresh \in SUBSET (Gone \ {k})
          BY <5>1 DEF Gone, TypeOK
        <5>3. Cardinality(Gone \ {k}) = Cardinality(Gone) - 1
          BY <5>2, RowsFinite, FS_RemoveElement
        <5>4. Cardinality(Gone \ fresh) <= Cardinality(Gone \ {k})
          BY <5>2, MoreRows
        <5>5. CutShort = faults + Cardinality(Gone)
          BY DEF CutShort, Gone
        <5>6. Gone \ fresh \in SUBSET RowId
          BY <5>2
        <5> QED
          BY <1>1, <5>2, <5>3, <5>4, <5>5, <5>6, RowsFinite DEF LostBut, TypeOK
      <4> QED
        BY <2>3, <4>1, <4>2
    <3> QED
      BY <1>1, <1>3, <3>2, <3>3
  <2> QED
    BY <2>1, <2>2, <2>3 DEF CyclesInv
<1> QED
  BY <1>4 DEF CyclesInv

LEMMA QueueCycles ==
    ASSUME TypeOK, TypeOK', BillInv, CyclesInv, NEW x \in Records,
           QueueRetry(x) \/ QueueFails(x) \/ HoldGroup(x)
    PROVE  CyclesInv'
<1> USE DEF rowVars, history, Group
<1>1. \A r \in RowId : attempts[r] \in Nat /\ cycles[r] \in Nat
  BY DEF TypeOK
<1>2. pc = "queue" /\ \A r \in batch : status[r] \in Unfrozen /\ r \in RowId
  BY DEF QueueRetry, QueueFails, HoldGroup, BillInv, InHand, TypeOK
<1>3. CASE QueueRetry(x)
  <2>1. CutShort' = CutShort /\ CutShort \in Nat
    BY <1>3, LostIsNat DEF QueueRetry, CutShort, bounds
  <2>2. \A r \in RowId : cycles'[r] = IF r \in Group(x) THEN cycles[r] + 1 ELSE cycles[r]
    BY <1>3 DEF QueueRetry, CountCycle
  <2>3. /\ UNCHANGED <<pc, status, attempts, fresh, seen>>
        /\ batch' = batch \ Group(x) /\ charged' = charged \cup Group(x)
    BY <1>3 DEF QueueRetry
  <2>4. AllBilled'
    BY <2>1, <2>2, <2>3 DEF CyclesInv, AllBilled
  <2>5. \A r \in Group(x) : cycles'[r] <= attempts[r] + 1 + CutShort
    BY <1>1, <1>2, <2>1, <2>2 DEF CyclesInv, AllBilled
  <2>6. \A r \in charged : cycles'[r] <= attempts[r] + 1 + CutShort
    BY <1>2, <2>2 DEF CyclesInv, TypeOK
  <2> QED
    BY <1>2, <2>1, <2>3, <2>4, <2>5, <2>6 DEF CyclesInv
<1>4. CASE HoldGroup(x)
  <2>1. /\ UNCHANGED <<pc, status, attempts, cycles, charged, fresh, seen, faults>>
        /\ batch' \subseteq batch
    BY <1>4 DEF HoldGroup, bounds
  <2>2. CutShort \in Nat /\ CutShort' = CutShort
    BY <2>1, LostIsNat DEF CutShort
  <2>3. AllBilled'
    BY <2>1, <2>2 DEF CyclesInv, AllBilled
  <2> QED
    BY <1>2, <2>1, <2>2, <2>3 DEF CyclesInv
<1>5. CASE QueueFails(x)
  <2>1. /\ UNCHANGED <<pc, status, attempts, charged, fresh, seen>>
        /\ batch' = batch \ Group(x) /\ faults' = faults + 1
    BY <1>5 DEF QueueFails, Fault
  <2>2. \A r \in RowId : \/ cycles'[r] = cycles[r]
                         \/ r \in Group(x) /\ cycles'[r] = cycles[r] + 1
    BY <1>5 DEF QueueFails, CountCycle
  <2>3. CutShort \in Nat /\ CutShort' = CutShort + 1
    <3>1. /\ CutShort = faults + Cardinality(Gone)
          /\ CutShort' = faults' + Cardinality(Gone')
          /\ Gone' = Gone /\ Gone \in SUBSET RowId
      BY <2>1 DEF CutShort, Gone
    <3>2. Cardinality(Gone) \in Nat
      BY <3>1, RowsFinite
    <3> QED
      BY <2>1, <3>1, <3>2 DEF TypeOK
  <2>4. AllBilled'
    BY <1>1, <2>1, <2>2, <2>3 DEF CyclesInv, AllBilled
  <2>5. \A r \in charged : cycles'[r] <= attempts[r] + 1 + CutShort'
    BY <1>1, <1>2, <2>1, <2>2, <2>3 DEF CyclesInv, TypeOK
  <2> QED
    BY <1>2, <2>1, <2>4, <2>5 DEF CyclesInv
<1> QED
  BY <1>3, <1>4, <1>5

LEMMA MarkReadCycles ==
    ASSUME TypeOK, TypeOK', BillInv, CyclesInv, MarkRead
    PROVE  CyclesInv'
<1> USE DEF MarkRead, rowVars, history, bounds
<1>1. CutShort' = CutShort
  BY DEF CutShort
<1>2. AllBilled'
  BY <1>1 DEF CyclesInv, AllBilled
<1>3. LostBut(fresh)' = CutShort
  <2>1. Gone' \ fresh' = Gone
    BY DEF Gone
  <2> QED
    BY <2>1 DEF LostBut, CutShort, Gone
<1>4. \A r \in fresh' : seen'[r] = attempts'[r]
                        /\ cycles'[r] <= attempts'[r] + 1 + LostBut(fresh)'
  BY <1>3 DEF CyclesInv
<1>5. \A r \in charged \ fresh' : status[r] \in {"resolved", "deleted"}
  BY DEF CyclesInv, Unfrozen, TypeOK
<1> QED
  BY <1>2, <1>4, <1>5 DEF CyclesInv

LEMMA MarkCommitCycles ==
    ASSUME TypeOK, TypeOK', BillInv, CyclesInv, MarkCommit
    PROVE  CyclesInv'
<1>1. /\ pc = "mark" /\ pc' = "hold" /\ fresh' = {} /\ charged' = {} /\ batch' = batch
      /\ UNCHANGED <<cycles, faults>>
      /\ \A r \in RowId :
            /\ attempts'[r] = IF r \in fresh THEN seen[r] + 1 ELSE attempts[r]
            /\ r \in fresh => status[r] # "deleted" /\ status'[r] # "deleted"
            /\ r \notin fresh => status'[r] = status[r]
  <2>1. /\ pc = "mark" /\ pc' = "hold" /\ fresh' = {} /\ charged' = {} /\ batch' = batch
        /\ UNCHANGED <<cycles, faults>>
    BY DEF MarkCommit, Forget, history, bounds
  <2>2. \A r \in RowId : attempts'[r] = IF r \in fresh THEN seen[r] + 1 ELSE attempts[r]
    BY DEF MarkCommit
  <2>3. \A r \in RowId :
           status'[r] = IF r \in fresh /\ Spent(r) THEN "frozen" ELSE status[r]
    BY DEF MarkCommit
  <2>4. \A r \in fresh : status[r] # "deleted"
    BY DEF MarkCommit
  <2> QED
    BY <2>1, <2>2, <2>3, <2>4
<1>2. CutShort' = CutShort
  BY <1>1 DEF CutShort, TypeOK
<1>3. AllBilled'
  <2> SUFFICES ASSUME NEW r \in RowId, status'[r] \in Pending
               PROVE  cycles[r] <= attempts'[r] + CutShort
    BY <1>1, <1>2 DEF AllBilled, CyclesInv
  <2>1. CASE r \in fresh
    <3>1. /\ attempts'[r] = attempts[r] + 1
          /\ cycles[r] <= attempts[r] + 1 + LostBut(fresh)
      BY <1>1, <2>1 DEF CyclesInv
    <3>2. /\ attempts[r] \in Nat /\ cycles[r] \in Nat
          /\ LostBut(fresh) \in Nat /\ LostBut(fresh) <= CutShort /\ CutShort \in Nat
      BY LostIsNat DEF TypeOK
    <3> QED
      BY <3>1, <3>2
  <2>2. CASE r \notin fresh
    <3>1. r \notin charged /\ status[r] \in Pending /\ attempts'[r] = attempts[r]
      BY <1>1, <2>2 DEF CyclesInv, Pending
    <3> QED
      BY <3>1 DEF CyclesInv, AllBilled
  <2> QED
    BY <2>1, <2>2
<1> QED
  BY <1>1, <1>3 DEF CyclesInv

LEMMA PassStepCycles ==
    ASSUME TypeOK, TypeOK', BillInv, CyclesInv, PassStart \/ PassWork \/ Crash
    PROVE  CyclesInv'
<1> USE DEF rowVars, history, bounds
<1>1. CASE PassStart
  <2>1. CutShort' = CutShort /\ CutShort \in Nat
    BY <1>1, LostIsNat DEF PassStart, CutShort
  <2> QED
    BY <1>1, <2>1 DEF PassStart, CyclesInv, AllBilled, Pending, TypeOK
<1>2. ASSUME NEW x \in Records, QueueRetry(x) \/ QueueFails(x) \/ HoldGroup(x)
      PROVE  CyclesInv'
  BY <1>2, QueueCycles
<1>3. CASE HoldRead
  <2>1. CutShort' = CutShort
    BY <1>3 DEF HoldRead, CutShort
  <2> QED
    BY <1>3, <2>1 DEF HoldRead, CyclesInv, AllBilled, Pending, TypeOK
<1>4. CASE HoldCommit
  <2>1. \A r \in RowId : (status'[r] = "deleted") = (status[r] = "deleted")
    BY <1>4 DEF HoldCommit
  <2>2. CutShort' = CutShort
    BY <1>4, <2>1 DEF HoldCommit, CutShort
  <2> QED
    BY <1>4, <2>2 DEF HoldCommit, CyclesInv, AllBilled, Pending, TypeOK
<1>5. CASE Alert
  BY <1>5, ForgottenCycles DEF Alert, CyclesInv, TypeOK
<1>6. CASE PassFails
  <2>1. /\ EndPass /\ UNCHANGED rowVars /\ UNCHANGED cycles /\ faults <= faults'
    BY <1>6 DEF PassFails, Fault, TypeOK
  <2>2. charged # {} => \/ faults' = faults + 1
                        \/ pc = "mark" /\ \E r \in fresh : status[r] = "deleted"
    BY <1>6 DEF PassFails, Fault, CyclesInv
  <2> QED
    BY <2>1, <2>2, ForgottenCycles
<1>7. CASE Crash
  BY <1>7, ForgottenCycles DEF Crash, Fault, TypeOK
<1> QED
  BY <1>1, <1>2, <1>3, <1>4, <1>5, <1>6, <1>7, MarkReadCycles, MarkCommitCycles DEF PassWork

LEMMA CyclesStep == TypeOK /\ TypeOK' /\ BillInv /\ CyclesInv /\ [Next]_vars => CyclesInv'
  BY QuietSteps, QuietCycles, PassStepCycles

\* No retry is free: a pending row's queued retries exceed its attempts by no
\* more than the passes that a fault or a deletion cut short (mark_reconciled
\* is called after the rows' retries are queued, in a transaction of its own).
THEOREM CyclesBilled == Spec => []CyclesAreBilled
<1>1. Init => TypeOK /\ BillInv /\ CyclesInv
  BY InitType, InitBill, InitCycles
<1>2. TypeOK /\ BillInv /\ CyclesInv /\ [Next]_vars => (TypeOK /\ BillInv /\ CyclesInv)'
  BY TypeStep, BillStep, CyclesStep
<1>3. CyclesInv => CyclesAreBilled
  BY DEF CyclesInv, AllBilled, CyclesAreBilled
<1> QED
  BY <1>1, <1>2, <1>3, PTL DEF Spec

-----------------------------------------------------------------------------
(* Escalation.                                                             *)

FreezeInv ==
    /\ FreezesEscalated
    /\ pc \in {"idle", "queue", "mark"} => updated = {} /\ toAlert = {}
    /\ pc = "hold" => toAlert = {}
    /\ pc \in {"freeze", "alert"} => updated = {}

LEMMA InitFreeze == Init => FreezeInv
  BY DEF Init, FreezeInv, FreezesEscalated, EveryFreezeAlerted

LEMMA FreezeStep == TypeOK /\ TypeOK' /\ FreezeInv /\ [Next]_vars => FreezeInv'
<1> SUFFICES ASSUME TypeOK, TypeOK', FreezeInv, [Next]_vars PROVE FreezeInv'
  OBVIOUS
<1> USE DEF FreezeInv, rowVars, history, bounds
<1>1. faults <= faults' /\ \A r \in RowId : status[r] = "deleted" => status'[r] = "deleted"
  <2>1. CASE PassStart \/ PassWork
    BY <2>1 DEF PassStart, PassWork, QueueRetry, QueueFails, HoldGroup, MarkRead,
                MarkCommit, HoldRead, HoldCommit, Alert, PassFails, Fault, TypeOK
  <2>2. CASE Crash
    BY <2>2 DEF Crash, Fault, TypeOK
  <2> QED
    BY <2>1, <2>2, QuietSteps DEF Quiet, QuietRow
<1>2. CutShort \in Nat /\ CutShort' \in Nat /\ CutShort <= CutShort'
  BY <1>1, CutShortGrows
<1>3. CASE ~PassStart /\ ~PassWork /\ ~Crash
  <2>1. Quiet
    BY <1>3, QuietSteps
  <2>2. EveryFreezeAlerted => EveryFreezeAlerted'
    BY <2>1 DEF EveryFreezeAlerted, Quiet, QuietRow, passVars
  <2> QED
    BY <1>2, <2>1, <2>2 DEF FreezesEscalated, Quiet, passVars
<1>4. CASE PassStart \/ MarkRead
           \/ \E x \in Records : QueueRetry(x) \/ QueueFails(x) \/ HoldGroup(x)
  <2>1. /\ UNCHANGED <<status, alerted, updated, toAlert>>
        /\ pc \in {"idle", "queue"} /\ pc' \in {"queue", "mark"}
    BY <1>4 DEF PassStart, MarkRead, QueueRetry, QueueFails, HoldGroup
  <2> QED
    BY <1>2, <2>1 DEF FreezesEscalated, EveryFreezeAlerted
<1>5. CASE MarkCommit
  <2>1. \A r \in RowId : status'[r] = "frozen" => r \in updated' \/ status[r] = "frozen"
    BY <1>5 DEF MarkCommit
  <2> QED
    BY <1>2, <1>5, <2>1 DEF MarkCommit, FreezesEscalated, EveryFreezeAlerted
<1>6. CASE HoldRead
  BY <1>2, <1>6 DEF HoldRead, FreezesEscalated, EveryFreezeAlerted
<1>7. CASE HoldCommit
  <2>1. \A r \in RowId : status'[r] = "frozen" => r \in toAlert' \/ status[r] = "frozen"
    BY <1>7 DEF HoldCommit
  <2> QED
    BY <1>2, <1>7, <2>1 DEF HoldCommit, FreezesEscalated, EveryFreezeAlerted
<1>8. ASSUME \E r \in RowId : status[r] = "deleted" PROVE CutShort > 0
  <2>1. PICK r \in RowId : status[r] = "deleted"
    BY <1>8
  <2>2. r \in Gone /\ Gone \in SUBSET RowId /\ CutShort = faults + Cardinality(Gone)
    BY <2>1 DEF Gone, CutShort
  <2>3. Cardinality(Gone) # 0
    BY <2>2, RowsFinite, FS_EmptySet
  <2> QED
    BY <2>2, <2>3, RowsFinite DEF TypeOK
<1>9. CASE Alert
  <2>1. CASE \E r \in RowId : status[r] = "deleted"
    BY <1>2, <1>8, <1>9, <2>1 DEF Alert, EndPass, FreezesEscalated
  <2>2. CASE ~ \E r \in RowId : status[r] = "deleted"
    BY <1>2, <1>9, <2>2 DEF Alert, EndPass, FreezesEscalated, EveryFreezeAlerted, TypeOK
  <2> QED
    BY <2>1, <2>2
<1>10. CASE PassFails \/ Crash
  <2>1. EndPass
    BY <1>10 DEF PassFails, Crash
  <2>2. CutShort' > 0
    <3>1. CASE Fault
      <4>1. CutShort' = faults' + Cardinality(Gone') /\ Gone' \in SUBSET RowId
        BY DEF CutShort, Gone
      <4> QED
        BY <3>1, <4>1, RowsFinite DEF Fault, TypeOK
    <3>2. CASE ~Fault
      <4>1. \E r \in RowId : status[r] = "deleted"
        BY <1>10, <3>2 DEF PassFails, Crash, TypeOK
      <4> QED
        BY <1>2, <1>8, <4>1
    <3> QED
      BY <3>1, <3>2
  <2> QED
    BY <2>1, <2>2 DEF EndPass, FreezesEscalated
<1> QED
  BY <1>3, <1>4, <1>5, <1>6, <1>7, <1>9, <1>10 DEF PassWork

\* While no pass was cut short every frozen row was escalated to a human, or
\* is in the list the running pass is about to raise.
THEOREM FreezesReachHumans == Spec => []FreezesEscalated
<1>1. Init => TypeOK /\ FreezeInv
  BY InitType, InitFreeze
<1>2. TypeOK /\ FreezeInv /\ [Next]_vars => (TypeOK /\ FreezeInv)'
  BY TypeStep, FreezeStep
<1>3. FreezeInv => FreezesEscalated
  BY DEF FreezeInv
<1> QED
  BY <1>1, <1>2, <1>3, PTL DEF Spec
=============================================================================
