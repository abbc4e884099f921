--------------------------- MODULE PlanningProofs ---------------------------
(***************************************************************************)
(* The components of planning but for money, which RevenueProofs is about, *)
(* and that MCPlanning is made of its parts: what is proved of a component *)
(* is true of the composition the run checks.                              *)
(*                                                                         *)
(* FieldMerge: the write-back never replaces a later value by an earlier   *)
(* one, for every number of edits and of faults.  What a sync knows is old *)
(* when it writes, and the baseline may be older by any number of syncs    *)
(* that failed half way.  The argument is that whatever either side holds, *)
(* or the sync has read of it, is never behind the baseline: it is what    *)
(* the baseline saw in HubSpot, blank, or no earlier than what the         *)
(* baseline saw in Aquira (NotBehind).  That a value differs from the      *)
(* baseline then tells that it is later.                                   *)
(*                                                                         *)
(* CatalogSweep: what a complete sweep proves about the table, for every   *)
(* batch size, dead tail, set of powers and number of records created and  *)
(* deleted meanwhile.  The records still there below the next batch were   *)
(* read (Read), and the ids of the dead batches behind it belong to no     *)
(* record older than the sweep (DeadRun): a record created meanwhile is    *)
(* numbered above all of them.  What was missed therefore lies behind the  *)
(* whole dead tail.                                                        *)
(*                                                                         *)
(* DealLife: a sync acts on a row that may be stale when it writes, for    *)
(* every number of changes in Aquira, on the board, and of faults.  Seen   *)
(* says what the row proves of the contract since it was enumerated;       *)
(* Counted and Charged say that every record and every replaced stage so   *)
(* far, and every one the sync still has in hand, is paid for by a change  *)
(* of status or by a fault.                                                *)
(***************************************************************************)
EXTENDS MCPlanning, RevenueProofs, TLAPS

-----------------------------------------------------------------------------
(* FieldMerge.                                                             *)

NotBehind(v, b) == b.known => v \in {b.hs, Blank, Absent} \/ v >= b.aq

\* Every value was entered by now.
Entered ==
    /\ hs <= clock /\ aq <= clock
    /\ seenAq <= clock /\ seenHs <= clock
    /\ base.hs <= clock /\ base.aq <= clock

\* What was read of Aquira is not ahead of it until the write-back.
AqFollows == step \in {"pull", "plan", "company", "baseline"} => aq = Blank \/ aq >= seenAq

\* HubSpot holds what was read of it, or written to it, or a later value.
HsFollows ==
    /\ step \in {"plan", "company"} => seenHs = Absent \/ hs \in {seenHs, Blank} \/ hs >= seenAq
    /\ step = "baseline" => hs \in {Proposed, Blank} \/ hs >= seenAq

MergeInv ==
    /\ MergeTypeOK
    /\ Entered
    /\ NotBehind(hs, base) /\ NotBehind(aq, base)
    /\ NotBehind(seenHs, base) /\ NotBehind(seenAq, base)
    /\ step \in {"company", "baseline", "back"} => NotBehind(seenHs, seenBase)
    /\ AqFollows
    /\ HsFollows

-----------------------------------------------------------------------------

LEMMA MergeInvInit == MergeInit => MergeInv
BY MergeAssumption
DEF MergeInit, MergeInv, MergeTypeOK, Entered, NotBehind, AqFollows, HsFollows,
    Value, Baseline, NoBase, Absent, Blank, Steps, Plans

LEMMA MergeInvNext == MergeInv /\ [MergeNext]_mergeVars => MergeInv'
<1> SUFFICES ASSUME MergeInv, [MergeNext]_mergeVars PROVE MergeInv'
  OBVIOUS
<1> USE MergeAssumption
    DEF MergeInv, MergeTypeOK, Entered, NotBehind, AqFollows, HsFollows,
        Value, Baseline, Absent, Blank, Steps
<1>0. {"company"} \in Plans
  BY DEF Plans
<1>1. CASE RepEdits
  BY <1>1 DEF RepEdits, Edit, reads, Proposed, FromAquira, Filled
<1>2. CASE StaffEdits
  BY <1>2 DEF StaffEdits, Edit, reads, Proposed, FromAquira, Filled
<1>3. ASSUME NEW items \in Plans, ReadAquira(items) PROVE MergeInv'
  BY <1>3 DEF ReadAquira, Merged, MergeFine, MergeFault, sides, Proposed
<1>4. CASE PullHubSpot
  <2>1. seenHs' \in {hs, Absent} /\ mergeFaults' \in 0 .. MaxMergeFaults
    BY <1>4 DEF PullHubSpot, MergeFine, MergeFault
  <2> QED
    BY <1>4, <2>1 DEF PullHubSpot, sides, Proposed
<1>5. CASE ReadBaseline
  <2>1. seenBase' \in {base, NoBase} /\ mergeFaults' \in 0 .. MaxMergeFaults
    BY <1>5 DEF ReadBaseline, MergeFine, MergeFault
  <2>2. step' \in {"company", "back"}
    BY <1>5 DEF ReadBaseline
  <2>3. NoBase \in Baseline /\ ~NoBase.known
    BY DEF NoBase
  <2>4. NotBehind(seenHs, seenBase')
    BY <2>1, <2>3
  <2>5. seenBase' \in Baseline
    BY <2>1, <2>3
  <2> QED
    BY <1>5, <2>1, <2>2, <2>4, <2>5 DEF ReadBaseline, sides
<1>6. ASSUME NEW other \in BOOLEAN, WriteCompany(other) PROVE MergeInv'
  BY <1>6 DEF WriteCompany, MergeFine, reads, Proposed, FromAquira, Filled
<1>7. CASE CompanyFails
  <2>1. CASE EndMerge
    BY <1>0, <1>7, <2>1 DEF CompanyFails, EndMerge, MergeFault, sides, NoBase
  <2>2. CASE step' = "back" /\ UNCHANGED <<plan, reads>>
    BY <1>7, <2>2 DEF CompanyFails, MergeFault, sides, reads
  <2> QED
    BY <1>7, <2>1, <2>2 DEF CompanyFails, AfterCompany
<1>8. CASE SaveBaseline
  <2>1. mergeFaults' \in 0 .. MaxMergeFaults
    BY <1>8 DEF SaveBaseline, MergeFine, MergeFault
  <2>2. Proposed \in Value /\ Proposed <= clock
    BY DEF Proposed, FromAquira, Filled
  <2>3. base' = base \/ base' = [known |-> TRUE, hs |-> Proposed, aq |-> seenAq]
    BY <1>8 DEF SaveBaseline
  <2>4. base' \in Baseline /\ base'.hs <= clock /\ base'.aq <= clock
    <3>1. CASE base' = base
      BY <1>8, <3>1 DEF SaveBaseline
    <3>2. CASE base' = [known |-> TRUE, hs |-> Proposed, aq |-> seenAq]
      <4>1. base'.hs = Proposed /\ base'.aq = seenAq
        BY <3>2
      <4> QED
        BY <2>2, <3>2, <4>1
    <3> QED
      BY <2>3, <3>1, <3>2
  <2>5. NotBehind(hs, base') /\ NotBehind(aq, base') /\ NotBehind(seenHs, base')
          /\ NotBehind(seenAq, base')
    BY <1>8 DEF SaveBaseline, Proposed, FromAquira, Filled
  <2>6. CASE EndMerge
    BY <1>0, <1>8, <2>1, <2>4, <2>5, <2>6 DEF SaveBaseline, EndMerge, sides, NoBase
  <2>7. CASE step' = "back" /\ UNCHANGED <<plan, reads>>
    BY <1>8, <2>1, <2>4, <2>5, <2>7 DEF SaveBaseline, sides, reads
  <2> QED
    BY <1>8, <2>6, <2>7 DEF SaveBaseline, AfterCompany
<1>9. CASE WriteBack
  BY <1>0, <1>9 DEF WriteBack, WantsBack, EndMerge, MergeFine, NoBase, Filled
<1>10. CASE BackFails
  BY <1>0, <1>10 DEF BackFails, EndMerge, MergeFault, sides, NoBase
<1>11. CASE MergeCrash
  BY <1>0, <1>11 DEF MergeCrash, EndMerge, MergeFault, sides, NoBase
<1>12. CASE UNCHANGED mergeVars
  BY <1>12 DEF mergeVars, Proposed, FromAquira, Filled
<1> QED
  BY <1>1, <1>2, <1>3, <1>4, <1>5, <1>6, <1>7, <1>8, <1>9, <1>10, <1>11, <1>12 DEF MergeNext

LEMMA MergeInvariant == MergeSpec => []MergeInv
BY MergeInvInit, MergeInvNext, PTL DEF MergeSpec

\* Every variable of the merge keeps its type.
THEOREM MergeTypeCorrect == MergeSpec => []MergeTypeOK
BY MergeInvariant, PTL DEF MergeInv

\* Of an Aquira field that is what the sync read, only a later value of
\* HubSpot takes the place, however old the baseline is (_three_way_fields and
\* the write-back plans of planner.py).
THEOREM LaterValueWins == MergeSpec => NewerWins
<1>1. MergeInv /\ [MergeNext]_mergeVars =>
        [step = "back" /\ step' = "idle" /\ aq' # aq
           => aq' > aq \/ aq # seenAq \/ ~seenBase.known]_mergeVars
  <2> SUFFICES ASSUME MergeInv, MergeNext, step = "back", step' = "idle", aq' # aq, aq = seenAq,
                      seenBase.known
               PROVE aq' > aq
    BY DEF mergeVars
  <2>1. CASE WriteBack
    BY <2>1 DEF WriteBack, WantsBack, HsMoved, AqMoved, Filled, MergeInv, MergeTypeOK, NotBehind,
                Value, Baseline, Absent, Blank
  <2>2. CASE StaffEdits
    BY <2>2 DEF StaffEdits, Edit, MergeInv, MergeTypeOK, Entered, Value, Absent, Blank
  <2> QED
    BY <2>1, <2>2
    DEF MergeNext, RepEdits, ReadAquira, PullHubSpot, ReadBaseline, WriteCompany, CompanyFails,
        SaveBaseline, BackFails, MergeCrash, sides
<1> QED
  BY <1>1, MergeInvariant, PTL DEF MergeSpec, NewerWins

-----------------------------------------------------------------------------
(* CatalogSweep.                                                           *)

Fresh == sweep \in {"setup", "probe"} => start = 1 /\ empty = 0 /\ rows = {}

Read == sweep # "partial" => \A id \in before \cap live : id < start => id \in rows

DeadRun ==
    /\ empty * Batch < start
    /\ \A id \in before : \A dead \in start - empty * Batch .. start - 1 : dead < id => dead \notin live

TailCovered == sweep = "complete" => empty >= DeadTail /\ start > 2 * anchor

SweepInv == SweepTypeOK /\ Fresh /\ Read /\ DeadRun /\ TailCovered

-----------------------------------------------------------------------------

LEMMA SweepInvInit == SweepInit => SweepInv
<1> SUFFICES ASSUME SweepInit PROVE SweepInv
  OBVIOUS
<1>1. SweepTypeOK
  <2>1. critical \in BOOLEAN
    BY DEF SweepInit
  <2> QED
    BY <2>1, SweepAssumption DEF SweepInit, SweepTypeOK
<1>2. 0 * Batch = 0
  BY SweepAssumption
<1>3. Fresh /\ Read /\ DeadRun /\ TailCovered
  BY <1>2 DEF SweepInit, Fresh, Read, DeadRun, TailCovered
<1> QED
  BY <1>1, <1>3 DEF SweepInv

\* Every variable of the sweep keeps its type.
LEMMA SweepTypeNext == SweepTypeOK /\ [SweepNext]_sweepVars => SweepTypeOK'
<1> SUFFICES ASSUME SweepTypeOK, [SweepNext]_sweepVars PROVE SweepTypeOK'
  OBVIOUS
<1> USE SweepAssumption DEF SweepTypeOK, table
<1>1. CASE Populate
  BY <1>1 DEF Populate
<1>2. CASE Create
  BY <1>2 DEF Create
<1>3. ASSUME NEW id \in live, Delete(id) PROVE SweepTypeOK'
  BY <1>3 DEF Delete
<1>4. CASE Probe
  BY <1>4 DEF Probe
<1>5. CASE ReadBatch
  <2>1. rows' \subseteq 1 .. top
    BY <1>5 DEF ReadBatch, Hits
  <2>2. sentinel' \in Nat
    BY <1>5, <2>1 DEF ReadBatch
  <2>3. empty' \in Nat /\ batches' \in Nat /\ start' \in Nat \ {0}
    BY <1>5 DEF ReadBatch
  <2>4. sweep' \in {"complete", "batches"}
    BY <1>5 DEF ReadBatch
  <2> QED
    BY <1>5, <2>1, <2>2, <2>3, <2>4 DEF ReadBatch
<1>6. CASE StopPartial
  BY <1>6 DEF StopPartial
<1>7. CASE StopStray
  BY <1>7 DEF StopStray
<1>8. CASE Unreadable
  BY <1>8 DEF Unreadable
<1>9. CASE SweepAgain
  <2>1. critical' \in BOOLEAN
    BY <1>9 DEF SweepAgain
  <2>2. rows' \subseteq 1 .. top'
    BY <1>9 DEF SweepAgain
  <2> QED
    BY <1>9, <2>1, <2>2 DEF SweepAgain
<1>10. CASE UNCHANGED sweepVars
  BY <1>10 DEF sweepVars
<1> QED
  BY <1>1, <1>2, <1>3, <1>4, <1>5, <1>6, <1>7, <1>8, <1>9, <1>10 DEF SweepNext

LEMMA SweepInvNext == SweepInv /\ [SweepNext]_sweepVars => SweepInv'
<1> SUFFICES ASSUME SweepInv, [SweepNext]_sweepVars PROVE SweepInv'
  OBVIOUS
<1>0. SweepTypeOK'
  BY SweepTypeNext DEF SweepInv
<1> USE SweepAssumption DEF SweepInv, SweepTypeOK, Fresh, Read, DeadRun, TailCovered, table
<1>1. CASE Populate
  BY <1>0, <1>1 DEF Populate
<1>2. CASE Create
  <2>1. \A id \in before : top' \notin 1 .. id /\ live' = live \cup {top'}
    BY <1>2 DEF Create
  <2> QED
    BY <1>0, <1>2, <2>1 DEF Create
<1>3. ASSUME NEW id \in live, Delete(id) PROVE SweepInv'
  BY <1>0, <1>3 DEF Delete
<1>4. CASE Probe
  BY <1>0, <1>4 DEF Probe
<1>5. CASE ReadBatch
  <2>1. \A id \in live : id \in start .. start + Batch - 1 => id \in rows'
    BY <1>5 DEF ReadBatch, Hits, InBatch
  <2>2. Read'
    BY <1>5, <2>1 DEF ReadBatch
  <2>3. DeadRun'
    <3>1. CASE Dead
      <4>1. (empty + 1) * Batch = empty * Batch + Batch
        OBVIOUS
      <4>2. empty' * Batch < start' /\ start' - empty' * Batch = start - empty * Batch
        BY <1>5, <3>1, <4>1 DEF ReadBatch
      <4>3. \A dead \in start .. start' - 1 : dead \notin live'
        BY <1>5, <3>1 DEF ReadBatch, Dead, Hits, InBatch
      <4> QED
        BY <1>5, <4>2, <4>3 DEF ReadBatch
    <3>2. CASE ~Dead
      BY <1>5, <3>2 DEF ReadBatch
    <3> QED
      BY <3>1, <3>2
  <2>4. Fresh' /\ TailCovered'
    BY <1>0, <1>5 DEF ReadBatch, TailProven
  <2> QED
    BY <1>0, <2>2, <2>3, <2>4
<1>6. CASE StopPartial
  BY <1>0, <1>6 DEF StopPartial
<1>7. CASE StopStray
  BY <1>0, <1>7 DEF StopStray
<1>8. CASE Unreadable
  BY <1>0, <1>8 DEF Unreadable
<1>9. CASE SweepAgain
  BY <1>0, <1>9 DEF SweepAgain
<1>10. CASE UNCHANGED sweepVars
  BY <1>10 DEF sweepVars
<1> QED
  BY <1>1, <1>2, <1>3, <1>4, <1>5, <1>6, <1>7, <1>8, <1>9, <1>10 DEF SweepNext

LEMMA SweepInvariant == SweepSpec => []SweepInv
BY SweepInvInit, SweepInvNext, PTL DEF SweepSpec

\* Every variable of the sweep keeps its type.
THEOREM SweepTypeCorrect == SweepSpec => []SweepTypeOK
BY SweepInvariant, PTL DEF SweepInv

\* A sweep that calls itself complete returned every record that was there
\* from its beginning to its end, but one behind a whole dead tail of deleted
\* ids and above twice the anchor (sweep_enumerate of client.py).
THEOREM CertifiedIsWhole == SweepSpec => []CompleteMeansAll
<1>1. SweepInv => CompleteMeansAll
  <2> SUFFICES ASSUME SweepInv, sweep = "complete", NEW id \in before \cap live, id \notin rows
               PROVE id > 2 * anchor /\ BeyondGap(id)
    BY DEF CompleteMeansAll
  <2> USE SweepAssumption DEF SweepInv, SweepTypeOK, Read, DeadRun, TailCovered
  <2>1. id \in Nat /\ id >= start /\ id > 2 * anchor
    OBVIOUS
  <2>2. DeadTail * Batch \in Nat /\ empty * Batch \in Nat /\ DeadTail * Batch <= empty * Batch
    <3>1. (empty - DeadTail) * Batch >= 0
      OBVIOUS
    <3> QED
      BY <3>1
  <2> DEFINE first == start - DeadTail * Batch
  <2>3. first \in 1 .. id /\ first + DeadTail * Batch <= id
    BY <2>1, <2>2
  <2>4. \A dead \in first .. first + DeadTail * Batch - 1 : dead \notin live
    BY <2>1, <2>2
  <2> QED
    BY <2>1, <2>3, <2>4 DEF BeyondGap
<1> QED
  BY <1>1, SweepInvariant, PTL

-----------------------------------------------------------------------------
(* DealLife.                                                               *)

DealType == DealTypeOK /\ transitions <= staff

\* What the sync read was so at some moment since it enumerated the contract.
Seen ==
    /\ stage = "idle" => detail = "read"
    /\ stage # "idle" =>
           /\ life \in lives /\ kind \in kinds
           /\ rowKind \in kinds
           /\ rowLife # "absent" => rowLife \in lives
           /\ rowLife = "absent" /\ certified => "gone" \in lives
           /\ detail = "empty" => lives \cap {"emptied", "unplaced"} # {}

\* The pull lost a deal there is.
Lost == stage \in {"baseline", "deal"} /\ listed = None /\ deal # None

\* A record beyond the first has its fault, and so has the one that a lost
\* deal is about to cause.
Counted ==
    /\ deal = None => copies = 0
    /\ copies <= 1 + dealFaults
    /\ Lost => copies <= dealFaults

One(b) == IF b THEN 1 ELSE 0

\* Replaced stages, and those that are going to be: the baseline is behind
\* the contract, or behind the row and that behind the contract, or the deal
\* was lost by the pull.
Charged ==
    /\ stage \in {"detail", "pull", "baseline", "deal"} =>
           yanks + One(baseStage # None /\ baseStage # rowKind) + One(rowKind # kind) + One(Lost)
               <= transitions + dealFaults
    /\ stage = "save" => yanks + One(rowKind # kind) <= transitions + dealFaults
    /\ stage \in {"idle", "periods", "prune"} =>
           yanks + One(baseStage # None /\ baseStage # kind) <= transitions + dealFaults
    /\ stage = "deal" => seenStage \in {None, baseStage}

DealInv == DealType /\ Seen /\ Counted /\ Charged

-----------------------------------------------------------------------------

LEMMA DealInvInit == DealInit => DealInv
<1> SUFFICES ASSUME DealInit PROVE DealInv
  OBVIOUS
<1>1. DealType
  <2>1. byRep \in BOOLEAN /\ full \in BOOLEAN /\ certified \in BOOLEAN /\ pulled \in BOOLEAN
    BY DEF DealInit
  <2> QED
    BY <2>1, DealAssumption DEF DealInit, DealType, DealTypeOK, Kinds, Lives, None, Thin
<1>2. Seen
  BY DEF DealInit, Seen
<1>3. Counted /\ Charged
  BY DealAssumption DEF DealInit, Counted, Charged, Lost, One, None
<1> QED
  BY <1>1, <1>2, <1>3 DEF DealInv

LEMMA DealTypeNext == DealType /\ [DealNext]_dealVars => DealType'
<1> SUFFICES ASSUME DealType, [DealNext]_dealVars PROVE DealType'
  OBVIOUS
<1> USE DealAssumption
    DEF DealType, DealTypeOK, DealFault, DealFine, contract, hubspot, row, known, notes, counts
<1>1. CASE StaffRestatus
  <2>1. kind' \in Kinds /\ life' \in Lives
    BY <1>1 DEF StaffRestatus
  <2>2. lives' \subseteq Lives /\ kinds' \subseteq Kinds
    BY <1>1, <2>1 DEF StaffRestatus, StaffChange
  <2>3. /\ staff' \in 0 .. MaxStaff /\ transitions' \in 0 .. MaxStaff
        /\ transitions' <= staff'
    BY <1>1 DEF StaffRestatus, StaffChange
  <2> QED
    BY <1>1, <2>1, <2>2, <2>3 DEF StaffRestatus, StaffChange
<1>2. CASE StaffRetire
  <2>1. kind' \in Kinds /\ life' \in Lives
    BY <1>2 DEF StaffRetire
  <2>2. lives' \subseteq Lives /\ kinds' \subseteq Kinds
    BY <1>2, <2>1 DEF StaffRetire, StaffChange
  <2> QED
    BY <1>2, <2>1, <2>2 DEF StaffRetire, StaffChange
<1>3. CASE RepMoves
  BY <1>3 DEF RepMoves, RepActs
<1>4. CASE RepDeletes
  BY <1>4 DEF RepDeletes, RepActs
<1>5. ASSUME NEW whole \in BOOLEAN, Enumerate(whole) PROVE DealType'
  <2>1. full' \in BOOLEAN /\ certified' \in BOOLEAN
    BY <1>5 DEF Enumerate
  <2>2. Present \in (Lives \ {"gone"}) \cup {"absent"}
    BY DEF Present, Lives
  <2>3. rowLife' \in (Lives \ {"gone"}) \cup {"absent"}
    BY <1>5, <2>2 DEF Enumerate
  <2>4. dealFaults' \in 0 .. MaxDealFaults
    BY <1>5 DEF Enumerate
  <2> QED
    BY <1>5, <2>1, <2>3, <2>4 DEF Enumerate
<1>6. CASE LoadDetail
  <2>f. life # "gone" => Found \subseteq {"read", "empty"} \cup Thin
    BY DEF Found, Lives
  <2>1. detail' \in {"read", "empty"} \cup Thin
    BY <1>6, <2>f DEF LoadDetail, Detail, DetailFails
  <2>2. rowKind' \in Kinds /\ dealFaults' \in 0 .. MaxDealFaults
    BY <1>6 DEF LoadDetail, Detail, DetailFails
  <2>3. certified' \in BOOLEAN
    BY <1>6 DEF LoadDetail, Detail, DetailFails
  <2> QED
    BY <1>6, <2>1, <2>2, <2>3 DEF LoadDetail
<1>7. CASE PullDeals
  <2>1. pulled' \in BOOLEAN
    BY <1>7 DEF PullDeals
  <2>2. listed' \in {None, "live", "archived"} /\ dealFaults' \in 0 .. MaxDealFaults
    BY <1>7 DEF PullDeals, WithArchived, Live
  <2> QED
    BY <1>7, <2>1, <2>2 DEF PullDeals
<1>8. CASE ReadStage
  BY <1>8 DEF ReadStage
<1>9. CASE UpsertDeal
  <2>1. byRep' \in BOOLEAN
    BY <1>9 DEF UpsertDeal, Stamp
  <2>2. board' \in Kinds \cup {None} /\ yanks' \in Nat
    BY <1>9 DEF UpsertDeal, Stamp
  <2>3. copies' \in Nat
    BY <1>9 DEF UpsertDeal
  <2> QED
    BY <1>9, <2>1, <2>2, <2>3 DEF UpsertDeal
<1>10. CASE UpsertFails
  BY <1>10 DEF UpsertFails
<1>11. CASE SaveStage
  BY <1>11 DEF SaveStage
<1>12. CASE ArchiveDeal
  BY <1>12 DEF ArchiveDeal
<1>13. CASE WritePeriods
  BY <1>13 DEF WritePeriods, Produced
<1>14. CASE Prune
  BY <1>14 DEF Prune, EndDeals, Kinds, Lives
<1>15. CASE DealCrash
  BY <1>15 DEF DealCrash, EndDeals, Kinds, Lives
<1>16. CASE UNCHANGED dealVars
  BY <1>16 DEF dealVars
<1> QED
  BY <1>1, <1>2, <1>3, <1>4, <1>5, <1>6, <1>7, <1>8, <1>9, <1>10, <1>11, <1>12, <1>13, <1>14,
     <1>15, <1>16
  DEF DealNext, DealSync

LEMMA SeenNext == DealType /\ Seen /\ [DealNext]_dealVars => Seen'
<1> SUFFICES ASSUME DealType, Seen, [DealNext]_dealVars PROVE Seen'
  OBVIOUS
<1> USE DEF DealType, DealTypeOK, Seen, contract, hubspot, row, known, notes, counts
<1>1. CASE StaffRestatus
  BY <1>1 DEF StaffRestatus, StaffChange
<1>2. CASE StaffRetire
  BY <1>2 DEF StaffRetire, StaffChange
<1>3. CASE RepMoves
  BY <1>3 DEF RepMoves, RepActs
<1>4. CASE RepDeletes
  BY <1>4 DEF RepDeletes, RepActs
<1>5. ASSUME NEW whole \in BOOLEAN, Enumerate(whole) PROVE Seen'
  <2>1. rowLife' # "absent" => rowLife' = life
    BY <1>5 DEF Enumerate, Present
  <2>2. rowLife' = "absent" /\ certified' => life = "gone"
    BY <1>5 DEF Enumerate, Present, Lives
  <2>3. detail = "read"
    BY <1>5 DEF Enumerate
  <2> QED
    BY <1>5, <2>1, <2>2, <2>3 DEF Enumerate
<1>6. CASE LoadDetail
  <2>1. rowKind' \in kinds
    BY <1>6 DEF LoadDetail, Detail, DetailFails
  <2>2. rowLife = "absent" /\ certified' => "gone" \in lives
    BY <1>6 DEF LoadDetail, Detail, DetailFails
  <2>f. ASSUME life # "gone", "empty" \in Found PROVE life \in {"emptied", "unplaced"}
    BY <2>f DEF Found, Lives
  <2>3. detail' = "empty" => lives \cap {"emptied", "unplaced"} # {}
    <3>1. detail = "empty" \/ (life # "gone" /\ detail' \in Found) \/ detail' \in Thin
             \/ detail' = detail
      BY <1>6 DEF LoadDetail, Detail, DetailFails
    <3>2. "empty" \notin Thin
      BY DEF Thin
    <3>3. stage # "idle" /\ life \in lives
      BY <1>6 DEF LoadDetail
    <3> QED
      BY <2>f, <3>1, <3>2, <3>3
  <2> QED
    BY <1>6, <2>1, <2>2, <2>3 DEF LoadDetail
<1>7. CASE PullDeals
  BY <1>7 DEF PullDeals
<1>8. CASE ReadStage
  BY <1>8 DEF ReadStage
<1>9. CASE UpsertDeal
  BY <1>9 DEF UpsertDeal
<1>10. CASE UpsertFails
  BY <1>10 DEF UpsertFails
<1>11. CASE SaveStage
  BY <1>11 DEF SaveStage
<1>12. CASE ArchiveDeal
  BY <1>12 DEF ArchiveDeal
<1>13. CASE WritePeriods
  BY <1>13 DEF WritePeriods
<1>14. CASE Prune
  BY <1>14 DEF Prune, EndDeals
<1>15. CASE DealCrash
  BY <1>15 DEF DealCrash, EndDeals
<1>16. CASE UNCHANGED dealVars
  BY <1>16 DEF dealVars
<1> QED
  BY <1>1, <1>2, <1>3, <1>4, <1>5, <1>6, <1>7, <1>8, <1>9, <1>10, <1>11, <1>12, <1>13, <1>14,
     <1>15, <1>16
  DEF DealNext, DealSync

LEMMA CountedNext == DealType /\ Counted /\ [DealNext]_dealVars => Counted'
<1> SUFFICES ASSUME DealType, Counted, [DealNext]_dealVars PROVE Counted'
  OBVIOUS
<1> USE DealAssumption
    DEF DealType, DealTypeOK, Counted, Lost, None, DealFault, DealFine,
        contract, hubspot, row, known, notes, counts
<1>1. CASE StaffRestatus
  BY <1>1 DEF StaffRestatus, StaffChange
<1>2. CASE StaffRetire
  BY <1>2 DEF StaffRetire, StaffChange
<1>3. CASE RepMoves
  BY <1>3 DEF RepMoves, RepActs
<1>4. CASE RepDeletes
  BY <1>4 DEF RepDeletes, RepActs
<1>5. ASSUME NEW whole \in BOOLEAN, Enumerate(whole) PROVE Counted'
  BY <1>5 DEF Enumerate
<1>6. CASE LoadDetail
  BY <1>6 DEF LoadDetail, Detail, DetailFails
<1>7. CASE PullDeals
  BY <1>7 DEF PullDeals, WithArchived, Live
<1>8. CASE ReadStage
  BY <1>8 DEF ReadStage
<1>9. CASE UpsertDeal
  BY <1>9 DEF UpsertDeal
<1>10. CASE UpsertFails
  BY <1>10 DEF UpsertFails
<1>11. CASE SaveStage
  BY <1>11 DEF SaveStage
<1>12. CASE ArchiveDeal
  BY <1>12 DEF ArchiveDeal
<1>13. CASE WritePeriods
  BY <1>13 DEF WritePeriods
<1>14. CASE Prune
  BY <1>14 DEF Prune, EndDeals
<1>15. CASE DealCrash
  BY <1>15 DEF DealCrash, EndDeals
<1>16. CASE UNCHANGED dealVars
  BY <1>16 DEF dealVars
<1> QED
  BY <1>1, <1>2, <1>3, <1>4, <1>5, <1>6, <1>7, <1>8, <1>9, <1>10, <1>11, <1>12, <1>13, <1>14,
     <1>15, <1>16
  DEF DealNext, DealSync

LEMMA MoreFaults ==
    ASSUME NEW s \in Nat, NEW t \in Nat, NEW d \in Nat, NEW e \in Nat, s <= t + d, d <= e
    PROVE  s <= t + e
OBVIOUS

LEMMA ChargedNext == DealType /\ Charged /\ [DealNext]_dealVars => Charged'
<1> SUFFICES ASSUME DealType, Charged, [DealNext]_dealVars PROVE Charged'
  OBVIOUS
<1> USE DealAssumption
    DEF DealType, DealTypeOK, Charged, Lost, None, One, DealFault, DealFine,
        contract, hubspot, row, known, notes, counts
<1>1. CASE StaffRestatus
  BY <1>1 DEF StaffRestatus, StaffChange
<1>2. CASE StaffRetire
  BY <1>2 DEF StaffRetire, StaffChange
<1>3. CASE RepMoves
  BY <1>3 DEF RepMoves, RepActs
<1>4. CASE RepDeletes
  BY <1>4 DEF RepDeletes, RepActs
<1>5. ASSUME NEW whole \in BOOLEAN, Enumerate(whole) PROVE Charged'
  BY <1>5 DEF Enumerate
<1>6. CASE LoadDetail
  <2>1. stage = "detail" /\ stage' = "pull"
    BY <1>6 DEF LoadDetail
  <2>2. kind' = kind /\ baseStage' = baseStage /\ yanks' = yanks /\ transitions' = transitions
    BY <1>6 DEF LoadDetail
  <2>3. dealFaults' \in Nat /\ dealFaults <= dealFaults'
    BY <1>6 DEF LoadDetail, Detail, DetailFails
  <2>4. rowKind' \in {rowKind, kind}
    BY <1>6 DEF LoadDetail, Detail, DetailFails
  <2> DEFINE spent == yanks + One(baseStage # None /\ baseStage # rowKind') + One(rowKind' # kind)
  <2>5. spent <= transitions + dealFaults
    BY <2>1, <2>4
  <2>6. spent <= transitions + dealFaults'
    <3>1. spent \in Nat /\ transitions \in Nat /\ dealFaults \in Nat
      OBVIOUS
    <3> HIDE DEF spent
    <3> QED
      BY <2>3, <2>5, <3>1, MoreFaults
  <2> QED
    BY <2>1, <2>2, <2>6
<1>7. CASE PullDeals
  BY <1>7 DEF PullDeals, WithArchived, Live
<1>8. CASE ReadStage
  BY <1>8 DEF ReadStage
<1>9. CASE UpsertDeal
  <2>1. CASE yanks' = yanks
    BY <1>9, <2>1 DEF UpsertDeal
  <2>2. CASE yanks' # yanks
    <3>1. yanks' = yanks + 1 /\ WritesStage /\ deal # None
      BY <1>9, <2>2 DEF UpsertDeal, Stamp
    <3>2. Lost \/ (baseStage # None /\ baseStage # rowKind)
      BY <1>9, <3>1 DEF UpsertDeal, WritesStage
    <3> QED
      BY <1>9, <3>1, <3>2 DEF UpsertDeal
  <2> QED
    BY <2>1, <2>2
<1>10. CASE UpsertFails
  BY <1>10 DEF UpsertFails
<1>11. CASE SaveStage
  BY <1>11 DEF SaveStage
<1>12. CASE ArchiveDeal
  BY <1>12 DEF ArchiveDeal
<1>13. CASE WritePeriods
  BY <1>13 DEF WritePeriods
<1>14. CASE Prune
  BY <1>14 DEF Prune, EndDeals
<1>15. CASE DealCrash
  BY <1>15 DEF DealCrash, EndDeals
<1>16. CASE UNCHANGED dealVars
  BY <1>16 DEF dealVars
<1> QED
  BY <1>1, <1>2, <1>3, <1>4, <1>5, <1>6, <1>7, <1>8, <1>9, <1>10, <1>11, <1>12, <1>13, <1>14,
     <1>15, <1>16
  DEF DealNext, DealSync

LEMMA DealInvariant == DealSpec => []DealInv
<1>1. DealInv /\ [DealNext]_dealVars => DealInv'
  BY DealTypeNext, SeenNext, CountedNext, ChargedNext DEF DealInv
<1> QED
  BY <1>1, DealInvInit, PTL DEF DealSpec

-----------------------------------------------------------------------------

\* Every variable of a deal's life keeps its type.
THEOREM DealTypeCorrect == DealSpec => []DealTypeOK
BY DealInvariant, PTL DEF DealInv, DealType

\* A deal is archived only for a contract that was inactive or gone during
\* the sync that archives it (plan_missing_deals, plan_inactive_deal_archives).
THEOREM ArchivesAreJustified == DealSpec => ArchiveJustified
<1>1. DealInv /\ [DealNext]_dealVars =>
        [stage = "deal" /\ deal = "live" /\ deal' = "archived" /\ reps' = reps
           => lives \cap {"inactive", "gone"} # {}]_dealVars
  <2> SUFFICES ASSUME DealInv, DealNext, stage = "deal", deal = "live", deal' = "archived", reps' = reps
               PROVE lives \cap {"inactive", "gone"} # {}
    BY DEF dealVars
  <2>1. CASE ArchiveDeal
    BY <2>1 DEF ArchiveDeal, Retires, DealInv, Seen
  <2>2. ~StaffRestatus /\ ~StaffRetire
    BY DEF StaffRestatus, StaffRetire, StaffChange, hubspot
  <2>3. ~RepMoves /\ ~RepDeletes
    BY DEF RepMoves, RepDeletes, RepActs, DealInv, DealType, DealTypeOK
  <2>4. \A whole \in BOOLEAN : ~Enumerate(whole)
    BY DEF Enumerate
  <2>5. ~LoadDetail /\ ~PullDeals /\ ~ReadStage /\ ~SaveStage /\ ~WritePeriods /\ ~Prune
    BY DEF LoadDetail, PullDeals, ReadStage, SaveStage, WritePeriods, Prune
  <2>6. ~UpsertDeal /\ ~UpsertFails /\ ~DealCrash
    BY DEF UpsertDeal, UpsertFails, DealCrash, hubspot
  <2> QED
    BY <2>1, <2>2, <2>3, <2>4, <2>5, <2>6 DEF DealNext, DealSync
<1> QED
  BY <1>1, DealInvariant, PTL DEF DealSpec, ArchiveJustified

\* Periods disappear only for a contract that had no lines or none that can be
\* placed in a month, or was inactive and not booked, during the sync that
\* deletes them (plan_revenue and the prune scope of build_plan).
THEOREM PeriodsAreHeld == DealSpec => PeriodsHeld
<1>1. DealInv /\ [DealNext]_dealVars =>
        [periods # None /\ periods' = None
           => \/ lives \cap {"emptied", "unplaced"} # {}
              \/ "inactive" \in lives /\ kinds # {"booked"}]_dealVars
  <2> SUFFICES ASSUME DealInv, DealNext, periods # None, periods' = None
               PROVE  \/ lives \cap {"emptied", "unplaced"} # {}
                      \/ "inactive" \in lives /\ kinds # {"booked"}
    BY DEF dealVars
  <2>1. CASE Prune
    <3>1. stage = "prune" /\ InScope /\ Produced = None
      BY <2>1 DEF Prune
    <3>2. rowLife # "absent" /\ detail \in {"read", "empty"}
      BY <3>1 DEF InScope, DealInv, DealType, DealTypeOK
    <3>3. detail = "empty" \/ ~Active(rowLife)
      BY <3>1, <3>2 DEF Produced, None
    <3>4. ~Active(rowLife) => rowLife = "inactive" /\ rowKind # "booked"
      BY <3>1, <3>2 DEF InScope, Active, Lives, DealInv, DealType, DealTypeOK
    <3> QED
      BY <3>1, <3>2, <3>3, <3>4 DEF DealInv, Seen
  <2>2. ~WritePeriods
    BY DEF WritePeriods, Produced, None
  <2>3. ~StaffRestatus /\ ~StaffRetire /\ ~RepMoves /\ ~RepDeletes
    BY DEF StaffRestatus, StaffRetire, StaffChange, RepMoves, RepDeletes
  <2>4. \A whole \in BOOLEAN : ~Enumerate(whole)
    BY DEF Enumerate
  <2>5. ~LoadDetail /\ ~PullDeals /\ ~ReadStage /\ ~SaveStage
    BY DEF LoadDetail, PullDeals, ReadStage, SaveStage
  <2>6. ~UpsertDeal /\ ~UpsertFails /\ ~ArchiveDeal /\ ~DealCrash
    BY DEF UpsertDeal, UpsertFails, ArchiveDeal, DealCrash
  <2> QED
    BY <2>1, <2>2, <2>3, <2>4, <2>5, <2>6 DEF DealNext, DealSync
<1> QED
  BY <1>1, DealInvariant, PTL DEF DealSpec, PeriodsHeld

\* A sync takes a rep's stage off the board at most once per change of status
\* and per fault (apply_deal_field_ownership).
THEOREM YanksAreBounded == DealSpec => []YanksBounded
<1>1. DealInv => YanksBounded
  BY DEF DealInv, DealType, DealTypeOK, Charged, One, YanksBounded
<1> QED
  BY <1>1, DealInvariant, PTL

\* A contract has one deal, and one more per failed listing at most
\* (upsert_crm, restore and archived_deals of hubspot/client.py).
THEOREM OneDealEver == DealSpec => []OneDeal
<1>1. DealInv => OneDeal
  BY DEF DealInv, Counted, OneDeal
<1> QED
  BY <1>1, DealInvariant, PTL

-----------------------------------------------------------------------------
(* The composition.                                                        *)

\* One part runs and the others keep still: each part sees its own behaviours.
THEOREM PlanningIsItsParts == PlanningSpec => MergeSpec /\ DealSpec /\ RevSpec /\ SweepSpec
<1>1. PlanningInit => MergeInit /\ DealInit /\ RevInit /\ SweepInit
  BY DEF PlanningInit
<1>2. [PlanningNext]_planningVars =>
        /\ [MergeNext]_mergeVars /\ [DealNext]_dealVars
        /\ [RevNext]_revVars /\ [SweepNext]_sweepVars
  BY DEF PlanningNext, planningVars, RunMerge, RunDeals, RunRevenue, RunSweep
<1> QED
  BY <1>1, <1>2, PTL DEF PlanningSpec, MergeSpec, DealSpec, RevSpec, SweepSpec

\* Every variable of planning keeps its type.
THEOREM PlanningTypeCorrect == PlanningSpec => []PlanningTypeOK
<1>1. MergeTypeOK /\ DealTypeOK /\ RevTypeOK /\ SweepTypeOK => PlanningTypeOK
  BY DEF PlanningTypeOK
<1> QED
  BY <1>1, PlanningIsItsParts, MergeTypeCorrect, DealTypeCorrect, RevTypes, SweepTypeCorrect, PTL

\* What the run of MCPlanning checks of the parts holds where they are put
\* together.
THEOREM PlanningIsSafe ==
    PlanningSpec =>
        /\ [](YanksBounded /\ OneDeal /\ NeverOverbooked /\ NothingLost /\ CompleteMeansAll)
        /\ NewerWins /\ ArchiveJustified /\ PeriodsHeld
BY PlanningIsItsParts, YanksAreBounded, OneDealEver, NoContractOverbooked, NothingIsLost,
   CertifiedIsWhole, LaterValueWins, ArchivesAreJustified, PeriodsAreHeld, PTL
=============================================================================
