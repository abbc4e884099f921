----------------------------- MODULE FieldMerge -----------------------------
(***************************************************************************)
(* One identity field of one company or contact, on both sides (plan_-     *)
(* companies, plan_contacts and the write-back plans of                    *)
(* src/app/sync/planner.py, the apply loop of src/app/sync/orchestrator.py,*)
(* the snapshots of src/app/db/repo.py, the sparse PUT of                  *)
(* src/app/aquira/client.py).                                              *)
(*                                                                         *)
(* A sync reads Aquira, then HubSpot, then the baseline, plans, and only   *)
(* then writes: HubSpot (a value HubSpot holds wins), the baseline, and,   *)
(* where write-back is on, Aquira (three-way merge against the baseline).  *)
(* The field is one that is copied as it stands (name, phone, address),    *)
(* not the domain, which is made of a Website.                             *)
(* Reps edit the field in HubSpot and staff in Aquira at any moment.       *)
(*                                                                         *)
(* Every edit enters a value never used before, the number of the edit:    *)
(* of two values the larger was entered later.                             *)
(***************************************************************************)
EXTENDS Integers

CONSTANTS
    MaxEdits,       \* bound: edits
    MaxMergeFaults  \* bound: failed or thin reads, failed writes, crashes

ASSUME MergeAssumption == MaxEdits \in Nat \ {0} /\ MaxMergeFaults \in Nat

VARIABLES
    hs,         \* the field in HubSpot; Absent: no record there yet
    aq,         \* the field in Aquira
    base,       \* EntitySnapshot of the record
    clock,      \* edits so far
    step,       \* what the sync does next
    plan,       \* the items it planned for the record
    seenAq, seenHs, seenBase, \* what it read
    stood,      \* history: the field in Aquira when it was read
    mergeFaults

mergeVars == <<hs, aq, base, clock, step, plan, seenAq, seenHs, seenBase, stood, mergeFaults>>
sides == <<hs, aq>>
reads == <<seenAq, seenHs, seenBase, stood>>

Absent == -1
Blank == 0
\* What normalisation leaves of a field, on either side.
Value == Blank .. MaxEdits
Baseline == [known : BOOLEAN, hs : Value, aq : Value]
NoBase == [known |-> FALSE, hs |-> Blank, aq |-> Blank]

\* Companies come from a full or targeted sync, the write-back alone from a
\* HubSpot webhook; sync_writeback switches it off.
Plans == {{"company"}, {"company", "back"}, {"back"}}
Steps == {"idle", "pull", "plan", "company", "baseline", "back"}

MergeInit ==
    /\ hs = Absent /\ aq = 1 /\ clock = 1
    /\ base = NoBase
    /\ step = "idle" /\ plan = {"company"}
    /\ seenAq = Blank /\ seenHs = Absent /\ seenBase = NoBase /\ stood = Blank
    /\ mergeFaults = 0

\* What a sync read is gone with it.
EndMerge ==
    /\ step' = "idle" /\ plan' = {"company"}
    /\ seenAq' = Blank /\ seenHs' = Absent /\ seenBase' = NoBase /\ stood' = Blank

MergeFault == mergeFaults < MaxMergeFaults /\ mergeFaults' = mergeFaults + 1
MergeFine == UNCHANGED mergeFaults

-----------------------------------------------------------------------------
(* People.                                                                 *)

\* A value is entered, or the field is cleared.
Edit(old, new) == clock < MaxEdits /\ clock' = clock + 1 /\ new \in {clock', Blank} \ {old}

RepEdits ==
    /\ hs # Absent
    /\ \E v \in Value : Edit(hs, v) /\ hs' = v
    /\ UNCHANGED <<aq, base, step, plan, reads, mergeFaults>>

StaffEdits ==
    /\ \E v \in Value : Edit(aq, v) /\ aq' = v
    /\ UNCHANGED <<hs, base, step, plan, reads, mergeFaults>>

-----------------------------------------------------------------------------
(* Reading.                                                                *)

\* merge_client: what Client/Load says and, when it failed, what the thin row
\* of the sweep says.
Merged(loaded) == IF loaded THEN aq ELSE Blank

\* Aquira first.
ReadAquira(items) ==
    /\ step = "idle"
    /\ \/ seenAq' = Merged(TRUE) /\ MergeFine
       \/ seenAq' = Merged(FALSE) /\ MergeFault
    /\ stood' = aq
    /\ plan' = items
    /\ step' = "pull"
    /\ UNCHANGED <<sides, base, clock, seenHs, seenBase>>

\* projection(): when it fails the run goes on with nothing listed.
PullHubSpot ==
    /\ step = "pull"
    /\ \/ seenHs' = hs /\ MergeFine
       \/ seenHs' = Absent /\ MergeFault
    /\ step' = "plan"
    /\ UNCHANGED <<sides, base, clock, plan, seenAq, seenBase, stood>>

\* get_snapshots(): when it fails no record has a baseline.
ReadBaseline ==
    /\ step = "plan"
    /\ \/ seenBase' = base /\ MergeFine
       \/ seenBase' = NoBase /\ MergeFault
    /\ step' = IF "company" \in plan THEN "company" ELSE "back"
    /\ UNCHANGED <<sides, base, clock, plan, seenAq, seenHs, stood>>

-----------------------------------------------------------------------------
(* HubSpot.                                                                *)

Filled(v) == v \notin {Absent, Blank}

\* Slip: HubSpot's value wins, be it there or not.
ProposedAnyhow == seenHs

FromAquira == seenAq

\* The value of the company item.
Proposed == IF Filled(seenHs) THEN seenHs ELSE FromAquira

AfterCompany ==
    IF "back" \in plan THEN step' = "back" /\ UNCHANGED <<plan, reads>> ELSE EndMerge

\* All properties are written when any differs (other: one of the rest
\* does), so the value read at the pull is written again; what the pull did
\* not list is created, and a 409 turns that into an update.
WriteCompany(other) ==
    /\ step = "company"
    /\ hs' = IF seenHs = Proposed /\ ~other THEN hs ELSE Proposed
    /\ step' = "baseline"
    /\ UNCHANGED <<aq, base, clock, plan, reads>> /\ MergeFine

\* The item ends as a dead letter and leaves the baseline alone.
CompanyFails ==
    /\ step = "company"
    /\ AfterCompany
    /\ UNCHANGED <<sides, base, clock>> /\ MergeFault

\* Written after every item that did not fail, a skipped one too; an error
\* of the database is swallowed.
SaveBaseline ==
    /\ step = "baseline"
    /\ \/ /\ base' = [known |-> TRUE, hs |-> Proposed, aq |-> seenAq]
          /\ MergeFine
       \/ UNCHANGED base /\ MergeFault
    /\ AfterCompany
    /\ UNCHANGED <<sides, clock>>

-----------------------------------------------------------------------------
(* Aquira.                                                                 *)

HsMoved == seenHs # seenBase.hs
AqMoved == seenAq # seenBase.aq

\* _three_way_fields.
Conflict == seenBase.known /\ seenHs # Absent /\ HsMoved /\ AqMoved /\ seenAq # seenHs

\* Slip: HubSpot's move is written back whatever Aquira did.
WantsBackBlindly == Filled(seenHs) /\ seenAq # seenHs /\ HsMoved

WantsBack ==
    /\ Filled(seenHs) /\ seenAq # seenHs
    /\ seenBase.known => HsMoved /\ ~AqMoved

\* The sparse PUT carries the Version it has just loaded: it overwrites
\* whatever staff entered since the pull.
WriteBack ==
    /\ step = "back"
    /\ aq' = IF WantsBack THEN seenHs ELSE aq
    /\ EndMerge
    /\ UNCHANGED <<hs, base, clock>> /\ MergeFine

BackFails ==
    /\ step = "back" /\ WantsBack
    /\ EndMerge
    /\ UNCHANGED <<sides, base, clock>> /\ MergeFault

\* The process dies anywhere in a sync.
MergeCrash ==
    /\ step # "idle"
    /\ EndMerge
    /\ UNCHANGED <<sides, base, clock>> /\ MergeFault

MergeNext ==
    \/ RepEdits
    \/ StaffEdits
    \/ \E items \in Plans : ReadAquira(items)
    \/ PullHubSpot
    \/ ReadBaseline
    \/ \E other \in BOOLEAN : WriteCompany(other)
    \/ CompanyFails
    \/ SaveBaseline
    \/ WriteBack
    \/ BackFails
    \/ MergeCrash

MergeSpec == MergeInit /\ [][MergeNext]_mergeVars

-----------------------------------------------------------------------------

MergeTypeOK ==
    /\ hs \in Value \cup {Absent} /\ aq \in Value
    /\ base \in Baseline /\ stood \in Value
    /\ clock \in 1 .. MaxEdits
    /\ step \in Steps /\ plan \in Plans
    /\ seenAq \in Value /\ seenHs \in Value \cup {Absent} /\ seenBase \in Baseline
    /\ mergeFaults \in 0 .. MaxMergeFaults

\* The write-back never replaces a value staff entered by one a rep entered
\* earlier: an Aquira field is overwritten only by a later value, unless it
\* is not what the sync read (staff edited it since, or the read was thin) or
\* the sync knows of no baseline, where HubSpot's value wins by design.  The
\* baseline may be of any age, and saved from a thin read.
NewerWins ==
    [][step = "back" /\ step' = "idle" /\ aq' # aq
         => aq' > aq \/ aq # seenAq \/ ~seenBase.known]_mergeVars

\* What a reader of the write-back expects, and the code does not do (see the
\* companion configurations).

\* The same, a thin read being no excuse.
ThinReadKeeps ==
    [][step = "back" /\ step' = "idle" /\ aq' # aq
         => aq' > aq \/ aq # stood \/ ~seenBase.known]_mergeVars

\* A conflict is announced only when staff changed Aquira since the baseline.
ConflictIsReal ==
    step = "back" /\ Conflict /\ seenBase.aq # Blank => seenAq # hs /\ seenAq > seenBase.aq

\* A value a rep entered stays in HubSpot until a person changes it.
RepValueStays == [][hs' # hs /\ Filled(hs) => clock' > clock]_mergeVars

\* A value a rep entered and left alone reaches Aquira.
RepEditArrives == \A v \in 1 .. MaxEdits : []<>(hs = v) => []<>(aq = v \/ Conflict \/ aq > v)
=============================================================================
