------------------------------ MODULE DealLife ------------------------------
(***************************************************************************)
(* One Aquira contract, its HubSpot deal and its revenue periods: creation,*)
(* archiving, restoring, the stage on the board and the pruning of stale   *)
(* periods (plan_deals, plan_missing_deals, plan_inactive_deal_archives and*)
(* plan_revenue of src/app/sync/planner.py, the integrity screen and the   *)
(* apply loop of src/app/sync/orchestrator.py, load_catalog of             *)
(* src/app/aquira/client.py, archive, restore and upsert_crm of            *)
(* src/app/hubspot/client.py).                                             *)
(*                                                                         *)
(* A sync reads the contract row, its detail, HubSpot and the baseline, one*)
(* after the other, and then writes item by item; staff change the contract*)
(* and reps the board meanwhile.  Stages are named after the kind of       *)
(* contract they are derived from; a stage of the reps' own is to the code *)
(* what one derived from another kind is.                                  *)
(***************************************************************************)
EXTENDS Integers

CONSTANTS
    MaxStaff,      \* bound: changes in Aquira
    MaxReps,       \* bound: changes on the board
    MaxDealFaults  \* bound: failed reads and writes, crashes

ASSUME DealAssumption == MaxStaff \in Nat /\ MaxReps \in Nat /\ MaxDealFaults \in Nat

VARIABLES
    kind, life,     \* the contract in Aquira
    deal, copies,   \* its deal in HubSpot; records ever made for it
    board, byRep,   \* the deal's stage; a rep put it there
    baseStage,      \* EntitySnapshot: the stage derived at the last sync
    periods,        \* its revenue periods in HubSpot
    stage,          \* what the sync does next
    full, certified,         \* the run: not targeted; load_catalog vouched for it
    rowKind, rowLife,        \* the row it enumerated
    detail,                  \* what it knows of the contract's lines
    listed, pulled,          \* what the HubSpot pull listed
    seenStage,               \* the baseline it read
    lives, kinds,            \* history of this sync: what the contract has been
                             \* since it was enumerated
    yanks,                   \* history: stages put by reps a sync replaced
    staff, transitions, reps, dealFaults

contract == <<kind, life>>
hubspot  == <<deal, copies, board, byRep>>
row      == <<full, certified, rowKind, rowLife>>
known    == <<detail, listed, pulled, seenStage>>
notes    == <<lives, kinds>>
counts   == <<staff, transitions, reps>>
dealVars == <<contract, hubspot, baseStage, periods, stage, row, known, notes, yanks,
              counts, dealFaults>>

Kinds == {"proposal", "booked", "cancelled"}

\* In Aquira: active; active with lines of which none has both a first day and
\* an amount; active without lines and total; deactivated; or gone.
Lives == {"active", "unplaced", "emptied", "inactive", "gone"}
Active(l) == l \in {"active", "unplaced", "emptied"}
None == "none"

DealInit ==
    /\ kind = "proposal" /\ life = "active"
    /\ deal = None /\ copies = 0 /\ board = None /\ byRep = FALSE
    /\ baseStage = None /\ periods = None
    /\ stage = "idle"
    /\ full = TRUE /\ certified = TRUE /\ rowKind = "proposal" /\ rowLife = "absent"
    /\ detail = "read" /\ listed = None /\ pulled = TRUE /\ seenStage = None
    /\ lives = {} /\ kinds = {}
    /\ yanks = 0 /\ staff = 0 /\ transitions = 0 /\ reps = 0 /\ dealFaults = 0

\* What a sync read is gone with it.
EndDeals ==
    /\ stage' = "idle"
    /\ full' = TRUE /\ certified' = TRUE /\ rowKind' = "proposal" /\ rowLife' = "absent"
    /\ detail' = "read" /\ listed' = None /\ pulled' = TRUE /\ seenStage' = None
    /\ lives' = {} /\ kinds' = {}

DealFault == dealFaults < MaxDealFaults /\ dealFaults' = dealFaults + 1
DealFine == UNCHANGED dealFaults

-----------------------------------------------------------------------------
(* People.                                                                 *)

StaffChange ==
    /\ life # "gone"
    /\ staff < MaxStaff /\ staff' = staff + 1
    /\ lives' = IF stage = "idle" THEN {} ELSE lives \cup {life'}
    /\ kinds' = IF stage = "idle" THEN {} ELSE kinds \cup {kind'}
    /\ UNCHANGED <<hubspot, baseStage, periods, stage, row, known, yanks, reps, dealFaults>>

\* A proposal is booked, a contract cancelled, and so on.
StaffRestatus ==
    /\ kind' \in Kinds \ {kind}
    /\ transitions' = transitions + 1
    /\ UNCHANGED life
    /\ StaffChange

\* Deactivated (Aquira's delete), reactivated, its lines undated or taken out,
\* or really gone.
StaffRetire ==
    /\ life' \in Lives \ {life}
    /\ UNCHANGED <<kind, transitions>>
    /\ StaffChange

RepActs == reps < MaxReps /\ reps' = reps + 1 /\ deal = "live"

RepMoves ==
    /\ RepActs
    /\ \E s \in Kinds : s # board /\ board' = s
    /\ byRep' = TRUE
    /\ UNCHANGED <<contract, deal, copies, baseStage, periods, stage, row, known, notes,
                   yanks, staff, transitions, dealFaults>>

\* HubSpot's delete is an archive too.
RepDeletes ==
    /\ RepActs
    /\ deal' = "archived"
    /\ UNCHANGED <<contract, copies, board, byRep, baseStage, periods, stage, row, known, notes,
                   yanks, staff, transitions, dealFaults>>

-----------------------------------------------------------------------------
(* Reading.                                                                *)

Present == IF life = "gone" THEN "absent" ELSE life

\* load_catalog: a certified pull listed every contract; any other may have
\* missed this one.
Enumerate(whole) ==
    /\ stage = "idle"
    /\ full' = whole /\ rowKind' = kind
    /\ \/ certified' = TRUE /\ rowLife' = Present /\ DealFine
       \/ certified' = FALSE /\ rowLife' \in {Present, "absent"} /\ DealFault
    /\ lives' = {life} /\ kinds' = {kind}
    /\ stage' = "detail"
    /\ UNCHANGED <<contract, hubspot, baseStage, periods, known, yanks, counts>>

\* Without the lines: the row of the sweep may still state a total and dates,
\* or not.
Thin == {"priced", "unread"}

\* What load_catalog makes of a detail that was read: when the row stated a
\* total and there are no lines any more, the periods are held; not so when
\* there are lines, although none of them makes a period.
Found ==
    CASE life \in {"active", "inactive"} -> {"read"}
      [] life = "unplaced" -> {"empty"}
      [] life = "emptied" ->
            IF rowLife \in {"active", "unplaced"} THEN {"empty"} \cup Thin ELSE {"empty"}

\* Contract/Load, an authority on the kind but not on being active, and the
\* analysis of the lines.
Detail ==
    \/ life # "gone" /\ detail' \in Found /\ rowKind' = kind /\ UNCHANGED certified /\ DealFine
    \/ life = "gone" /\ detail' \in Thin /\ UNCHANGED <<rowKind, certified>> /\ DealFine

\* A failed Load does not uncertify the pull, a failed analysis does.
DetailFails ==
    /\ detail' \in Thin /\ DealFault
    /\ \/ UNCHANGED <<rowKind, certified>>
       \/ rowKind' = kind /\ certified' = FALSE

LoadDetail ==
    /\ stage = "detail"
    /\ IF rowLife = "absent"
       THEN UNCHANGED <<detail, rowKind, certified>> /\ DealFine
       ELSE Detail \/ DetailFails
    /\ stage' = "pull"
    /\ UNCHANGED <<contract, hubspot, baseStage, periods, full, rowLife, listed, pulled, seenStage,
                   notes, yanks, counts>>

\* deals_with_aquira, and with archived_deals what they lack.
Live == IF deal = "live" THEN "live" ELSE None
WithArchived == IF Live = None THEN deal ELSE Live

\* Slip: archived deals are not listed.
PullDealsLive ==
    /\ stage = "pull"
    /\ listed' = Live
    /\ pulled' = TRUE
    /\ stage' = "baseline"
    /\ UNCHANGED <<contract, hubspot, baseStage, periods, row, detail, seenStage, notes,
                   yanks, counts, dealFaults>>

\* The pull fails as a whole, or only the list of archived deals does.
PullDeals ==
    /\ stage = "pull"
    /\ \/ listed' = WithArchived /\ pulled' = TRUE /\ DealFine
       \/ /\ pulled' \in BOOLEAN
          /\ listed' = IF pulled' THEN Live ELSE None
          /\ DealFault
    /\ stage' = "baseline"
    /\ UNCHANGED <<contract, hubspot, baseStage, periods, row, detail, seenStage, notes,
                   yanks, counts>>

ReadStage ==
    /\ stage = "baseline"
    /\ \/ seenStage' = baseStage /\ DealFine
       \/ seenStage' = None /\ DealFault
    /\ stage' = "deal"
    /\ UNCHANGED <<contract, hubspot, baseStage, periods, row, detail, listed, pulled, notes,
                   yanks, counts>>

-----------------------------------------------------------------------------
(* The deal.                                                               *)

\* Slip: the stage is written whenever the board differs.
WritesStageAlways == TRUE

\* apply_deal_field_ownership: a new deal gets the derived stage, a known one
\* only when the derived stage changed; without a baseline the board stands.
WritesStage == listed = None \/ (seenStage # None /\ seenStage # rowKind)

Stamp ==
    IF WritesStage
    THEN /\ board' = rowKind
         /\ byRep' = FALSE
         /\ yanks' = yanks + IF byRep /\ board # rowKind /\ deal # None THEN 1 ELSE 0
    ELSE UNCHANGED <<board, byRep, yanks>>

\* A known deal is PATCHed, after a restore if it was listed as archived; an
\* unknown one is POSTed: the record that holds the aquira_id answers 409 and
\* is restored and PATCHed, an archived one may also let a second be made.
UpsertDeal ==
    /\ stage = "deal" /\ Active(rowLife)
    /\ listed = "live" => deal = "live"
    /\ deal' = "live"
    /\ \/ copies' = copies + 1 /\ listed = None /\ deal # "live"
       \/ UNCHANGED copies /\ ~(listed = None /\ deal = None)
    /\ Stamp
    /\ stage' = "save"
    /\ UNCHANGED <<contract, baseStage, periods, row, known, notes, counts>> /\ DealFine

\* The item fails, after its restore or before; always when the deal was
\* deleted since it was listed.
UpsertFails ==
    /\ stage = "deal" /\ Active(rowLife)
    /\ deal' \in {deal} \cup (IF listed = "archived" THEN {"live"} ELSE {})
    /\ IF listed = "live" /\ deal = "archived" THEN DealFine ELSE DealFault
    /\ stage' = "periods"
    /\ UNCHANGED <<contract, copies, board, byRep, baseStage, periods, row, known, notes,
                   yanks, counts>>

\* Saved after an upsert that did not fail; a database error is swallowed.
SaveStage ==
    /\ stage = "save"
    /\ \/ baseStage' = rowKind /\ DealFine
       \/ UNCHANGED baseStage /\ DealFault
    /\ stage' = "periods"
    /\ UNCHANGED <<contract, hubspot, periods, row, known, notes, yanks, counts>>

\* Slip: absence is believed without certification.
RetiresUncertified ==
    \/ rowLife = "inactive" /\ listed = "live"
    \/ rowLife = "absent" /\ listed # None

\* Slip: only what the catalog misses is retired.
RetiresMissing == full /\ certified /\ rowLife = "absent" /\ listed # None

\* plan_inactive_deal_archives and plan_missing_deals: full certified runs.
Retires ==
    /\ full /\ certified
    /\ \/ rowLife = "inactive" /\ listed = "live"
       \/ rowLife = "absent" /\ listed # None

ArchiveDeal ==
    /\ stage = "deal" /\ ~Active(rowLife)
    /\ \/ /\ deal' = IF Retires THEN "archived" ELSE deal
          /\ DealFine
       \/ Retires /\ UNCHANGED deal /\ DealFault
    /\ stage' = "periods"
    /\ UNCHANGED <<contract, copies, board, byRep, baseStage, periods, row, known, notes,
                   yanks, counts>>

-----------------------------------------------------------------------------
(* The revenue periods.                                                    *)

\* What plan_revenue produces: the months of the lines or, without lines, an
\* equal split of the stated total under the same keys; nothing of lines
\* allocate_revenue skips.
Produced ==
    CASE Active(rowLife) /\ detail = "read" -> "real"
      [] Active(rowLife) /\ detail = "priced" -> "split"
      [] OTHER -> None

WritePeriods ==
    /\ stage = "periods"
    /\ \/ /\ periods' = IF Produced = None THEN periods ELSE Produced
          /\ DealFine
       \/ Produced # None /\ UNCHANGED periods /\ DealFault
    /\ stage' = "prune"
    /\ UNCHANGED <<contract, hubspot, baseStage, row, known, notes, yanks, counts>>

\* Slip: contracts whose detail failed to load stay in the prune scope.
InScopeThin == rowLife # "absent" /\ ~(rowLife = "inactive" /\ rowKind = "booked")

\* Booked contracts that were deactivated, and contracts whose detail could
\* not be read, keep their periods.
InScope ==
    /\ rowLife # "absent"
    /\ detail \notin Thin
    /\ ~(rowLife = "inactive" /\ rowKind = "booked")

Prune ==
    /\ stage = "prune"
    /\ periods' = IF certified /\ pulled /\ InScope /\ Produced = None THEN None ELSE periods
    /\ EndDeals
    /\ UNCHANGED <<contract, hubspot, baseStage, yanks, counts>> /\ DealFine

\* The delete fails, or the process dies anywhere in the sync.
DealCrash ==
    /\ stage # "idle"
    /\ EndDeals
    /\ UNCHANGED <<contract, hubspot, baseStage, periods, yanks, counts>>
    /\ DealFault

DealSync ==
    \/ LoadDetail \/ PullDeals \/ ReadStage
    \/ UpsertDeal \/ UpsertFails \/ SaveStage \/ ArchiveDeal
    \/ WritePeriods \/ Prune

DealNext ==
    \/ StaffRestatus \/ StaffRetire
    \/ RepMoves \/ RepDeletes
    \/ \E whole \in BOOLEAN : Enumerate(whole)
    \/ DealSync
    \/ DealCrash

DealSpec == DealInit /\ [][DealNext]_dealVars

\* A sync goes on, and the poll starts a full one again and again.
DealFairness == WF_dealVars(DealSync) /\ SF_dealVars(Enumerate(TRUE))
DealFairSpec == DealSpec /\ DealFairness

-----------------------------------------------------------------------------

DealTypeOK ==
    /\ kind \in Kinds /\ life \in Lives
    /\ deal \in {None, "live", "archived"} /\ copies \in Nat
    /\ board \in Kinds \cup {None} /\ byRep \in BOOLEAN
    /\ baseStage \in Kinds \cup {None} /\ seenStage \in Kinds \cup {None}
    /\ periods \in {None, "real", "split"}
    /\ stage \in {"idle", "detail", "pull", "baseline", "deal", "save", "periods", "prune"}
    /\ full \in BOOLEAN /\ certified \in BOOLEAN /\ pulled \in BOOLEAN
    /\ rowKind \in Kinds /\ rowLife \in (Lives \ {"gone"}) \cup {"absent"}
    /\ detail \in {"read", "empty"} \cup Thin
    /\ listed \in {None, "live", "archived"}
    /\ lives \subseteq Lives /\ kinds \subseteq Kinds
    /\ yanks \in Nat /\ staff \in 0 .. MaxStaff /\ transitions \in 0 .. MaxStaff
    /\ reps \in 0 .. MaxReps /\ dealFaults \in 0 .. MaxDealFaults

\* A sync archives a deal only when the contract really was inactive or gone
\* at some moment since that sync enumerated it: never because rows were
\* missed (plan_missing_deals, "certified").
ArchiveJustified ==
    [][stage = "deal" /\ deal = "live" /\ deal' = "archived" /\ reps' = reps
         => lives \cap {"inactive", "gone"} # {}]_dealVars

\* Revenue periods disappear only for a contract that, during that sync, had
\* no lines, or none that can be placed in a month, or was inactive and not
\* booked: the history of booked contracts and the periods of contracts whose
\* lines could not be read survive.
PeriodsHeld ==
    [][periods # None /\ periods' = None
         => \/ lives \cap {"emptied", "unplaced"} # {}
            \/ "inactive" \in lives /\ kinds # {"booked"}]_dealVars

\* A rep's stage is taken off the board at most once per change of status in
\* Aquira, and once more per failed read, lost baseline or crash.
YanksBounded == yanks <= transitions + dealFaults

\* A contract that comes and goes keeps its one deal, whoever archived it: a
\* second record is made only when a listing of HubSpot failed.
OneDeal == copies <= 1 + dealFaults

\* Once people and faults rest, the deal of an active contract is live and
\* that of a deactivated or vanished one is not.
DealFollows == <>[](Active(life) <=> deal = "live")

\* What the log line "holding its periods instead of pruning them"
\* (aquira/client.py) suggests, and the code does not do: the months read from
\* the lines are not replaced by an equal split.
RealMonthsKept == [][periods = "real" => periods' # "split"]_dealVars

\* What a reader expects of the stage, and the code does not do once a
\* baseline is lost or unreadable: a change of status reaches the board.
TransitionArrives == <>[](Active(life) => board = kind \/ byRep)
=============================================================================
