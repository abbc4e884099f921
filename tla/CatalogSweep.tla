---------------------------- MODULE CatalogSweep ----------------------------
(***************************************************************************)
(* The enumeration of an Aquira table that has no paging (sweep_enumerate  *)
(* and enumerate_clients of src/app/aquira/client.py): ids are asked for in*)
(* batches until enough batches in a row are dead, while staff create and  *)
(* delete records.  What it calls complete is what lets a sync archive     *)
(* deals and prune periods.                                                *)
(*                                                                         *)
(* Aquira allocates ids in sequence and never again; a request none of     *)
(* whose ids exists is answered as an error, so every batch carries a      *)
(* sentinel known to exist.                                                *)
(***************************************************************************)
EXTENDS Integers

CONSTANTS
    Batch,       \* SWEEP_BATCH
    DeadTail,    \* SWEEP_DEAD_TAIL_RUNS
    MaxBatches,  \* SWEEP_MAX_BATCHES
    Powers,      \* the ids of the doubling probe
    FirstTop,    \* bound: ids allocated before the sweep
    MaxCreated,  \* bound: records created during it
    MaxDeleted   \* bound: records deleted during it

ASSUME SweepAssumption ==
    /\ Batch \in Nat \ {0} /\ DeadTail \in Nat \ {0} /\ MaxBatches \in Nat
    /\ Powers \subseteq Nat \ {0}
    /\ FirstTop \in Nat /\ MaxCreated \in Nat /\ MaxDeleted \in Nat

VARIABLES
    live, top,      \* the records of the table; the highest id allocated
    before,         \* history: the records when the sweep began
    sweep,          \* "setup", "probe", "batches" or how it ended
    anchor, sentinel,
    start,          \* first id of the next batch
    empty, batches, \* dead batches in a row; batches read
    rows,           \* ids read
    critical,       \* some read failed
    deleted

table == <<live, top>>
sweepVars == <<table, before, sweep, anchor, sentinel, start, empty, batches, rows, critical, deleted>>

SweepInit ==
    /\ live = {} /\ top = FirstTop /\ before = {}
    /\ sweep = "setup"
    /\ anchor = 0 /\ sentinel = 0
    /\ start = 1 /\ empty = 0 /\ batches = 0
    /\ rows = {} /\ critical = FALSE /\ deleted = 0

\* Years of staff work; load_catalog clears failed_calls and sweeps.
Populate ==
    /\ sweep = "setup"
    /\ live' \in SUBSET (1 .. FirstTop) /\ before' = live'
    /\ sweep' = "probe"
    /\ UNCHANGED <<top, anchor, sentinel, start, empty, batches, rows, critical, deleted>>

Create ==
    /\ sweep # "setup"
    /\ top < FirstTop + MaxCreated
    /\ top' = top + 1
    /\ live' = live \cup {top'}
    /\ UNCHANGED <<before, sweep, anchor, sentinel, start, empty, batches, rows, critical, deleted>>

Delete(id) ==
    /\ sweep # "setup"
    /\ deleted < MaxDeleted /\ deleted' = deleted + 1
    /\ live' = live \ {id}
    /\ UNCHANGED <<top, before, sweep, anchor, sentinel, start, empty, batches, rows, critical>>

-----------------------------------------------------------------------------

\* The highest live power of two; without one the answer is an error, which
\* like any failed read counts against certification.
Probe ==
    /\ sweep = "probe"
    /\ \/ \E a \in live \cap Powers :
            /\ \A b \in live \cap Powers : b <= a
            /\ anchor' = a /\ sentinel' = a
            /\ UNCHANGED critical
       \/ critical' = TRUE /\ UNCHANGED <<anchor, sentinel>>
    /\ sweep' = "batches"
    /\ UNCHANGED <<table, before, start, empty, batches, rows, deleted>>

InBatch == start .. start + Batch - 1

\* Ids that come back beside the sentinel.
Hits == live \cap InBatch
Answered == Hits # {} \/ (sentinel # 0 /\ sentinel \in live)

Dead == Hits = {}

\* Slip: the probed half of the id space may be left unread.
TailProvenShort == rows' # {} /\ empty' >= DeadTail

\* At least one row was seen, and the tail and twice the anchor are covered.
TailProven == rows' # {} /\ empty' >= DeadTail /\ start' - 1 >= 2 * anchor

\* A batch is answered.
ReadBatch ==
    /\ sweep = "batches" /\ batches < MaxBatches
    /\ Answered
    /\ rows' = rows \cup Hits \cup ({sentinel} \cap live)
    /\ batches' = batches + 1
    /\ start' = start + Batch
    /\ IF sentinel = 0
       THEN sentinel' \in rows' /\ \A id \in rows' : id <= sentinel'
       ELSE UNCHANGED sentinel
    /\ empty' = IF Dead THEN empty + 1 ELSE 0
    /\ sweep' = IF Dead /\ TailProven THEN "complete" ELSE "batches"
    /\ UNCHANGED <<table, before, anchor, critical, deleted>>

\* A batch fails, or none of its ids exists, or the ceiling is reached.
StopPartial ==
    /\ sweep = "batches"
    /\ critical' = (critical \/ batches < MaxBatches)
    /\ sweep' = "partial"
    /\ UNCHANGED <<table, before, anchor, sentinel, start, empty, batches, rows, deleted>>

\* The server ignores the id list: nothing it says is believed.
StopStray ==
    /\ sweep \in {"probe", "batches"}
    /\ sweep' = "partial"
    /\ UNCHANGED <<table, before, anchor, sentinel, start, empty, batches, rows, critical, deleted>>

\* enumerate_clients: a row that does not normalise is flagged as truncation.
Unreadable ==
    /\ sweep = "complete" /\ rows # {}
    /\ \E id \in rows : rows' = rows \ {id}
    /\ sweep' = "partial"
    /\ UNCHANGED <<table, before, anchor, sentinel, start, empty, batches, critical, deleted>>

\* The next sync, on the table as it is.
SweepAgain ==
    /\ sweep \in {"complete", "partial"}
    /\ before' = live
    /\ sweep' = "probe"
    /\ anchor' = 0 /\ sentinel' = 0 /\ start' = 1 /\ empty' = 0 /\ batches' = 0
    /\ rows' = {} /\ critical' = FALSE
    /\ UNCHANGED <<table, deleted>>

SweepNext ==
    \/ Populate
    \/ Create
    \/ \E id \in live : Delete(id)
    \/ Probe
    \/ ReadBatch
    \/ StopPartial
    \/ StopStray
    \/ Unreadable
    \/ SweepAgain

SweepSpec == SweepInit /\ [][SweepNext]_sweepVars

-----------------------------------------------------------------------------

SweepTypeOK ==
    /\ live \subseteq 1 .. top /\ top \in FirstTop .. FirstTop + MaxCreated
    /\ before \subseteq 1 .. top
    /\ sweep \in {"setup", "probe", "batches", "complete", "partial"}
    /\ anchor \in Nat /\ sentinel \in Nat
    /\ start \in Nat \ {0} /\ empty \in Nat /\ batches \in Nat
    /\ rows \subseteq 1 .. top
    /\ critical \in BOOLEAN /\ deleted \in 0 .. MaxDeleted

\* DeadTail batches' worth of deleted ids in a row below the record.
BeyondGap(id) ==
    \E first \in 1 .. id :
        /\ first + DeadTail * Batch <= id
        /\ \A dead \in first .. first + DeadTail * Batch - 1 : dead \notin live

\* A complete sweep returned every record that existed from its beginning to
\* now, except one that hides behind a burst of deletions as long as the dead
\* tail and above twice the anchor: the residual risk the code names.
CompleteMeansAll ==
    sweep = "complete" =>
        \A id \in before \cap live : id \in rows \/ (id > 2 * anchor /\ BeyondGap(id))
=============================================================================
