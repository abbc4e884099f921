# HubQuira: TLA+ models and proofs

HubQuira (`src/app`) synchronises Aquira, a broadcast traffic system that is
the master of clients, contacts and contracts, with HubSpot.  Two containers
share one Postgres database (`src/docker-compose.yml`): `middleware` (role
`web`: UI, API, webhooks) and `worker` (role `worker`: the scheduler and the
loop that executes syncs).  Role `all` is the same program as one process.

This directory holds TLA+ modules of the parts whose correctness depends on
order, interruption or accumulated state, TLC configurations for small
instances, and TLAPS proofs.  `PROJECT.json` maps definitions to source lines
and lists the runs, the mutations each property detects, the hazards and the
theorems.

1. Inventory · 2. Plan · 3. Modules · 4. Runs · 5. Findings · 6. Proofs ·
7. What the results rest on

## 1. Inventory

| Component | Source (`src/app`) | State | Operations | Talks to |
|---|---|---|---|---|
| Work queue and loops | `sync/worker.py`, queue part of `db/repo.py` | `work_queue`, `sync_run`, the thread started by `start_worker` | `enqueue_sync`, `enqueue_hubspot_identity`, `claim_job`, `finish_job`, `fail_run`, `release_orphaned_jobs`, `run_forever` | everything that starts a sync |
| Scheduler and poll | `jobs/poll.py`, `jobs/setup.py`, `main.py` | APScheduler jobs | `PollJob.run`, `run_reconciliation` | queue |
| Orchestrator | `sync/orchestrator.py` | class-wide `_active`, run record, cursor, id map, snapshots | `run`, `_pull_live`, `build_plan`, `apply_item` | Aquira, HubSpot, repo |
| Dead letters | `db/repo.py` 119-358, `jobs/reconcile.py`, `/ui/deadletters` | `dead_letter` | `add_dead_letter`, `resolve_*`, `mark_reconciled`, `freeze_*`, `unfreeze_*`, `retry_dead_letter_now`, `run_reconciliation` | queue, orchestrator, operator, Teams |
| Company links, client creation | `planner.plan_companies`, `plan_new_aquira_clients`, `mapping/matching.py`, `orchestrator.apply_item`, `aquira/client.create_client` | Aquira clients, HubSpot `aquira_id`, gating dead letters | match, link, create, gate | Aquira, HubSpot, humans in both |
| Webhook intake | `webhooks/*.py` | `webhook_receipt`, in-process seen set | `aquira_webhook`, `hubspot_webhook` | queue |
| Three-way write-back | `planner._three_way_fields`, `_persist_snapshot`, snapshots in `repo` | `entity_snapshot` | plan, persist | orchestrator |
| Deal life cycle and pruning | `planner.plan_missing_deals`, `plan_inactive_deal_archives`, `plan_revenue` | HubSpot archive flag | archive, restore | HubSpot |
| Revenue allocation | `mapping/revenue.py` | none | `allocate_revenue`, `summarize` | planner |
| Catalog pull and certification | `aquira/client.py` | session, failed calls, truncation marks | `login`, `request`, `sweep_enumerate`, `load_catalog` | Aquira |
| HubSpot client | `hubspot/client.py` | property cache | upsert, archive, restore, associate, search | HubSpot |
| Match review | suggestions, exclusions, rules in `repo` | three tables | record, accept, reject | UI, orchestrator |
| Owner and team maps | `mapping/owners.py`, `mapping/teams.py` | two tables | `apply_team_ids`, bootstrap | orchestrator |
| Settings overlay | `runtime.py`, `settings.py` | settings table, one singleton per process | `persist_settings`, `apply_db_overlay` | every process |
| Sign-in | `sso.py`, `cfaccess.py`, `session.py`, `auth.py` | `app_user`, cookie | provision, lock, disable | UI |
| Pages, alerts, digest, CLI, schema heal | `ui/routes.py`, `api/routes.py`, `alerts.py`, `notify.py`, `__main__.py`, `db/__init__.py` | none of their own | rendering, HTTP | the above |

Hard behaviours: two loops in one process; process deaths between commits; a
database error at any commit; rows read by one session and written after
another session changed them (READ COMMITTED, only changed columns are
written); a remote create that commits and then reports failure; a sync that
works on a snapshot of two remote systems while people edit both.

What makes each component correct:

- *Work queue*: a row is claimed once, settled once, by its executor or, when
  that is gone, by a release; a claimed sync is executed; a verdict in the
  history is not overwritten; every row is settled in the end.
- *Dead letters*: one retry costs one unit of budget, no more and no less;
  every open row is retried and in the end rests (resolved or frozen); every
  freeze reaches a human; what is resolved stays resolved.
- *Company links and client creation*: one company per client, one client per
  approval, no blind repetition of a creation of unknown outcome, and every
  approved lead is served.
- *Three-way write-back*: a field changed on one side reaches the other; one
  changed on both goes to its owner; nothing oscillates.
- *Deals and pruning*: a record is archived only on a complete view of Aquira;
  a reactivated contract gets its old record back.
- *Revenue*: the periods of a contract add up to its total, to the cent.
- *Catalog pull*: a list certified complete holds every record.
- *Matching rules*: one-to-one, first rule wins, exclusions are never linked.
- *Settings overlay*: after plan-only mode is switched on nothing is written.
- *Webhook intake*: no accepted notification is lost; repeats are harmless.

## 2. Plan

| Order | Module | Status | Composes / refines | Runs |
|---|---|---|---|---|
| 1 | `SyncWorker` | done | implements `JobLedger` | `all`, `worker`, `worker_settles`, `live_release` |
| 2 | `SyncWorkerProofs` | done | | theorems |
| 3 | `DeadLetters`, `DeadLettersProofs` | done | | `budget`, `rests`, `starved` |
| 4 | `ClientLinks`, `ClientLinksProofs` | done | | `links`, `twin`, `unserved` |
| 5 | `FieldMerge`: three-way merge of one field over snapshots, several syncs in a row with edits on both sides | done | | `planning` |
| 6 | `DealLife`: one contract, its deal and its periods | done | | `planning` |
| 7 | `CatalogSweep`: what makes a catalog complete | done | its verdict is the `certified` of 6 | `planning` |
| 8 | `Revenue`: the allocation of a contract's lines | done | | `planning` |
| 9 | `MatchReview`: rules, scores, suggestions, exclusions | done | what `ClientLinks` takes as recognised | `intake` |
| 10 | `WebhookIntake`, `WebhookIntakeProofs`: receipts, resends and the poll behind them | done | the queue reduced to its promise | `intake` |
| 11 | `PlanOnly`: the settings overlay in two processes | done | | `intake` |
| 12 | `TeamMap`: teams and owners of a catalog | done | | `intake` |
| 13 | `PlanningProofs`: 5 to 7 and their composition; `RevenueProofs`: 8 | done | cites the theorems of each part | theorems |
| 14 | `IntakeProofs`: 9, 11, 12 and the composition with 10 | done | cites `WebhookIntakeProofs` | theorems |
| 15 | `SetInduction`: induction over numbers and finite sets, folds | done | used by 13 and 14 | lemmas |
| 16 | more theorems: what weaker hypotheses leave of the theorems of the queue in the worker container; the steps that the liveness properties rest on | later | | |

Modules 5 to 8 share no variables, nor do 9 to 12.  `MCPlanning` and `MCIntake`
put them side by side: a variable `part` names the one a behaviour runs, the
others stay where they began.  One run checks them all at their full bounds
without multiplying their states.

`JobLedger` is the abstract specification of the queue.  No module declares a
recursive operator: what the code's loops do to a list is a fold of
`SequencesExt` or `FiniteSetsExt`, which TLC evaluates and `SetInduction` reasons
about.

## 3. Modules

### SyncWorker

`work_queue` is `jobStatus`, `jobRun` and `stale` (running for longer than
`RUN_STALE_AFTER_MINUTES`); `sync_run` is `runStatus` and `scheduled`;
`SyncOrchestrator._active` is `active`.  Two loops can run `run_forever`: the
main thread of the worker container and the thread of `start_worker`.  Each has a
program counter (`loopPc`), the row it claimed and the outcome it will write.
Request threads and the two scheduled jobs enqueue (`callerPc`, `callerRun`).

One action is one commit, or one read that a later commit relies on:
`LoopSelect`/`LoopRelease` are the read and the commit of
`release_orphaned_jobs`, `ClaimJob` is `claim_job`, `AcquireLock`, `EnterRun`,
`CloseRun`, `ReportRun` and `ReleaseLock` are `SyncOrchestrator.run` from the lock
to its `finally`, `FinishJob` and `FailRun` what the loop does with the outcome,
`AddRun` and `AddJob` the two commits of `enqueue_sync`, `Poll*` the poll.  An
action `...Fails` is a database error at that point: errors outside a `try` end
the loop (`LoopDies`).  `WorkerCrash` and `WebCrash` lose a process's memory and
keep the tables.

### JobLedger

The promise of the queue: insert, claim, settle once, and release only rows that
no live executor holds.  `SyncWorker` implements it with `row <- jobStatus` and
`held <-` the rows some loop works on, in the one-process layout.

### DeadLetters

One record is one (entity type, identity).  `Creates` are HubSpot companies
approved for creation, which have no Aquira id until linked.  Four actors share
the table: the sync being executed (`StartFull`, `StartRetry`, `ApplyOk`,
`ApplySkip`, `ApplyFails` with `add_dead_letter` inside, `EndSync` with
`resolve_dead_letters`, `SyncAborts`), the pass (`PassStart` to `Alert`, in the
order of `run_reconciliation`), the operator and time.  A sync applies creations
last (`NextItem`), the order in which `build_plan` lists them; `Link` is a human
who gives the company its id.

The pass's two writes are split where the code re-reads rows and commits later
(`MarkRead`/`MarkCommit`, `HoldRead`/`HoldCommit`): sync and operator act in
between, and the commit writes the columns it changed.  `DeleteRow` in between
makes the commit raise (`PassFails`).  `cycles` and `alerted` are history
variables: retries really queued for a row, escalations really raised.
`CutShort` counts what can end a pass early: faults and deleted rows.  `QueueFails`
is an error of `enqueue_sync`, which may come after the job was committed.  `Fold`
picks the pending row that a failure is written to by the preference of
`add_dead_letter`: the Aquira id, then the HubSpot id.  `LeftBehind` names a row that
the pass under way has no cap left for, `Postponed` one that a failing sync has just
moved ahead: the two ways in which the code never comes to a row.

### ClientLinks

A lead is a HubSpot company sales entered; an Aquira client stands for a lead
(`origin`), entered by staff or created by a sync, and may carry a recognisable
name or domain (`named`).  A sync is `StartSync` or `StartRetry` (pull, match,
plan, gate), then one step per remote write: `ApplyLink`, `ApplyMake`, and for a
creation `Post`, `PostAgain`, `Finish`, `Patch`, `Record`.  `PostAgain` is the `or
self.request(...)` of `create_client`.  Staff, approvers and operators act between
any two steps.  A fault is one of nine kinds: a failed pull of either system, an
unreadable gate, a refused request, a lost answer, a failure after the creation, a
failed PATCH, an error while recording the failure, a crash.

`Matched` goes over the whole catalog, clients that hold a company included, as the
matching does.  A lead whose client has a company of its own (`Shadowed`) is thus
matched with it in every sync, answered 409, and left out of creation.  `blind` keeps
the clients that were planned a company from a pull that did not list their lead,
`Paid` the faults that cost a creation.

`Fetched` says what the HubSpot pull reads of companies without an `aquira_id`.
The code reads neither their match fields into `existing["companies"]` nor the
dropdown (`{}`); the tests feed the planner both (`{"match", "dropdown"}`).

### FieldMerge

One identity field of one company or contact, of those that are copied as they stand
(name, phone, address; not the domain, which is made of a Website): `hs`, `aq` and its
snapshot `base`.
A sync reads Aquira (`ReadAquira`, where a failed `Client/Load` leaves the thin row
of the sweep), HubSpot (`PullHubSpot`), the snapshot (`ReadBaseline`), and writes
the company, the snapshot and, where write-back is on, Aquira: `WriteCompany`,
`SaveBaseline`, `WriteBack`.  The plan (`plan`) is that of a full sync with or
without write-back, or of a HubSpot webhook.  Reps and staff edit between any two
steps.  Each edit enters the number of the edit, so values tell which is later.

### DealLife

One contract (`kind`, `life`), its deal (`deal`, `board`), the stage last derived
(`baseStage`) and its periods.  `Enumerate` is the contract's row in the catalog
pull with the pull's certification, `LoadDetail` its `Contract/Load` and lines,
`PullDeals` the HubSpot listing with `archived_deals`, `ReadStage` the snapshot;
then `UpsertDeal` or `ArchiveDeal`, `SaveStage`, `WritePeriods` and `Prune`.  Stage
names stand for the kind of contract they are derived from.  An active contract may
be `unplaced`: it has lines, so its detail counts as read (aquira/client.py:751), and
none of them has both a first day and an amount, so it produces no period
(revenue.py:172) and its old ones are pruned.  `lives` and `kinds`
record what the contract has been since it was enumerated, `yanks` the stages of
reps that a sync replaced.

### CatalogSweep

`sweep_enumerate`: `Probe` looks for the highest live power of two, `ReadBatch` asks
for the next ids with a sentinel, `StopPartial`, `StopStray` and `Unreadable` end
without certification.  `live` changes under it.  `sweep = "complete"` is what the
code calls complete.

### Revenue

`allocate_revenue` on lines that arrive one by one.  `Used` are the lines with a
first day and an amount; the code skips the others.  Each is spread over its months
(`Weighted`, `Shares`: the last month takes what the division leaves), what falls into
one slot is added up and rounded to cents (`RoundSlots`: the code's 28 digits may put
a tie on either side), and `Scale` brings an excess down to the contract's total.
`Split` divides a stated total over the flight of a contract without lines, unless it
lacks a date (`Splits`); `SplitRaises` is the division by no months, which no caller
catches.

### MatchReview

`SetUp` chooses what clients and companies share; a sync pulls (`PullCompanies`),
reads rules and exclusions (`ReadRules`, which fail open), decides on all clients at
once (`Decision`: `ByRules` or, without rules, `ByScore`, which takes the pairs by
falling score), links one by one
(`ApplyLink`) and records what is left (`RecordSuggestions`).  Humans accept,
dismiss (two commits: `Dismiss`, `FinishDismissal`), re-admit, edit rules and enter
ids in between.  Accepting (`LinkPair`) ends in "linked" also when another company has
the id and the 409 makes `upsert_crm` write it there again.

### WebhookIntake

The two endpoints: `Receive`, the look-up (`Duplicate`, `NotSeen`), `Mark`,
`QueueJob`, `Answer`, with `ReceiptFails` and `QueueFails` for the database and
`WebRestarts` for the process, whose memory (`_SEEN_MESSAGE_IDS`) is lost.  The sender
repeats a message until it sees an answer.  A change is one of a record on one side
(`Sources`).  An Aquira body names its record (`SubjectOf`) or none (`Nameless`, which
queues nothing); a HubSpot batch is known by the id of its first event, or has none
(`Anonymous`): then it leaves no receipt and every copy of it queues a job.  A job
reads the record it was queued for when it starts, and brings the other side up to
that when it finishes; `Poll` queues a full sync, which serves every record, when
nothing waits.

### PlanOnly

`stored` is the settings row, `flag` the copy of each process.  `Toggle` and `Store`
are the two halves of a save (the copy first), `Boot`/`BootBlind` a start with and
without a readable table, `Refresh` the overlay when a sync starts.  Whoever queues
a sync decides its mode with its own copy; an identity job asks before each record
(`NextRecord`).  `AskReconcile`, `OverlayReconcile`, `QueueReconcile` keep the order
of `run_reconciliation`: ask, refresh, queue.

### TeamMap

A catalog is a set of `facts`; records may name a client that is not in it
(`Elsewhere`).  `AssignTeams` is one pass of `apply_team_ids`.  Clients get their team
in turn, those that name no account above them first and then by number
(`ParentFirst`), because one client may take what another just got:
`ClientTeams` is a fold in that order, `ClientOwners` likewise.  Contracts and
contacts take values from records that are through already, so theirs are
functions of what came before (`DealTeams`, `PersonTeams`, `DealOwners`,
`Backfilled`, `PersonOwners`), composed in the order of the code's loops.

## 4. Runs

| Run | Shows | Bounds | Assumes |
|---|---|---|---|
| `all` | Role `all`: type, `HeldRowsRun`, `NeverRefused`, `OneScheduled`, `VerdictsStay`, and the refinement of `JobLedger` | 2 rows, 3 runs, 2 errors, 1 crash | no error in `EnterRun` (leaks the lock) or in the queue count |
| `worker` | Deployed layout: `OneSync`, `OneHolder`, `DoneMeansClosed` | 2 rows, 2 runs, 1 error anywhere, 1 crash of either container | |
| `worker_settles` | Deployed layout: every queued row is settled | 2 rows, 1 run, 1 loop-ending error, 1 crash | fairness below |
| `live_release` | violated: a row is released while it is executed | no fault | |
| `budget` | budget, escalation, resolution of dead letters | 1 client to be created, 2 rows, budget 3 or 2, 2 operator actions, 1 error or crash | |
| `rests` | every open row is resolved or frozen in the end, unless failing syncs postpone it or the cap leaves it behind for ever | 2 records (one a client to be created), 2 rows, budget 2, cap 1, 1 error or crash | fairness below |
| `starved` | violated: a row is never taken up | 1 record, 1 row, no fault | fairness only |
| `links` | gate, one client per approval through any one fault of a harmless kind, each further one paid for by a Resolved or a lost effect, no twin of a lead that was listed, approvals served | 1 lead, 8 clients, any 4 of 9 kinds of fault, 2 Resolved | leads pulled as in the tests |
| `twin`, `unserved` | violated: with what the client pulls | 1 lead, no fault | |
| `planning` | `NewerWins`; `ArchiveJustified`, `PeriodsHeld`, `YanksBounded`, `OneDeal`, `DealsFollow`; `NeverOverbooked`, `NothingLost`; `CompleteMeansAll` | merge: 4 edits, 2 faults; deals: 2 changes by staff, 2 by reps, 1 fault; revenue: 2 months, 2 stations, 2 lines with or without a date or an amount; sweep: 8 ids in batches of 2, a tail of 2, 1 record created and 1 deleted during it | fairness for `DealsFollow` only |
| `intake` | `SyncRespectsPeople`, `FirstRuleDecides`; `AnsweredIsServed`, `ResendsAreHarmless`, `ChangesArrive`; `SwitchArrives`; `FamiliesHold` | matching: 2 clients, 2 companies, up to 3 shared facts, 4 lists of rules, 1 decision, 1 fault; webhooks: 2 records on each side, 2 bodies (one that names a record, one that does not), 2 changes, 1 resend, 1 fault; switch: 2 changes, 2 requests, 1 fault; teams: 3 clients and one outside the catalog, 2 contracts, 1 contact, up to 3 facts | fairness for `ChangesArrive` and `SwitchArrives` only |

Why the bounds are enough.  Two queue rows and two loops give every pairing of
executor and releaser; a third run lets the poll enqueue while one is executed and
one waits.  In `rests` two records behind a cap of one exercise the cap, the order
of groups and both kinds of record; the row that comes first is charged to its budget
and leaves, so with these bounds the cap leaves no row behind for ever.  With records
that keep failing anew it may (reconcile.py:98), which the property allows by name.
In `budget` the one record is held while it is a client to be created and charged
once it is linked, and its two rows are the resolved one and the one that comes after
it; a budget of three has a charge that does not freeze and a change to two while rows
are under way.  In `links` a creation is planned from what the lead at hand is, has and
was, so leads meet only in the order of items, which `GateHolds` is about and the
theorems carry to any number of them.  Four faults let each of the kinds that cost a
creation meet the next; eight clients are one by staff and the seven that `CreationsPaid`
allows under two Resolved and four faults, so no request waits for a free id.  The
theorems of section 6 carry the other properties to any number of leads and faults.
With two leads, five clients, one fault and one Resolved instead TLC finds all of
them to hold as well.

In `planning`, four edits give a baseline, an edit on either side after it, and one
more that the sync has not seen; two faults let a sync fail half way and the next
one meet a thin read or no baseline.  Two changes by staff let a contract leave and
come back or change status twice, two acts of a rep let one be undone and the deal
be deleted.  Two lines over two months at two stations overlap in every way, and
the amounts make rounding go up, down and meet a tie; a line may lack its first day
or its amount, and the totals stated are none, one below the lines and one above.  Eight ids hold a gap as long
as the tail below and above twice the anchor.  In `intake`, two clients compete for
one company and one client for two; one decision and one fault are enough to fall
between any two steps of the sync that follows.  A second change with the body of
the first is a duplicate, one after a restart is not; the two changes may be of one
record or of two.  Three facts over three clients build families of three levels in
every order of ids, with a label at the top.  The theorems of section 6 lift every
safety property from these bounds; what the bounds decide alone are
`OneClientPerApproval` and the six liveness properties.

Every property has a mutant in `PROJECT.json`: a plausible slip in the code
(named with a comment `Slip:` next to the definition it replaces) under which the
same run finds the property violated.

### Fairness

- A loop that is alive, a pass and a sync that are under way go on: they are plain
  sequential code.  Weak fairness.
- The scheduled poll and the reconciling job are started again and again, because
  APScheduler fires them at an interval.  A pass starts only when the worker is
  idle, which may be so only at times: strong fairness.
- `StartRetry` is strongly fair: rows are claimed oldest first.
- Time passes: `GoStale`, `ComesDue` are weakly fair.
- In `planning`, a sync that has begun goes on (`DealSync`, weak fairness) and the
  poll starts full ones again and again (`Enumerate(TRUE)`, strong fairness: it
  waits for the sync before it).
- In `intake`, the worker goes on and the scheduler polls (`IntakeFairness`,
  `PlanFairness`); a save and a reconciliation that have begun go on.
- Nothing makes a handler receive a request, a human act, a call raise or a
  process die.

For `rests` the second of these is an assumption with content: the worker is found
idle at the interval again and again (`SF_vars(PassStart)`).  Nothing is assumed about
what a pass then finds due; `starved` shows that this is not enough for a row to be
taken up, and `rests` that nothing else stands in the way.

### Companion configurations

These reproduce behaviours that the runs above exclude by a named assumption.
Each is expected to end in a counterexample.

| Configuration | Property | What the trace shows |
|---|---|---|
| `MCSyncWorker_refused` | `NeverRefused` | the second loop of the worker container claims a sync while the first executes one; it ends in error unexecuted |
| `MCSyncWorker_lock_leak` | `LockHasHolder` | an error between `acquire_lock` (orchestrator.py:784) and the `try` (812) leaves the lock taken |
| `MCSyncWorker_all_silenced` | `EveryJobSettles` | an error in `claim_job` ends the only loop with rows queued; every later poll skips as busy |
| `MCSyncWorker_queued_forever` | `QueuedRunsClose` | a crash between `add_run` and `add_job` |
| `MCSyncWorker_running_forever` | `RunningRunsClose` | a hubspot-identity row has no `run_id`, its run is not closed by the release |
| `MCDeadLetters_two_rows` | `OneOpenRow` | resolved between re-read and commit of the pass, failed again: two pending rows |
| `MCDeadLetters_attempts` | `AttemptsAreCycles` | a row is born with `attempts=1` (orchestrator.py:1083) although the count is documented as that of cycles (reconcile.py:12) |
| `MCDeadLetters_silent_freeze` | `EveryFreezeAlerted` | the operator deletes one charged row, the freeze of the others is not escalated |
| `MCClientLinks_double_post` | `OneClientEver` | the answer of the creation is lost and the second POST creates an unnamed client |
| `MCClientLinks_learned` | `OneClientEver` | a row that learned its id no longer gates; if matching does not link the lead (see the finding `twin`) the next full sync creates a second client |
| `MCClientLinks_gate_open` | `OneClientEver` | an unreadable gate counts as an empty one (orchestrator.py:940) |
| `MCPlanning_conflict` | `ConflictIsReal` | the sync's own write-back looks like a move of Aquira to the next merge, which announces a conflict |
| `MCPlanning_thin_read` | `ThinReadKeeps` | a failed `Client/Load` (aquira/client.py:705) leaves the field blank, like the baseline; a later value of the staff is written over |
| `MCPlanning_rep_value` | `RepValueStays` | all properties are PATCHed when one differs: what a rep entered since the pull is undone |
| `MCPlanning_real_months` | `RealMonthsKept` | lines that cannot be read leave the stated total, whose even split replaces the months read before |
| `MCPlanning_raises` | `NeverRaises` | a contract without lines whose flight ends before it starts divides by no months (revenue.py:145) |
| `MCIntake_second_company` | `OneCompanyPerClient` | a client that has its company is matched again and planned on a second one |
| `MCIntake_loser` | `LoserSuggested` | under the rules the loser of a contested company is not suggested, unlike matching.py:13 says |
| `MCIntake_lookalike` | `ChangeNoticed` | a second change announced by the same body is dropped as a duplicate and waits for the poll |
| `MCIntake_reconcile` | `ReconcileObeys` | the pass asks for plan-only before it refreshes the settings |
| `MCIntake_owner` | `OwnerReachesContracts` | a client gets its owner from its contracts after the contracts had their turn |

## 5. Findings

Four runs end in a violation of what the repository says of itself.

- `live_release`: `run_forever` releases every running row at start because
  "Nothing of ours is in flight yet" (worker.py:236).  In the worker container the
  main thread is in `run_forever` already; `start_worker` does not know it and adds
  a second loop, whose release settles the row being executed.
- `starved`: a failing sync that meets a row due moves `next_retry_at` a whole
  interval ahead (repo.py:158).  With a retry interval that is a multiple of the
  sync interval no pass finds the row due: it is never charged, frozen or
  escalated.
- `twin`: the HubSpot projection lists linked companies only
  (hubspot/client.py:1153), so the matching has no candidates in a live run.
- `unserved`: the dropdown that approves a creation is not requested
  (hubspot/client.py:1161), so no approved lead is created.

The last two make `links` a statement about the design (planner, gate and apply
loop on the input the tests give them), not about the deployed pull.

## 6. Proofs

TLAPS checks the following for every value of the constants that meets the named
assumptions (`RoleAssumption`, `HandlersAssumption`, `RecordsAssumption`,
`LeadsAssumption`, `FetchedAssumption`, `MergeAssumption`, `DealAssumption`,
`SweepAssumption`, `RevenueAssumption`, `MatchAssumption`, `IntakeAssumption`,
`PlanAssumption`, `TeamAssumption`, `NilAssumption`, and `BoundsAssumption` of three
modules).  These
give the constants their types; TLC evaluates them in the runs.  A theorem with
further hypotheses names them here, and why they are there follows the table.

Every safety property that a run of section 4 checks is the conclusion of a theorem,
but `OneClientPerApproval`, which needs a pull that the deployed client does not do.

| Theorem | Statement | Argument |
|---|---|---|
| `SyncWorkerProofs!TypeCorrect` | `Spec => []TypeOK` | `TypeOK` is inductive; one lemma per actor |
| `SyncWorkerProofs!OneSyncAtATime` | `Spec => []OneSync` | `LockInv`: whoever is inside `run` has the lock set.  `OneSync` alone is not inductive: from an unlocked state with a loop inside, a second could enter. |
| `SyncWorkerProofs!OneHolderPerRow` | `Spec => []OneHolder` | `HoldInv` (a row being worked on has left the queue) and `RowsNamed` (a loop past its claim names a row): a claim takes only queued rows, and no row returns to the queue |
| `SyncWorkerProofs!DoneRowsClosed` | `Spec => []DoneMeansClosed` | `DoneInv`: "done" is written by an executor that saw its run closed (`SawVerdict`), and a row that reads "done" has no executor left to open the run again; `RunInv`: no two rows or calls name the same run |
| `SyncWorkerProofs!LockLeaksOnlyAtEntry` | `"enter" \notin FaultPoints` implies `Spec => []LockHasHolder` | inductive with `LockInv`; both layouts |
| `SyncWorkerProofs!ClaimedSyncsRun` | `Role = "all"`, `"enter" \notin FaultPoints` imply `Spec => []NeverRefused` | the one loop that claims is not inside `run` then, and the lock has no other holder |
| `SyncWorkerProofs!ExecutedRowsRun` | `Role = "all"`, `~SlowRuns` imply `Spec => []HeldRowsRun` | `AloneInv`: one loop, so when it releases it executes nothing; `StaleInv`: the poll releases only stale rows, and none of those is executed |
| `SyncWorkerProofs!QueueImplementsLedger` | `Role = "all"`, `~SlowRuns` imply `Spec => ImplementsLedger` | the refinement of `JobLedger`, step by step; `VictimInv`: what a release is about to settle is running or an error already, and with `AloneInv` nobody holds it |
| `SyncWorkerProofs!VerdictsAreKept` | `Role = "all"`, `~SlowRuns` imply `Spec => VerdictsStay` | `VerdictInv`: a run stays open while its row is queued, while a call is still going to write that row, and until its own sync closes it; so what would write over a verdict finds none |
| `SyncWorkerProofs!PollsNeverPileUp` | `Role = "all"`, `~SlowRuns`, `"count" \notin FaultPoints` imply `Spec => []OneScheduled` | `SchedInv`: from the count of the queue to the commit of its row nobody but the poll adds a scheduled sync |
| `DeadLettersProofs!TypeCorrect` | `Spec => []TypeOK` | inductive |
| `DeadLettersProofs!BilledOnce` | `Spec => []NeverBilledTwice` | `BillInv`: a row in the hands of the pass is not frozen, so no reopening resets its cycles; a charged row has one cycle to spare until the commit uses it |
| `DeadLettersProofs!ResolvedRowsStay` | `Spec => ResolvedStays` | from typing: only `MarkCommit` and `HoldCommit` write a status over a resolved row, and only one they re-read open |
| `DeadLettersProofs!CyclesBilled` | `Spec => []CyclesAreBilled` | `CyclesInv`: a row whose retry is queued owes one attempt until the commit charges it; only a fault or the deletion of a row lets the pass forget the debt, and both are counted |
| `DeadLettersProofs!FreezesReachHumans` | `Spec => []FreezesEscalated` | `FreezeInv`: what the pass is about to raise belongs to this pass, at each of its stages |
| `ClientLinksProofs!TypeCorrect` | `Spec => []TypeOK` | inductive |
| `ClientLinksProofs!GateKept` | `Spec => []GateHolds` | `GateInv`: a lead being created is no longer planned, so recording its failure gates no planned lead |
| `ClientLinksProofs!ListedHaveNoTwin` | `Spec => []NoTwinOfListed` | `TwinInv`: what holds of the companies made holds of those planned; a client the matching passes over, of a lead that was listed or is linked, has a twin already (`UnmatchedHasTwin`), and `OwnInv`: every id the sync holds is that of a client of the lead at hand |
| `ClientLinksProofs!CreationsArePaid` | `Spec => []CreationsPaid` | `PaidInv`: a lead that is planned, or that the next sync may plan, has paid for all clients created so far; a creation under way owes for one, which the link, the gating row or a fault settles |
| `PlanningProofs!LaterValueWins` | `MergeSpec => NewerWins` | `NotBehind`: whatever a side holds or a sync has read is what the baseline saw in HubSpot, blank, or no earlier than what it saw in Aquira.  A difference from the baseline then means later.  Needs that what was read is not ahead of its side (`AqFollows`, `HsFollows`) until the baseline is saved. |
| `PlanningProofs!ArchivesAreJustified`, `PeriodsAreHeld` | `DealSpec => ArchiveJustified`, `DealSpec => PeriodsHeld` | `Seen`: each thing a sync knows of the contract was so since it enumerated it, a detail without periods included; absence proves it only while the pull is certified |
| `PlanningProofs!YanksAreBounded` | `DealSpec => []YanksBounded` | `Charged`: the replaced stages, and those the sync is still going to replace (baseline behind row, row behind contract, deal lost by the pull), are paid for by transitions and faults |
| `PlanningProofs!OneDealEver` | `DealSpec => []OneDeal` | `Counted`: a deal the pull lost has its fault in hand before the second record is made |
| `PlanningProofs!CertifiedIsWhole` | `SweepSpec => []CompleteMeansAll` | `Read` (live records below the next batch were read) and `DeadRun` (the dead batches hold no record older than the sweep; a newer one is numbered above) |
| `RevenueProofs!NoContractOverbooked` | `RevSpec => []NeverOverbooked` | when the sum is excessive, or there are no lines, every slot but the last is rounded and the last takes the rest, whatever the rounding: the sum is the stated total; otherwise it is at most a tolerance above it |
| `RevenueProofs!NothingIsLost` | `RevSpec => []NothingLost` | the shares of a line add up to the line, since its last month takes the rest; the sums over lines and over slots may be exchanged; each slot is off by half a cent at most (`Rounds`).  What is stated and not dated is then short by more than the tolerance |
| `PlanningProofs!PlanningIsItsParts`, `PlanningIsSafe` | `PlanningSpec` implies the four specifications and all the safety properties of the run | a step of the composition is a step of one part and a stutter of the others |
| `WebhookIntakeProofs!ResendsHarmless` | `IntakeSpec => []ResendsAreHarmless` | `Paid`: a receipt stands for one job, a job without it for a fault |
| `WebhookIntakeProofs!AnsweredServed` | `IntakeSpec => []AnsweredIsServed` | `LossInv`: every message nothing will queue a job for any more, and whose change is not carried over, has a job of its record that waits or runs, or a fault, of its own; one set of messages for all records is what the faults pay for |
| `IntakeProofs!FirstRuleAlwaysDecides` | `MatchSpec => []FirstRuleDecides` | `InOrder` holds at every place of the pass over rules and clients: clients have been tried by the earlier rules, no pair is decided that may not be, none twice |
| `IntakeProofs!PeopleAreRespected` | `MatchSpec => SyncRespectsPeople` | `MatchFinds`: what is going to be linked was free when listed, one to one and not excluded as read; what a human has excluded since is in `late` |
| `IntakeProofs!FamiliesStayTogether` | `TeamSpec => []FamiliesHold` | a family is closed under the facts that connect records (each step that adds to it spends a fact), and a pass gives the records of a closed set only what records of it give; an account that has its turn first has its team for good when a client below it takes it |
| `IntakeProofs!IntakeIsItsParts`, `IntakeIsSafe` | `AllSpec` implies the four specifications and all the safety properties of the run | as for planning |
| `MergeTypeCorrect`, `DealTypeCorrect`, `SweepTypeCorrect`, `RevTypes`, `PlanningTypeCorrect`, `IntakeTypeCorrect`, `MatchTypeCorrect`, `PlanTypeCorrect`, `TeamTypeCorrect`, `AllTypeCorrect` | type correctness of the modules and of the two compositions | inductive, but for `RevTypes` and `MatchTypeCorrect`, which need what folds and sums return |

The invariants named in the last column are defined in the proof modules, before the
lemmas that show that the actions keep them.

The further hypotheses:

- `Role = "all"` is needed: with the two loops of the worker container
  `live_release` and `MCSyncWorker_refused` end in counterexamples.
- `~SlowRuns`: no live run outlasts the 90 minutes after which the poll takes it for
  dead (section 7).
- `"enter" \notin FaultPoints`, `"count" \notin FaultPoints`: an error between
  `acquire_lock` and the `try` leaks the lock (`MCSyncWorker_lock_leak`), and
  `queue_size` answers 0 when it raises.  The theorems say that these two lines are
  the only ones: errors everywhere else, and crashes, are allowed.

Of the properties themselves, some name what they leave out: `NoTwinOfListed` the
clients whose lead the pull did not list (run `twin`: the deployed pull lists none),
`OneClientPerApproval` more than one fault and the faults of `MCClientLinks_double_post`
and `MCClientLinks_gate_open`, `NothingLost` the lines without a first day, of which it
says that they are reported, `PeriodsHeld` contracts none of whose lines can be placed,
`FamiliesHold` a client that has its turn before the account above it.  The theorem
`CreationsArePaid` covers what `OneClientPerApproval` leaves out, at its price: each
kind of lost effect costs one client at most.

Induction.  The provers take no predicate as a parameter, so the induction schemes of
the library cannot be used.  `SetInduction` states induction over sets instead: a set
of numbers that has zero and the successor of each of its members has every number,
and a set of subsets of a finite `S` that has the empty set and each of its members
with one element more has `S`.  From these follow what the folds of the community
modules compute (`FoldIs`, `FoldSteps`), that a sum may be taken in any order, and
what a pass over a list keeps.

Only model-checked: `OneClientPerApproval`; the six liveness properties (`EveryJobSettles`, `EveryRowRests`,
`ApprovedServed`, `DealsFollow`, `ChangesArrive`, `SwitchArrives`), which need
fairness and so `ENABLED`, both beyond the prover; and the counterexamples of the
runs that expect one and of the companion configurations.

## 7. What the results rest on

- Live runs are shorter than 90 minutes (`SlowRuns = FALSE`), as the comment at
  worker.py:59 supposes.  Lift it with the constant.
- `acquire_lock` tests a class attribute and sets it (orchestrator.py:142-144) without
  synchronisation; `AcquireLock` is one step because the image runs CPython 3.12
  (`src/Dockerfile`), which hands the interpreter to another thread only at calls,
  at function entry and on backward jumps.  There is none between the two; an
  interpreter without a global lock would need a lock here.
- `add_dead_letter` is one step (its read and commit are adjacent); the pass's
  writes, which hold rows longer, are two.  `freeze_dead_letters` is called once
  per reason in the code, once in the model.
- A record keeps its ids, except that a create learns its Aquira id.
- The instances have fewer than the 50 rows `due_dead_letters` returns.
- The pass uses the budget its process last overlaid; the model takes a change as
  visible at once.
- What the pass noted (`charged`, `seen`, `held`, `updated`) is dropped in the model
  as soon as nothing reads it again.
- HubSpot's `aquira_id` is unique and a conflicting write is answered 409, which
  `upsert_crm` turns into an update of the holder.
- The command line (`__main__.py`) runs a sync in a process of its own, whose
  `_active` excludes nothing in the worker; it is not modelled.
- `FieldMerge` follows one field of one record, `DealLife` one contract: the planner
  treats fields and records one by one.  What all of a record's fields share, the
  PATCH of every property, is the parameter `other` of `WriteCompany`.
- `CatalogSweep` relies on Aquira allocating ids in sequence and never again, and on
  its answering a list none of whose ids exists as an error, both of which the
  comments in aquira/client.py state.
- `Revenue` counts a month's share of a line in parts of a cent (`Unit`), rounded
  down, where the code divides with 28 digits; the last month takes the rest in both.
  A unit of 12 makes the shares of the run's weights exact; `NothingLost` and
  `NeverOverbooked` hold for any.
- `WebhookIntake`: a handler does not wait once it has the body, so one process
  handles one message at a time; a notification names at most one contract, and a batch is about one record: the
  fan-out of a batch to several records is not modelled.
- `NewerWins` does not speak of a field that is not what the sync read, nor of a sync
  without a baseline; `SyncRespectsPeople` not of exclusions that could not be read.
  Both are what the code does, not what it promises.

Not modelled: sign-in, pages, alert texts, the unwrapping and formatting of Aquira
values, property formatting and schema bootstrap of HubSpot, database bootstrap and
the probe scripts have no state that interacts with the above.  The login on a 401,
the sync cursor and the id map are not modelled either: a request that fails after
a second login is a failed request to all modules, and the cursor and the id map
are recorded and decide nothing a later sync does.
