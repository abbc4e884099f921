--------------------------- MODULE WebhookIntake ---------------------------
(***************************************************************************)
(* The two webhook endpoints (src/app/webhooks/routes.py): how a change in *)
(* Aquira or HubSpot that is announced by a message becomes a queued sync, *)
(* under resent messages, database errors and restarts of the web process, *)
(* and how the poll makes up for what they lose.                           *)
(*                                                                         *)
(* A handler does not wait for anything once it has the body, so the       *)
(* process handles one message at a time; the sender repeats a message     *)
(* until it sees an answer.  The receipt is written before the job.        *)
(* SyncWorker has the queue and the worker in detail; here a job is picked,*)
(* reads its record on the side that announced it, or all records on both  *)
(* when the poll asked, and brings the other side up to what it read.      *)
(***************************************************************************)
EXTENDS Integers, FiniteSets

CONSTANTS
    Subjects,       \* records that change
    Bodies,         \* what an Aquira notification can look like
    Nameless,       \* bodies that name no contract
    SubjectOf,      \* the record each other body names
    MaxChanges,     \* bound: changes on both sides
    MaxResends,     \* bound: repeated messages
    MaxIntakeFaults \* bound: database errors, failed syncs, restarts

ASSUME IntakeAssumption ==
    /\ Nameless \subseteq Bodies
    /\ SubjectOf \in [Bodies \ Nameless -> Subjects]
    /\ MaxChanges \in Nat /\ MaxResends \in Nat /\ MaxIntakeFaults \in Nat

\* What can change, and be ahead of the other side: a record on one side.
Senders == {"aquira", "hubspot"}
Sources == Senders \X Subjects

VARIABLES
    changed,    \* changes so far of each source
    arrived,    \* the change of it the other side is up to
    wire,       \* messages not answered yet
    answered,   \* history: messages answered
    receipts,   \* WebhookReceipt rows
    memory,     \* _SEEN_MESSAGE_IDS
    handler,    \* the message in work and what is next
    queue,      \* jobs waiting, by source; the poll's sync serves all
    working,    \* the job that runs and the changes it has read
    queuedFor,  \* history: jobs queued for a message id
    changes, resends, intakeFaults

door == <<receipts, memory, handler>>
worker == <<queue, working>>
intakeVars == <<changed, arrived, wire, answered, door, worker, queuedFor, changes, resends, intakeFaults>>

\* The id of an Aquira notification is a digest of its body, that of a
\* HubSpot batch is the id of its first event, which it may not have.
Anonymous == <<"hubspot">>
MessageIds == ({"aquira"} \X Bodies) \cup ({"hubspot"} \X Subjects \X (1 .. MaxChanges)) \cup {Anonymous}
Messages == [id : MessageIds, of : Subjects, about : 1 .. MaxChanges]
From(m) == m.id[1]
Source(m) == <<From(m), m.of>>
Names(m) == \A b \in Nameless : m.id # <<"aquira", b>>

\* The messages that announce change n of a record.
Announcing(s, r, n) ==
    IF s = "hubspot" THEN {Anonymous, <<"hubspot", r, n>>}
    ELSE {<<"aquira", b>> : b \in {c \in Bodies : c \in Nameless \/ SubjectOf[c] = r}}

Handler == [at : {"idle", "check", "mark", "queue", "answer"}, on : Messages \cup {<<>>}]
Free == [at |-> "idle", on |-> <<>>]
EveryRecord == <<"poll">>
Jobs == Sources \cup {EveryRecord}
Idle == [job |-> <<>>, seen |-> [x \in Sources |-> 0]]
Serves(job, x) == job \in {x, EveryRecord}

IntakeInit ==
    /\ changed = [x \in Sources |-> 0] /\ arrived = [x \in Sources |-> 0]
    /\ wire = {} /\ answered = {}
    /\ receipts = {} /\ memory = {} /\ handler = Free
    /\ queue = [j \in Jobs |-> 0] /\ working = Idle
    /\ queuedFor = [i \in MessageIds |-> 0]
    /\ changes = 0 /\ resends = 0 /\ intakeFaults = 0

IntakeFault == intakeFaults < MaxIntakeFaults /\ intakeFaults' = intakeFaults + 1
IntakeFine == UNCHANGED intakeFaults

-----------------------------------------------------------------------------
(* The senders.                                                            *)

Change(s, r, id) ==
    /\ changes < MaxChanges /\ changes' = changes + 1
    /\ changed' = [changed EXCEPT ![<<s, r>>] = @ + 1]
    /\ id \in Announcing(s, r, changed'[<<s, r>>])
    /\ wire' = wire \cup {[id |-> id, of |-> r, about |-> changed'[<<s, r>>]]}
    /\ UNCHANGED <<arrived, answered, door, worker, queuedFor, resends, intakeFaults>>

-----------------------------------------------------------------------------
(* The handler.                                                            *)

Receive(m) ==
    /\ handler.at = "idle" /\ m \in wire
    /\ handler' = [at |-> "check", on |-> m]
    /\ UNCHANGED <<changed, arrived, wire, answered, receipts, memory, worker, queuedFor,
                   changes, resends, intakeFaults>>

Now(at) == handler.at = at
Then(at) == handler' = [handler EXCEPT !.at = at]
Id == handler.on.id
HasId == Id # Anonymous

\* HubSpot's ids are looked up in memory first.
KnownInMemory == From(handler.on) = "hubspot" /\ Id \in memory

Duplicate ==
    /\ Now("check")
    /\ KnownInMemory \/ Id \in receipts
    /\ memory' = IF From(handler.on) = "hubspot" THEN memory \cup {Id} ELSE memory
    /\ Then("answer")
    /\ UNCHANGED <<changed, arrived, wire, answered, receipts, worker, queuedFor, changes, resends>>
    /\ IntakeFine

NotSeen ==
    /\ Now("check")
    /\ ~KnownInMemory /\ Id \notin receipts
    /\ Then("mark")
    /\ UNCHANGED <<changed, arrived, wire, answered, receipts, memory, worker, queuedFor, changes, resends>>
    /\ IntakeFine

\* Slip: only the process remembers the message.
MarkInMemory ==
    /\ Now("mark")
    /\ memory' = memory \cup {Id}
    /\ Then("queue")
    /\ UNCHANGED <<changed, arrived, wire, answered, receipts, worker, queuedFor, changes, resends>>
    /\ IntakeFine

\* Without an id there is nothing to record.
Mark ==
    /\ Now("mark")
    /\ receipts' = IF HasId THEN receipts \cup {Id} ELSE receipts
    /\ memory' = IF HasId /\ From(handler.on) = "hubspot" THEN memory \cup {Id} ELSE memory
    /\ Then("queue")
    /\ UNCHANGED <<changed, arrived, wire, answered, worker, queuedFor, changes, resends>>
    /\ IntakeFine

\* The look-up, the receipt or the event fails: memory decides.  An Aquira
\* message known there is a duplicate, a HubSpot message goes on.
ReceiptFails ==
    /\ handler.at \in {"check", "mark"} /\ ~KnownInMemory
    /\ receipts' \in {receipts} \cup (IF Now("mark") /\ HasId THEN {receipts \cup {Id}} ELSE {})
    /\ memory' = IF HasId THEN memory \cup {Id} ELSE memory
    /\ Then(IF From(handler.on) = "aquira" /\ Id \in memory THEN "answer" ELSE "queue")
    /\ UNCHANGED <<changed, arrived, wire, answered, worker, queuedFor, changes, resends>>
    /\ IntakeFault

\* enqueue_sync, enqueue_hubspot_identity: one row.
Enqueue ==
    /\ queue' = [queue EXCEPT ![Source(handler.on)] = @ + 1]
    /\ queuedFor' = [queuedFor EXCEPT ![Id] = @ + 1]

QueueJob ==
    /\ Now("queue")
    /\ IF Names(handler.on) THEN Enqueue ELSE UNCHANGED <<queue, queuedFor>>
    /\ Then("answer")
    /\ UNCHANGED <<changed, arrived, wire, answered, receipts, memory, working, changes, resends>>
    /\ IntakeFine

\* The sender gets a 500 and keeps the message; its receipt stands, and so does
\* the row when only the count behind it failed.
QueueFails ==
    /\ Now("queue") /\ Names(handler.on)
    /\ Enqueue \/ UNCHANGED <<queue, queuedFor>>
    /\ handler' = Free
    /\ UNCHANGED <<changed, arrived, wire, answered, receipts, memory, working, changes, resends>>
    /\ IntakeFault

\* The sender sees the answer, or sends the message again.
Answer ==
    /\ Now("answer")
    /\ \/ /\ wire' = wire \ {handler.on} /\ answered' = answered \cup {handler.on}
          /\ UNCHANGED resends
       \/ /\ resends < MaxResends /\ resends' = resends + 1
          /\ UNCHANGED <<wire, answered>>
    /\ handler' = Free
    /\ UNCHANGED <<changed, arrived, receipts, memory, worker, queuedFor, changes>> /\ IntakeFine

\* The web process restarts; memory is gone.
WebRestarts ==
    /\ handler' = Free /\ memory' = {}
    /\ UNCHANGED <<changed, arrived, wire, answered, receipts, worker, queuedFor, changes, resends>>
    /\ IntakeFault

-----------------------------------------------------------------------------
(* The worker.                                                             *)

\* Slip: a sync goes by what the queue knew, not by what it reads.
StartStale(j) ==
    /\ working = Idle /\ queue[j] > 0
    /\ queue' = [queue EXCEPT ![j] = @ - 1]
    /\ working' = [job |-> j, seen |-> arrived]
    /\ UNCHANGED <<changed, arrived, wire, answered, door, queuedFor, changes, resends>> /\ IntakeFine

\* A job reads what it serves, as it is when the sync runs.
Start(j) ==
    /\ working = Idle /\ queue[j] > 0
    /\ queue' = [queue EXCEPT ![j] = @ - 1]
    /\ working' = [job |-> j, seen |-> [x \in Sources |-> IF Serves(j, x) THEN changed[x] ELSE 0]]
    /\ UNCHANGED <<changed, arrived, wire, answered, door, queuedFor, changes, resends>> /\ IntakeFine

Finish ==
    /\ working # Idle
    /\ arrived' = [x \in Sources |-> IF working.seen[x] > arrived[x] THEN working.seen[x] ELSE arrived[x]]
    /\ working' = Idle
    /\ UNCHANGED <<changed, wire, answered, door, queue, queuedFor, changes, resends>> /\ IntakeFine

\* The sync fails, a record cannot be read, the worker dies: nothing repeats
\* the job.
SyncFails ==
    /\ working # Idle
    /\ working' = Idle
    /\ UNCHANGED <<changed, arrived, wire, answered, door, queue, queuedFor, changes, resends>> /\ IntakeFault

\* PollJob: only when nothing waits or runs.
Poll ==
    /\ working = Idle /\ \A j \in Jobs : queue[j] = 0
    /\ queue' = [queue EXCEPT ![EveryRecord] = 1]
    /\ UNCHANGED <<changed, arrived, wire, answered, door, working, queuedFor, changes, resends>> /\ IntakeFine

Work == Finish \/ \E j \in Jobs : Start(j)

IntakeNext ==
    \/ \E s \in Senders, r \in Subjects, id \in MessageIds : Change(s, r, id)
    \/ \E m \in wire : Receive(m)
    \/ Duplicate \/ NotSeen \/ Mark \/ ReceiptFails
    \/ QueueJob \/ QueueFails \/ Answer \/ WebRestarts
    \/ Work \/ SyncFails \/ Poll

IntakeSpec == IntakeInit /\ [][IntakeNext]_intakeVars

\* The worker goes on, and the scheduler polls again and again.
IntakeFairness == WF_intakeVars(Work) /\ WF_intakeVars(Poll)

-----------------------------------------------------------------------------

IntakeTypeOK ==
    /\ changed \in [Sources -> 0 .. changes] /\ arrived \in [Sources -> 0 .. MaxChanges]
    /\ wire \subseteq Messages /\ answered \subseteq Messages
    /\ receipts \subseteq MessageIds /\ memory \subseteq MessageIds
    /\ handler \in Handler
    /\ queue \in [Jobs -> Nat]
    /\ working.job \in Jobs \cup {<<>>} /\ working.seen \in [Sources -> 0 .. MaxChanges]
    /\ queuedFor \in [MessageIds -> Nat]
    /\ changes \in 0 .. MaxChanges
    /\ resends \in 0 .. MaxResends /\ intakeFaults \in 0 .. MaxIntakeFaults

\* The change has been carried over, or a job that will read it waits or runs.
Served(m) ==
    LET x == Source(m) IN
    \/ arrived[x] >= m.about
    \/ \E j \in Jobs : Serves(j, x) /\ queue[j] > 0
    \/ Serves(working.job, x) /\ working.seen[x] >= m.about

\* An earlier message looked the same.
Lookalike(m) ==
    /\ m.id # Anonymous
    /\ \E n \in Messages : n.id = m.id /\ n.about < m.about /\ n \in answered \cup wire

\* A message that names a record and was answered has been served, but for at
\* most one message per fault, and for those that look like an earlier one.
AnsweredIsServed ==
    Cardinality({m \in answered : Names(m) /\ ~Served(m) /\ ~Lookalike(m)}) <= intakeFaults

\* However often a message is sent, it queues one job, and one more per
\* database error or restart.  A message without an id queues one each time.
ResendsAreHarmless == \A i \in MessageIds \ {Anonymous} : queuedFor[i] <= 1 + intakeFaults

\* When the sides come to rest, each is brought up to the other, whatever
\* messages were lost: the poll makes up for them.
ChangesArrive == <>[](\A x \in Sources : arrived[x] = changed[x])

\* What a reader of the receipts expects, and a digest of the body does not
\* give: a change that is announced is served without waiting for the poll.
ChangeNoticed ==
    \A m \in answered : Names(m) => Served(m) \/ intakeFaults > 0
=============================================================================
