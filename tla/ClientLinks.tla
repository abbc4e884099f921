---------------------------- MODULE ClientLinks ----------------------------
(***************************************************************************)
(* HubSpot companies and Aquira clients: how a sync finds the company of a *)
(* client, and how an approved company becomes a client (the pull, plan    *)
(* and apply of src/app/sync/orchestrator.py, create_client of             *)
(* src/app/aquira/client.py, the create gate of src/app/db/repo.py).       *)
(*                                                                         *)
(* The lead-first flow: sales enters a lead company in HubSpot; its Aquira *)
(* client is entered by staff later, or created by the sync once a human   *)
(* approved the lead.  Companies, identity writeback and client creation   *)
(* are switched on and plan-only mode is off.                              *)
(*                                                                         *)
(* A sync works on what it pulled.  Every request that changes Aquira or   *)
(* HubSpot is a step of its own, and humans act between any two.           *)
(***************************************************************************)
EXTENDS Naturals, FiniteSets

CONSTANTS
    Leads,         \* HubSpot companies entered by sales
    NoLead,
    MaxClients,    \* bound: Aquira clients
    Fetched,       \* what the HubSpot pull reads of unlinked companies: their
                   \* "match" fields into existing.companies, their "dropdown"
    FaultKinds,    \* what may go wrong
    MaxFaults,     \* bound: faults, each of a kind of its own
    MaxRearms      \* bound: rows an operator marks resolved

ASSUME LeadsAssumption == NoLead \notin Leads
ASSUME BoundsAssumption == MaxClients \in Nat /\ MaxFaults \in Nat /\ MaxRearms \in Nat
ASSUME FetchedAssumption == Fetched \subseteq {"match", "dropdown"}

Client == 1..MaxClients
NoClient == 0

VARIABLES
    origin,    \* the lead an Aquira client stands for, NoLead: not born yet
    named,     \* clients that carry the lead's name or domain
    link,      \* aquira_id of the leads
    made,      \* clients a sync made a HubSpot company of its own for
    approved,  \* leads with "Create in Aquira as..." set
    row,       \* status of the lead's dead-letter row of entity type client
    rowAid,    \* its aquira_id
    pc,        \* where the sync is
    toLink,    \* planned: clients whose lead gets their id
    toMake,    \* planned: clients to make a company for
    toCreate,  \* planned: leads to create a client for
    cur,       \* the lead being created
    got,       \* the id create_client returned
    wrote,     \* leads created in this sync
    bySync,    \* history: clients a sync created
    rearmed,   \* history: how often the lead's row was marked resolved
    blind,     \* history: clients planned a company from a pull that did not
               \* list their unlinked lead
    faulted    \* history: what went wrong

world == <<origin, named, link, made, approved>>
rows  == <<row, rowAid>>
plan  == <<toLink, toMake, toCreate>>
item  == <<cur, got>>
history == <<bySync, rearmed, blind>>
vars == <<world, rows, pc, plan, item, wrote, history, faulted>>

Born == {a \in Client : origin[a] # NoLead}
ClientsOf(h) == {a \in Born : origin[a] = h}
Unlinked == {h \in Leads : link[h] = NoClient}
\* Clients whose id is on some HubSpot company.
Held == {link[h] : h \in Leads} \cup made
Pending(h) == row[h] \in {"open", "frozen"}

Fault(kind) ==
    /\ kind \in FaultKinds \ faulted
    /\ Cardinality(faulted) < MaxFaults
    /\ faulted' = faulted \cup {kind}

Init ==
    /\ origin = [a \in Client |-> NoLead]
    /\ named = {}
    /\ link = [h \in Leads |-> NoClient]
    /\ made = {}
    /\ approved = {}
    /\ row = [h \in Leads |-> "none"]
    /\ rowAid = [h \in Leads |-> NoClient]
    /\ pc = "idle"
    /\ toLink = {} /\ toMake = {} /\ toCreate = {}
    /\ cur = NoLead /\ got = NoClient
    /\ wrote = {}
    /\ bySync = {}
    /\ rearmed = [h \in Leads |-> 0]
    /\ blind = {}
    /\ faulted = {}

-----------------------------------------------------------------------------
(* Humans.                                                                 *)

\* Slip: a rearmed lead's history stays a gate.
GatedForEver(h) == row[h] # "none" /\ rowAid[h] = NoClient

\* open_client_create_failures: an unresolved row that never learned an id.
Gated(h) == Pending(h) /\ rowAid[h] = NoClient

\* Aquira staff enter the client of a lead that has none, recognisable or not.
StaffEnters(h, a) ==
    /\ ClientsOf(h) = {}
    /\ a \notin Born
    /\ \A b \in 1..(a - 1) : b \in Born
    /\ origin' = [origin EXCEPT ![a] = h]
    /\ named' \in {named, named \cup {a}}
    /\ UNCHANGED <<link, made, approved, rows, pc, plan, item, wrote, history, faulted>>

Approve(h) ==
    /\ h \notin approved
    /\ approved' = approved \cup {h}
    /\ UNCHANGED <<origin, named, link, made, rows, pc, plan, item, wrote, history, faulted>>

\* An operator confirms a suggestion: sets the lead's aquira_id, a unique
\* property.
LinkByHand(h, a) ==
    /\ h \in Unlinked
    /\ a \in ClientsOf(h) \ Held
    /\ link' = [link EXCEPT ![h] = a]
    /\ UNCHANGED <<origin, named, made, approved, rows, pc, plan, item, wrote, history, faulted>>

\* The operator marks the row Resolved, which arms the lead again.
Rearm(h) ==
    /\ Pending(h)
    /\ rearmed[h] < MaxRearms
    /\ row' = [row EXCEPT ![h] = "resolved"]
    /\ rowAid' = [rowAid EXCEPT ![h] = NoClient]
    /\ rearmed' = [rearmed EXCEPT ![h] = @ + 1]
    /\ UNCHANGED <<world, pc, plan, item, wrote, bySync, blind, faulted>>

\* The reconciliation holds a failed create.
HoldRow(h) ==
    /\ row[h] = "open" /\ rowAid[h] = NoClient
    /\ row' = [row EXCEPT ![h] = "frozen"]
    /\ UNCHANGED <<world, rowAid, pc, plan, item, wrote, history, faulted>>

-----------------------------------------------------------------------------
(* Pull and plan.                                                          *)

\* Slip: the built-in matching is not asked.
MatchedNone(catalog, candidates) == {}

\* Recognised clients, one for each unlinked lead pulled; clients that hold a
\* company already are matched again.
Matched(catalog, candidates) ==
    {a \in catalog \cap named :
        /\ origin[a] \in candidates
        /\ \A b \in catalog \cap named : origin[b] = origin[a] => a <= b}

\* Slip: leads matched in this run are created all the same.
OfferedMatched(matched, gate) ==
    {h \in approved \cap Unlinked : "dropdown" \in Fetched /\ h \notin gate}

\* Slip: unconfirmed creations are offered again.
OfferedUngated(matched, gate) ==
    {h \in approved \cap Unlinked :
        "dropdown" \in Fetched /\ h \notin {origin[a] : a \in matched}}

\* plan_new_aquira_clients, without the leads matched in this run.
Offered(matched, gate) ==
    {h \in approved \cap Unlinked :
        /\ "dropdown" \in Fetched
        /\ h \notin {origin[a] : a \in matched}
        /\ h \notin gate}

Plan(catalog, candidates) ==
    LET matched == Matched(catalog, candidates) IN
        /\ toLink' = matched
        /\ toMake' = catalog \ (Held \cup matched)
        /\ blind' = blind \cup {a \in toMake' : origin[a] \in Unlinked \ candidates}

Candidates == IF "match" \in Fetched THEN Unlinked ELSE {}

Begin ==
    /\ pc = "idle"
    /\ pc' = "companies"
    /\ UNCHANGED <<world, rows, item, wrote, bySync, rearmed>>

\* Each read may fail and the sync goes on with nothing in its place: no
\* Aquira clients, no HubSpot company, no gate.
StartSync ==
    /\ Begin
    /\ LET gate == {h \in Leads : Gated(h)} IN
        \/ /\ Plan(Born, Candidates)
           /\ toCreate' = Offered(Matched(Born, Candidates), gate)
           /\ UNCHANGED faulted
        \/ /\ Fault("catalog")
           /\ Plan({}, Candidates)
           /\ toCreate' = Offered({}, gate)
        \/ /\ Fault("projection")
           /\ Plan(Born, {})
           /\ toCreate' = {}
        \/ /\ Fault("gate")
           /\ Plan(Born, Candidates)
           /\ toCreate' = Offered(Matched(Born, Candidates), {})

\* The reconciliation's targeted retry of a row that learned its id: the
\* catalog is that client, nothing is offered for creation.
StartRetry(h) ==
    /\ Begin
    /\ row[h] = "open" /\ rowAid[h] # NoClient
    /\ Plan({rowAid[h]}, Candidates)
    /\ toCreate' = {}
    /\ UNCHANGED faulted

-----------------------------------------------------------------------------
(* Apply: companies first, creations last.                                 *)

\* PATCH of the lead with the client's id; if another company holds that id
\* HubSpot answers 409 and upsert_crm updates that company instead.
ApplyLink(a) ==
    /\ pc = "companies"
    /\ a \in toLink
    /\ toLink' = toLink \ {a}
    /\ \/ /\ link' = IF a \in Held THEN link ELSE [link EXCEPT ![origin[a]] = a]
          /\ UNCHANGED faulted
       \/ Fault("patch") /\ UNCHANGED link
    /\ UNCHANGED <<origin, named, made, approved, rows, pc, toMake, toCreate, item,
                   wrote, history>>

\* POST of a company with the client's id, the same 409 answered the same way.
ApplyMake(a) ==
    /\ pc = "companies"
    /\ a \in toMake
    /\ toMake' = toMake \ {a}
    /\ \/ /\ made' = IF a \in Held THEN made ELSE made \cup {a}
          /\ UNCHANGED faulted
       \/ Fault("patch") /\ UNCHANGED made
    /\ UNCHANGED <<origin, named, link, approved, rows, pc, toLink, toCreate, item,
                   wrote, history>>

CompaniesDone ==
    /\ pc = "companies"
    /\ toLink = {} /\ toMake = {}
    /\ pc' = "creates"
    /\ UNCHANGED <<world, rows, plan, item, wrote, history, faulted>>

\* POST /Client/Create commits a client for lead h, with or without its name.
Commit(h, a, withName) ==
    /\ a \in Client \ Born
    /\ \A b \in 1..(a - 1) : b \in Born
    /\ origin' = [origin EXCEPT ![a] = h]
    /\ named' = IF withName THEN named \cup {a} ELSE named
    /\ bySync' = bySync \cup {a}

\* create_client's first request; try_request turns every failure, a lost
\* answer too, into None.
Post(h) ==
    /\ pc = "creates"
    /\ h \in toCreate
    /\ toCreate' = toCreate \ {h}
    /\ cur' = h
    /\ \/ \E a \in Client :
            /\ Commit(h, a, TRUE)
            /\ \/ got' = a /\ pc' = "finish" /\ UNCHANGED faulted
               \/ got' = NoClient /\ pc' = "again" /\ Fault("lost")
       \/ /\ Fault("refused")
          /\ got' = NoClient /\ pc' = "again"
          /\ UNCHANGED <<origin, named, bySync>>
    /\ UNCHANGED <<link, made, approved, rows, toLink, toMake, wrote, rearmed, blind>>

\* ... and its second, with an empty body; what refused the first may refuse it.
PostAgain ==
    /\ pc = "again"
    /\ \/ \E a \in Client :
            /\ Commit(cur, a, FALSE)
            /\ got' = a /\ pc' = "finish" /\ UNCHANGED faulted
       \/ /\ \/ Fault("refused")
             \/ "refused" \in faulted /\ UNCHANGED faulted
          /\ pc' = "failed"
          /\ UNCHANGED <<origin, named, bySync, got>>
    /\ UNCHANGED <<link, made, approved, rows, plan, cur, wrote, rearmed, blind>>

\* The name is written and the client reloaded; an error leaves the caller
\* without the id.
Finish ==
    /\ pc = "finish"
    /\ \/ /\ named' = named \cup {got}
          /\ pc' = "patch"
          /\ UNCHANGED <<got, faulted>>
       \/ /\ Fault("finish")
          /\ named' \in {named, named \cup {got}}
          /\ got' = NoClient
          /\ pc' = "failed"
    /\ UNCHANGED <<origin, link, made, approved, rows, plan, cur, wrote, history>>

NextItem == pc' = "creates" /\ cur' = NoLead /\ got' = NoClient

\* The new id goes to the lead.
Patch ==
    /\ pc = "patch"
    /\ \/ /\ link' = IF got \in Held THEN link ELSE [link EXCEPT ![cur] = got]
          /\ wrote' = wrote \cup {cur}
          /\ NextItem
          /\ UNCHANGED faulted
       \/ /\ Fault("patch")
          /\ pc' = "failed"
          /\ UNCHANGED <<link, wrote, item>>
    /\ UNCHANGED <<origin, named, made, approved, rows, plan, history>>

\* Slip: the item keeps the lead it was about.
RecordKeeping ==
    /\ pc = "failed"
    /\ pc' = "creates"
    /\ row' = [row EXCEPT ![cur] = "open"]
    /\ UNCHANGED <<world, rowAid, plan, item, wrote, history, faulted>>

\* add_dead_letter: a pending row of the lead learns the id, otherwise a new
\* row is opened; an error here is swallowed.
Record ==
    /\ pc = "failed"
    /\ NextItem
    /\ \/ /\ row' = [row EXCEPT ![cur] = IF Pending(cur) THEN @ ELSE "open"]
          /\ rowAid' = [rowAid EXCEPT ![cur] =
                            IF Pending(cur) /\ @ # NoClient THEN @ ELSE got]
          /\ UNCHANGED faulted
       \/ Fault("record") /\ UNCHANGED rows
    /\ UNCHANGED <<world, plan, wrote, history>>

\* resolve_dead_letters closes the rows of the created leads.
EndSync ==
    /\ pc = "creates"
    /\ toCreate = {}
    /\ pc' = "idle"
    /\ row' = [h \in Leads |-> IF h \in wrote /\ Pending(h) THEN "resolved" ELSE row[h]]
    /\ wrote' = {}
    /\ UNCHANGED <<world, rowAid, plan, item, history, faulted>>

\* The process dies: what it planned is gone.
Crash ==
    /\ pc # "idle"
    /\ Fault("crash")
    /\ pc' = "idle"
    /\ toLink' = {} /\ toMake' = {} /\ toCreate' = {}
    /\ cur' = NoLead /\ got' = NoClient
    /\ wrote' = {}
    /\ UNCHANGED <<world, rows, history>>

-----------------------------------------------------------------------------
Start == StartSync \/ \E h \in Leads : StartRetry(h)

Work ==
    \/ \E a \in Client : ApplyLink(a) \/ ApplyMake(a)
    \/ CompaniesDone
    \/ \E h \in Leads : Post(h)
    \/ PostAgain \/ Finish \/ Patch \/ Record \/ EndSync

Human ==
    \E h \in Leads :
        \/ Approve(h) \/ Rearm(h) \/ HoldRow(h)
        \/ \E a \in Client : StaffEnters(h, a) \/ LinkByHand(h, a)

Next == Start \/ Work \/ Human \/ Crash

Spec == Init /\ [][Next]_vars

\* Syncs keep being started, scheduled ones among them, and go on.
FairSpec == Spec /\ WF_vars(Work) /\ SF_vars(StartSync)

-----------------------------------------------------------------------------
(* Properties.                                                             *)

\* Every variable has its type; only an item being created has a lead and an
\* id.
TypeOK ==
    /\ origin \in [Client -> Leads \cup {NoLead}]
    /\ named \subseteq Client
    /\ link \in [Leads -> Client \cup {NoClient}]
    /\ made \subseteq Client
    /\ approved \subseteq Leads
    /\ row \in [Leads -> {"none", "open", "frozen", "resolved"}]
    /\ rowAid \in [Leads -> Client \cup {NoClient}]
    /\ pc \in {"idle", "companies", "creates", "again", "finish", "patch", "failed"}
    /\ toLink \subseteq Client /\ toMake \subseteq Client /\ toCreate \subseteq Leads
    /\ cur \in Leads \cup {NoLead}
    /\ got \in Client \cup {NoClient}
    /\ wrote \subseteq Leads
    /\ bySync \subseteq Client
    /\ rearmed \in [Leads -> Nat]
    /\ blind \subseteq Client
    /\ faulted \subseteq FaultKinds
    /\ (cur = NoLead) = (pc \in {"idle", "companies", "creates"})
    /\ pc \in {"finish", "patch"} => got # NoClient

\* No creation is under way, or planned, for a lead whose earlier creation is
\* recorded as unconfirmed: the gate, read while planning, still holds when
\* the request goes out, whatever humans and the reconciliation do meanwhile.
GateHolds ==
    "gate" \notin faulted =>
        /\ \A h \in toCreate : ~Gated(h)
        /\ pc \in {"again", "finish", "patch"} => ~Gated(cur)

\* An approval creates one Aquira client, and every Resolved one more at most.
OneClientEver ==
    \A h \in Leads : Cardinality(ClientsOf(h) \cap bySync) <= 1 + rearmed[h]

\* So it is through any one refused request, failing write or crash; not when
\* the answer of a creation, the catalog, the gate or the row recording the
\* failure is lost, nor when two faults meet.
OneClientPerApproval ==
    /\ Cardinality(faulted) <= 1
    /\ faulted \cap {"lost", "catalog", "gate", "record"} = {}
    => OneClientEver

\* Whatever the pull reads, a client beyond the first is paid for: by a
\* Resolved, or by a fault that loses an answer, the row, the gate, the write
\* of the id or the process.  A creation that fails while it is being finished
\* costs nothing, its row gates the lead, unless the lead has a row that
\* learned an id when an earlier write of one failed.
Paid ==
    faulted \cap ({"lost", "gate", "record", "patch", "crash"}
                    \cup IF "patch" \in faulted THEN {"finish"} ELSE {})

CreationsPaid ==
    \A h \in Leads :
        Cardinality(ClientsOf(h) \cap bySync) <= 1 + rearmed[h] + Cardinality(Paid)

\* The only client of a lead, recognisable by its name or domain, is never
\* given a second HubSpot company.
NoTwins == \A a \in made \cap named : \E b \in Born \ {a} : origin[b] = origin[a]

\* So it is for every client whose lead the sync's pull listed, or found linked:
\* crashes, lost answers and staff linking meanwhile make no twin of it.
NoTwinOfListed ==
    \A a \in (made \cap named) \ blind : \E b \in Born \ {a} : origin[b] = origin[a]

\* Its client has a company of its own: the lead is matched with it in every
\* sync, answered 409 and left out of creation.
Shadowed(h) == \E a \in made \cap named : origin[a] = h

\* Every approved lead gets a client in the end, or a row that says why not,
\* unless a twin already stands for it in HubSpot.
ApprovedServed ==
    \A h \in Leads : h \in approved ~> link[h] # NoClient \/ Pending(h) \/ Shadowed(h)

=============================================================================
