------------------------------ MODULE TeamMap ------------------------------
(***************************************************************************)
(* Teams and owners of the records of one sync: apply_team_ids of          *)
(* src/app/mapping/teams.py, fed by the admin's maps (_owner_map,          *)
(* _team_map and their kin in src/app/sync/orchestrator.py).               *)
(*                                                                         *)
(* A catalog is a set of facts about its records.  The pass goes over the  *)
(* clients, the contracts, then the contacts, first for teams and then for *)
(* owners, and a record takes from another what that one has by then.      *)
(* Records may name a client the catalog does not hold.                    *)
(***************************************************************************)
EXTENDS Integers, FiniteSets, Sequences, SequencesExt

CONSTANTS
    ClientCount, ContractCount, \* bounds: records; contacts are one
    Labels,                     \* attributes and sales teams
    Reps,                       \* sales representatives
    TeamOf,                     \* team an admin mapped each label to
    OwnerOf,                    \* owner an admin mapped each rep to
    PrimaryTeam,                \* team HubSpot has for the owner of each rep
    TeamOwner,                  \* owner an admin gave each team
    Nil,                        \* no team, owner or record
    MaxFacts                    \* bound: facts of a catalog

ASSUME TeamAssumption ==
    /\ ClientCount \in Nat /\ ContractCount \in Nat /\ MaxFacts \in Nat
    /\ DOMAIN TeamOf = Labels /\ DOMAIN OwnerOf = Reps /\ DOMAIN PrimaryTeam = Reps

Kind(kind, n) == {<<kind, i>> : i \in 1 .. n}
Accounts == Kind("client", ClientCount)
Deals == Kind("contract", ContractCount)
Persons == Kind("contact", 1)
Records == Accounts \cup Deals \cup Persons

ASSUME NilAssumption == Nil \notin Records

\* A client that is named and not in the catalog.
Elsewhere == <<"client", 0>>
Named == Accounts \cup {Elsewhere}

\* says is the HubSpot Team attribute, called the name of an advertiser, sold a
\* product, airs a station.
CatalogFacts == ({"account"} \X Accounts \X Named)
    \cup ({"advertiser", "agency"} \X Deals \X Named)
    \cup ({"worksFor"} \X Persons \X Named)
    \cup ({"says"} \X Records \X Labels)
    \cup ({"salesTeam"} \X (Accounts \cup Deals) \X Labels)
    \cup ({"called"} \X Accounts \X Labels)
    \cup ({"sold", "airs"} \X Deals \X Labels)
    \cup ({"rep"} \X Records \X Reps)

VARIABLES
    facts,   \* the catalog
    phase,   \* "enter" or "assigned"
    team,    \* hubspot_team_id of the records
    owner    \* hubspot_owner_id

teamVars == <<facts, phase, team, owner>>
NoneYet == [r \in Records |-> Nil]

TeamInit == facts = {} /\ phase = "enter" /\ team = NoneYet /\ owner = NoneYet

\* Aquira's users enter records as they like; a record has many sales
\* teams, products and stations, and one of everything else.
Enter(f) ==
    /\ phase = "enter" /\ Cardinality(facts) < MaxFacts
    /\ f \notin facts
    /\ f[1] \notin {"salesTeam", "sold", "airs"} => \A g \in facts : <<g[1], g[2]>> # <<f[1], f[2]>>
    /\ facts' = facts \cup {f}
    /\ UNCHANGED <<phase, team, owner>>

-----------------------------------------------------------------------------

All(kind, r) == {f[3] : f \in {g \in facts : g[1] = kind /\ g[2] = r}}
TheOne(S) == IF Cardinality(S) = 1 THEN CHOOSE x \in S : TRUE ELSE Nil
The(kind, r) == TheOne(All(kind, r))

\* clients_by_id.get, and the value of a client that may not be there.
Known(c) == IF c \in Accounts THEN c ELSE Nil
At(f, c) == IF c \in Accounts THEN f[c] ELSE Nil

FirstKnown(options) ==
    LET known == {i \in DOMAIN options : options[i] # Nil}
    IN  IF known = {} THEN Nil ELSE options[CHOOSE i \in known : \A j \in known : i <= j]

OwnTeam(r) == IF The("says", r) = Nil THEN Nil ELSE TeamOf[The("says", r)]
\* unique_mapped: labels that map to several teams decide nothing.
UniqueTeam(kind, r) == TheOne({TeamOf[l] : l \in All(kind, r)} \ {Nil})
RepTeam(r) == IF The("rep", r) = Nil THEN Nil ELSE PrimaryTeam[The("rep", r)]
RepOwner(r) == IF The("rep", r) = Nil THEN Nil ELSE OwnerOf[The("rep", r)]

IsRoot(c) == The("account", c) \in {Nil, c}

\* parent_first: those that name no account above them, then the others, by
\* their ids.
ParentFirst(c, d) ==
    \/ IsRoot(c) /\ ~IsRoot(d)
    \/ (IsRoot(c) <=> IsRoot(d)) /\ c[2] < d[2]

\* Slip: the clients in the order of their ids alone.
LatestById(S) == CHOOSE c \in S : \A d \in S \ {c} : d[2] < c[2]

Latest(S) == CHOOSE c \in S : \A d \in S \ {c} : ParentFirst(d, c)

\* Contracts of a client.
Related(c) ==
    {k \in Deals : c # Nil /\ c \in {The("advertiser", k), The("agency", k)}}

\* The clients get their value in turn; what one takes is what another got.
ClientTeam(c, g) ==
    LET above == The("account", c)
    IN  [g EXCEPT ![c] =
            FirstKnown(<<OwnTeam(c), IF above = c THEN Nil ELSE At(g, above),
                         UniqueTeam("salesTeam", c), UniqueTeam("called", c), RepTeam(c)>>)]

\* Contracts take theirs from clients, contacts from both.
ContractTeam(k, g) ==
    FirstKnown(<<OwnTeam(k), At(g, The("advertiser", k)), At(g, The("agency", k)),
                 UniqueTeam("salesTeam", k), UniqueTeam("sold", k), UniqueTeam("airs", k), RepTeam(k)>>)

ContactTeam(p, g) ==
    LET c == The("worksFor", p)
    IN  FirstKnown(<<OwnTeam(p), At(g, c), TheOne({g[k] : k \in Related(c)} \ {Nil})>>)

\* Records whose value does not wait for another of theirs.
Fill(g, new) == [r \in Records |-> IF r \in DOMAIN new THEN new[r] ELSE g[r]]

ClientTeams == MapThenFoldSet(ClientTeam, NoneYet, LAMBDA c : c, Latest, Accounts)
DealTeams(g) == Fill(g, [k \in Deals |-> ContractTeam(k, g)])
PersonTeams(g) == Fill(g, [p \in Persons |-> ContactTeam(p, g)])

Teams == PersonTeams(DealTeams(ClientTeams))

TheTeamsOwner(t) == IF t \in DOMAIN TeamOwner THEN TeamOwner[t] ELSE Nil

\* A record's owner: its rep's, its parent's, its team's.
OwnerFrom(g, r, parent, t) == FirstKnown(<<RepOwner(r), At(g, parent), TheTeamsOwner(t)>>)

ClientOwners(teams) ==
    LET client(c, g) ==
            [g EXCEPT ![c] = OwnerFrom(g, c, IF IsRoot(c) THEN Nil ELSE The("account", c), teams[c])]
    IN  MapThenFoldSet(client, NoneYet, LAMBDA c : c, Latest, Accounts)

DealOwners(g, teams) ==
    Fill(g, [k \in Deals |->
        OwnerFrom(g, k, FirstKnown(<<Known(The("advertiser", k)), Known(The("agency", k))>>), teams[k])])

\* A client without an owner has that of its contracts.
Backfilled(g) ==
    Fill(g, [c \in Accounts |-> FirstKnown(<<g[c], TheOne({g[k] : k \in Related(c)} \ {Nil})>>)])

PersonOwners(g, teams) ==
    Fill(g, [p \in Persons |-> OwnerFrom(g, p, The("worksFor", p), teams[p])])

Owners(teams) == PersonOwners(Backfilled(DealOwners(ClientOwners(teams), teams)), teams)

AssignTeams ==
    /\ phase = "enter" /\ phase' = "assigned"
    /\ team' = Teams /\ owner' = Owners(team')
    /\ UNCHANGED facts

TeamNext == (\E f \in CatalogFacts : Enter(f)) \/ AssignTeams

TeamSpec == TeamInit /\ [][TeamNext]_teamVars

-----------------------------------------------------------------------------

TeamTypeOK ==
    /\ facts \subseteq CatalogFacts /\ phase \in {"enter", "assigned"}
    /\ DOMAIN team = Records /\ DOMAIN owner = Records

\* Records that facts connect.
Links == {f \in facts : f[1] \in {"account", "advertiser", "agency", "worksFor"}}
Touching(S) ==
    S \cup {f[3] : f \in {g \in Links : g[2] \in S}} \cup {f[2] : f \in {g \in Links : g[3] \in S}}
Family(r) == FoldLeft(LAMBDA S, i : Touching(S), {r}, [i \in 1 .. MaxFacts |-> i])

Gives(d, t) ==
    t \in {OwnTeam(d), RepTeam(d)}
            \cup {TeamOf[l] : l \in All("salesTeam", d) \cup All("called", d)
                             \cup All("sold", d) \cup All("airs", d)}

\* A client that says nothing of its team goes with the account above it when
\* that one has its turn first; it does so for sure when it names no account
\* itself, and goes by the ids in a family of more levels.  And no record gets
\* its team or owner from a record that nothing connects it with.
FamiliesHold ==
    phase = "assigned" =>
        /\ \A c, above \in Accounts :
              /\ above = The("account", c) /\ ParentFirst(above, c)
              /\ OwnTeam(c) = Nil /\ team[above] # Nil
              => team[c] = team[above]
        /\ \A r \in Records :
              LET family == Family(r) \cap Records IN
              /\ team[r] # Nil => \E d \in family : Gives(d, team[r])
              /\ owner[r] # Nil => \E d \in family : owner[r] \in {RepOwner(d), TheTeamsOwner(team[d])}

\* What a reader of the backfill expects, and its place in the pass does not
\* give: a client that got its owner from its contracts hands it on to those
\* that have none.
OwnerReachesContracts ==
    phase = "assigned" =>
        \A k \in Deals : LET c == The("advertiser", k)
                         IN  c \in Accounts /\ owner[c] # Nil => owner[k] # Nil
=============================================================================
