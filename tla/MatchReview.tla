---------------------------- MODULE MatchReview ----------------------------
(***************************************************************************)
(* Matching Aquira clients with HubSpot companies and the review of what a *)
(* machine does not decide (src/app/mapping/matching.py, build_plan and    *)
(* _record_suggestions of src/app/sync/orchestrator.py, the rules,         *)
(* suggestions and exclusions of src/app/db/repo.py, /ui/matches).         *)
(*                                                                         *)
(* A sync pulls the companies, reads rules and exclusions, decides on all  *)
(* clients at once, links them item by item and records what is left to    *)
(* humans, who decide between any two of these steps.  The companies are   *)
(* those the pull lists with their match fields (ClientLinks says which    *)
(* it lists).  Contacts go the same way by rules alone.                    *)
(***************************************************************************)
EXTENDS Integers, FiniteSets, Sequences, SequencesExt

CONSTANTS
    NClients, NCompanies,  \* bound; catalog and listing are in this order
    Likenesses,            \* what clients and companies may share
    RuleLists,             \* orders of the rules an admin may set up
    MaxDecisions,          \* bound: what humans do after the set-up
    MaxMatchFaults         \* bound: failed reads and crashes

Clients == 1 .. NClients
Companies == 1 .. NCompanies
NoId == 0
Pairs == Clients \X Companies

\* What a client and a company may share: the normalised name or domain,
\* which links, and the phone number, which suggests.
Facts == {"name", "phone"}
Rule == [on : Facts, onMatch : {"link", "suggest"}]

ASSUME MatchAssumption ==
    /\ NClients \in Nat /\ NCompanies \in Nat
    /\ Likenesses \subseteq [Pairs -> SUBSET Facts]
    /\ RuleLists \subseteq Seq(Rule)
    /\ MaxDecisions \in Nat /\ MaxMatchFaults \in Nat

VARIABLES
    shared,      \* what each pair shares
    ids,         \* aquira_id of the companies, a unique property
    rules,       \* the enabled rules in priority order
    banned,      \* MatchExclusion rows
    verdict,     \* status of the MatchSuggestion rows
    halfway,     \* the pair whose dismissal wrote the exclusion only
    review,      \* what the sync does next
    listed,      \* ids of the companies it pulled
    readRules, readBanned,
    toLink, toSuggest, \* what it decided
    late,        \* history: pairs dismissed that it did not know of
    decisions, matchFaults

people == <<rules, banned, verdict, halfway>>
read == <<listed, readRules, readBanned>>
decided == <<toLink, toSuggest>>
matchVars == <<shared, ids, people, review, read, decided, late, decisions, matchFaults>>

MatchInit ==
    /\ shared = [p \in Pairs |-> {}]
    /\ ids = [h \in Companies |-> NoId]
    /\ rules = <<>> /\ banned = {} /\ halfway = <<>>
    /\ verdict = [p \in Pairs |-> "none"]
    /\ review = "setup"
    /\ listed = <<>> /\ readRules = <<>> /\ readBanned = {}
    /\ toLink = {} /\ toSuggest = {}
    /\ late = {} /\ decisions = 0 /\ matchFaults = 0

\* Records and rules as they may have come to be.
SetUp ==
    /\ review = "setup"
    /\ shared' \in Likenesses /\ rules' \in RuleLists
    /\ review' = "idle"
    /\ UNCHANGED <<ids, banned, verdict, halfway, read, decided, late, decisions, matchFaults>>

EndMatch ==
    /\ review' = "idle"
    /\ listed' = <<>> /\ readRules' = <<>> /\ readBanned' = {}
    /\ toLink' = {} /\ toSuggest' = {} /\ late' = {}

MatchFault == matchFaults < MaxMatchFaults /\ matchFaults' = matchFaults + 1

\* HubSpot accepts an aquira_id no other company carries.
Accepts(h, c) == \A other \in Companies \ {h} : ids[other] # c

-----------------------------------------------------------------------------
(* Humans, on /ui/matches, /ui/matching and in HubSpot.                    *)

Decide ==
    /\ review # "setup" /\ halfway = <<>>
    /\ decisions < MaxDecisions /\ decisions' = decisions + 1
    /\ UNCHANGED <<shared, review, read, decided, matchFaults>>

\* The status is "linked" also when HubSpot answers that another company has
\* the id, which upsert_crm then writes to that company again.
LinkPair(c, h) ==
    /\ verdict[<<c, h>>] = "pending"
    /\ ids' = IF Accepts(h, c) THEN [ids EXCEPT ![h] = c] ELSE ids
    /\ verdict' = [verdict EXCEPT ![<<c, h>>] = "linked"]
    /\ UNCHANGED <<rules, banned, halfway, late>>
    /\ Decide

\* A rep enters or clears the property in HubSpot.
RepSetsId(h, c) ==
    /\ ids[h] # c /\ (c = NoId \/ Accepts(h, c))
    /\ ids' = [ids EXCEPT ![h] = c]
    /\ UNCHANGED <<people, late>>
    /\ Decide

\* "Not a duplicate": the exclusion is committed first, the status next.
Dismiss(c, h) ==
    /\ verdict[<<c, h>>] = "pending"
    /\ banned' = banned \cup {<<c, h>>}
    /\ late' = late \cup ({<<c, h>>} \ readBanned)
    /\ halfway' = <<c, h>>
    /\ UNCHANGED <<ids, rules, verdict>>
    /\ Decide

FinishDismissal ==
    /\ halfway # <<>>
    /\ verdict' = [verdict EXCEPT ![halfway] = "dismissed"]
    /\ halfway' = <<>>
    /\ UNCHANGED <<shared, ids, rules, banned, review, read, decided, late, decisions, matchFaults>>

\* The request ends after the exclusion.
LoseDismissal ==
    /\ halfway # <<>> /\ halfway' = <<>>
    /\ MatchFault
    /\ UNCHANGED <<shared, ids, rules, banned, verdict, review, read, decided, late, decisions>>

\* An admin takes the exclusion back; the suggestion keeps its status.
RemoveExclusion(c, h) ==
    /\ <<c, h>> \in banned
    /\ banned' = banned \ {<<c, h>>}
    /\ late' = late \ {<<c, h>>}
    /\ UNCHANGED <<ids, rules, verdict, halfway>>
    /\ Decide

\* move_match_rule, update_match_rule, delete_match_rule.
EditRules(list) ==
    /\ list # rules /\ rules' = list
    /\ UNCHANGED <<ids, banned, verdict, halfway, late>>
    /\ Decide

-----------------------------------------------------------------------------
(* A sync reads.                                                           *)

\* A failed pull lists nothing.
PullCompanies ==
    /\ review = "idle"
    /\ \/ listed' = ids /\ UNCHANGED matchFaults
       \/ listed' = <<>> /\ MatchFault
    /\ review' = "rules"
    /\ UNCHANGED <<shared, ids, people, readRules, readBanned, decided, late, decisions>>

\* A failed read of the rules, or of the exclusions, counts as none.
ReadRules ==
    /\ review = "rules"
    /\ \/ readRules' = rules /\ readBanned' = banned /\ late' = {} /\ UNCHANGED matchFaults
       \/ readRules' = <<>> /\ readBanned' = banned /\ late' = {} /\ MatchFault
       \/ readRules' = rules /\ readBanned' = {} /\ late' = banned /\ MatchFault
    /\ review' = "decide"
    /\ UNCHANGED <<shared, ids, people, listed, decided, decisions>>

-----------------------------------------------------------------------------
(* It decides.                                                             *)

\* Slip: every company is a candidate.
CandidatesAll == DOMAIN listed

\* Companies without an aquira_id when pulled.
Candidates == {h \in DOMAIN listed : listed[h] = NoId}

Outcome == [links : SUBSET Pairs, suggests : SUBSET Pairs]
Nothing == [links |-> {}, suggests |-> {}]
Linked(out) == {p[1] : p \in out.links}
Claimed(out) == {p[2] : p \in out.links}
Resolved(out) == Linked(out) \cup {p[1] : p \in out.suggests}

\* Companies a rule may give to a client.
OpenTo(c, rule, out) ==
    {h \in Candidates \ Claimed(out) : <<c, h>> \notin readBanned /\ rule.on \in shared[<<c, h>>]}

First(S) == CHOOSE h \in S : \A g \in S : h <= g

\* One rule on one client: the first company it hits settles the client.
TryRule(out, rule, c) ==
    LET open == OpenTo(c, rule, out)
    IN  IF c \in Resolved(out) \/ open = {} THEN out
        ELSE IF rule.onMatch = "link" THEN [out EXCEPT !.links = @ \cup {<<c, First(open)>>}]
        ELSE [out EXCEPT !.suggests = @ \cup {<<c, First(open)>>}]

ClientOrder == [c \in 1 .. NClients |-> c]

\* Slip: client by client instead of rule by rule.
ByRulesPerClient ==
    LET client(out, c) == FoldLeft(LAMBDA o, rule : TryRule(o, rule, c), out, readRules)
    IN  FoldLeft(client, Nothing, ClientOrder)

\* apply_match_rules.
ByRules ==
    LET rule(out, r) == FoldLeft(LAMBDA o, c : TryRule(o, r, c), out, ClientOrder)
    IN  FoldLeft(rule, Nothing, readRules)

Score(p) ==
    CASE shared[p] = Facts     -> 85
      [] shared[p] = {"name"}  -> 80
      [] shared[p] = {"phone"} -> 55
      [] OTHER                 -> 0

Better(p, q) ==
    \/ Score(p) > Score(q)
    \/ Score(p) = Score(q) /\ (p[1] < q[1] \/ (p[1] = q[1] /\ p[2] < q[2]))

Worst(S) == CHOOSE p \in S : \A q \in S \ {p} : Better(q, p)

\* One pair, best score first: a settled client keeps its link, a contested
\* or weak pair is for humans.
TryPair(out, p) ==
    CASE p[1] \in Linked(out) -> out
      [] p[1] \notin Linked(out) /\ (p[2] \in Claimed(out) \/ Score(p) < 80) ->
            [out EXCEPT !.suggests = @ \cup {p}]
      [] OTHER -> [out EXCEPT !.links = @ \cup {p}]

Unbanned(out) ==
    [links |-> out.links \ readBanned, suggests |-> out.suggests \ readBanned]

\* match_clients; the exclusions are applied to its result.
ByScore ==
    LET worth == {p \in Clients \X Candidates : Score(p) >= 55}
    IN  Unbanned(MapThenFoldSet(LAMBDA p, out : TryPair(out, p), Nothing, LAMBDA p : p, Worst, worth))

Decision == IF readRules # <<>> THEN ByRules ELSE ByScore

Match ==
    /\ review = "decide"
    /\ toLink' = Decision.links /\ toSuggest' = Decision.suggests
    /\ review' = "apply"
    /\ UNCHANGED <<shared, ids, people, read, late, decisions, matchFaults>>

-----------------------------------------------------------------------------
(* It links and records.                                                   *)

\* The company item of a matched client; HubSpot rejects an id in use.
ApplyLink(c, h) ==
    /\ review = "apply" /\ <<c, h>> \in toLink
    /\ ids' = IF Accepts(h, c) THEN [ids EXCEPT ![h] = c] ELSE ids
    /\ toLink' = toLink \ {<<c, h>>}
    /\ UNCHANGED <<shared, people, review, read, toSuggest, late, decisions, matchFaults>>

\* record_match_suggestion: silence where a human has decided.
Recorded(p) == IF p \in toSuggest /\ verdict[p] = "none" THEN "pending" ELSE verdict[p]

\* resolve_suggestions_for_links: what is pending for a client that the pull
\* saw linked is settled.
Settled(p) ==
    IF Recorded(p) = "pending" /\ (\E h \in DOMAIN listed : listed[h] = p[1])
    THEN "linked" ELSE Recorded(p)

RecordSuggestions ==
    /\ review = "apply" /\ toLink = {}
    /\ verdict' = [p \in Pairs |-> Settled(p)]
    /\ EndMatch
    /\ UNCHANGED <<shared, ids, rules, banned, halfway, decisions, matchFaults>>

MatchCrash ==
    /\ review \in {"rules", "decide", "apply"}
    /\ EndMatch /\ MatchFault
    /\ UNCHANGED <<shared, ids, people, decisions>>

MatchNext ==
    \/ SetUp
    \/ \E c \in Clients, h \in Companies : LinkPair(c, h) \/ Dismiss(c, h) \/ RemoveExclusion(c, h)
    \/ \E c \in Clients \cup {NoId}, h \in Companies : RepSetsId(h, c)
    \/ FinishDismissal \/ LoseDismissal
    \/ \E list \in RuleLists : EditRules(list)
    \/ PullCompanies \/ ReadRules \/ Match
    \/ \E p \in toLink : ApplyLink(p[1], p[2])
    \/ RecordSuggestions
    \/ MatchCrash

MatchSpec == MatchInit /\ [][MatchNext]_matchVars

-----------------------------------------------------------------------------

MatchTypeOK ==
    /\ shared \in [Pairs -> SUBSET Facts]
    /\ ids \in [Companies -> Clients \cup {NoId}]
    /\ rules \in RuleLists \cup {<<>>} /\ readRules \in RuleLists \cup {<<>>}
    /\ banned \subseteq Pairs /\ readBanned \subseteq Pairs /\ late \subseteq Pairs
    /\ verdict \in [Pairs -> {"none", "pending", "dismissed", "linked"}]
    /\ halfway \in Pairs \cup {<<>>}
    /\ review \in {"setup", "idle", "rules", "decide", "apply"}
    /\ listed = <<>> \/ listed \in [Companies -> Clients \cup {NoId}]
    /\ toLink \subseteq Pairs /\ toSuggest \subseteq Pairs
    /\ decisions \in 0 .. MaxDecisions /\ matchFaults \in 0 .. MaxMatchFaults

\* A sync links a company only to the one client it gave it to, never takes
\* a company that had a client when it was listed, and never links a pair that
\* a human declared "not a duplicate" before it read the exclusions, by rules
\* or by score, unless that read failed.
SyncRespectsPeople ==
    [][review = "apply" /\ toLink' # toLink =>
        /\ \A h \in Companies : ids'[h] # ids[h] =>
            /\ listed[h] = NoId
            /\ \A p, q \in toLink : p[2] = q[2] => p = q
        /\ \A p \in toLink \ toLink' : p \in banned => p \in late]_matchVars

\* The position of the rule that hit a pair, past the end when none did.
RuleOf(p) ==
    LET hits == {k \in DOMAIN readRules : readRules[k].on \in shared[p]}
    IN  IF hits = {} THEN Len(readRules) + 1 ELSE CHOOSE k \in hits : \A j \in hits : k <= j

\* "The FIRST rule that matches an Aquira entity decides" (matching.py): when
\* a client is settled by a later rule, or not at all, every company an
\* earlier rule would have given it was ruled out by a human, or went to a
\* client by a rule as early.
FirstRuleDecides ==
    review = "decide" /\ readRules # <<>> =>
        LET out == Decision IN
        \A c \in Clients, h \in Candidates :
            LET p == <<c, h>>
                settled == {q \in out.links \cup out.suggests : q[1] = c}
                mine == IF settled = {} THEN Len(readRules) + 1
                        ELSE CHOOSE k \in {RuleOf(q) : q \in settled} : TRUE
            IN  RuleOf(p) < mine =>
                    \/ p \in readBanned
                    \/ \E q \in out.links : q[2] = h /\ q[1] # c /\ RuleOf(q) <= RuleOf(p)

\* What the head comment of matching.py promises, and the rules do not do: the
\* loser of a contested company falls to suggestions.
LoserSuggested ==
    review = "decide" =>
        LET out == Decision IN
        \A c \in Clients \ Linked(out), h \in Claimed(out) :
            "name" \in shared[<<c, h>>] /\ <<c, h>> \notin readBanned =>
                \E q \in out.suggests : q[1] = c

\* A client that has its company is not planned on another one; the code asks
\* only whether the company is free.
OneCompanyPerClient ==
    \A p \in toLink : \A h \in DOMAIN listed : listed[h] # p[1]
=============================================================================
