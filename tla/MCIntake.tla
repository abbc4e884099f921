------------------------------ MODULE MCIntake ------------------------------
(* What comes in from people and from the two systems: MatchReview,         *)
(* WebhookIntake, PlanOnly and TeamMap on small instances, one at a time as *)
(* in MCPlanning.                                                           *)
EXTENDS MatchReview, WebhookIntake, PlanOnly, TeamMap

\* Up to three facts shared by clients and companies.
FewShared ==
    {s \in [Pairs -> SUBSET Facts] : Cardinality({x \in Pairs \X Facts : x[2] \in s[x[1]]}) \in 1 .. 3}

\* No rules, and two rules in several orders and strengths.
ByName(do) == [on |-> "name", onMatch |-> do]
ByPhone(do) == [on |-> "phone", onMatch |-> do]
SomeRules ==
    {<<>>,
     <<ByName("link"), ByPhone("suggest")>>,
     <<ByPhone("suggest"), ByName("link")>>,
     <<ByPhone("link"), ByName("link")>>}

\* Every body but the nameless one is about the first record.
BodysSubject == [a |-> "r1"]

\* Two mapped labels, a rep whose owner has a team, a team with an owner.
TwoTeams == [x |-> "t1", y |-> "t2"]
RepsOwner == [r |-> "o2"]
RepsTeam == [r |-> "t2"]
TeamsOwner == [t1 |-> "o1"]

VARIABLE part

IntakeInits ==
    /\ MatchInit /\ IntakeInit /\ PlanInit /\ TeamInit
    /\ part \in {"matching", "webhooks", "switch", "teams"}

RunMatching == part = "matching" /\ MatchNext /\ UNCHANGED <<intakeVars, planVars, teamVars, part>>
RunWebhooks == part = "webhooks" /\ IntakeNext /\ UNCHANGED <<matchVars, planVars, teamVars, part>>
RunSwitch == part = "switch" /\ PlanNext /\ UNCHANGED <<matchVars, intakeVars, teamVars, part>>
RunTeams == part = "teams" /\ TeamNext /\ UNCHANGED <<matchVars, intakeVars, planVars, part>>

AllNext == RunMatching \/ RunWebhooks \/ RunSwitch \/ RunTeams
allVars == <<matchVars, intakeVars, planVars, teamVars, part>>

\* IntakeFairness and PlanFairness, where those run: of the steps of a line one
\* at most is possible, and stays so until it is taken.
AllFairness ==
    /\ WF_intakeVars(part = "webhooks" /\ (Work \/ Poll))
    /\ WF_planVars(part = "switch" /\ (GoOn \/ QueuePoll))
    /\ WF_planVars(part = "switch" /\ Store)
    /\ WF_planVars(part = "switch" /\ (OverlayReconcile \/ QueueReconcile))

AllSpec == IntakeInits /\ [][AllNext]_allVars /\ AllFairness

AllTypeOK == MatchTypeOK /\ IntakeTypeOK /\ PlanTypeOK /\ TeamTypeOK
=============================================================================
