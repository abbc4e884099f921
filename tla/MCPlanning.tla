----------------------------- MODULE MCPlanning -----------------------------
(* What a sync reads and plans: FieldMerge, DealLife, Revenue and           *)
(* CatalogSweep on small instances.  They share no variables and none waits *)
(* for another, so each behaviour runs the one of them that "part" names    *)
(* and keeps the others where they began: every behaviour of each is        *)
(* checked, and none of their interleavings, which would add nothing.       *)
EXTENDS FieldMerge, DealLife, Revenue, CatalogSweep

\* Months with entries or none, equal, zero, and in part.
SomeWeights == {<<-1, -1>>, <<2, 1>>, <<0, 0>>, <<-1, 3>>}

VARIABLE part

PlanningInit ==
    /\ MergeInit /\ DealInit /\ RevInit /\ SweepInit
    /\ part \in {"merge", "deals", "revenue", "sweep"}

RunMerge == part = "merge" /\ MergeNext /\ UNCHANGED <<dealVars, revVars, sweepVars, part>>
RunDeals == part = "deals" /\ DealNext /\ UNCHANGED <<mergeVars, revVars, sweepVars, part>>
RunRevenue == part = "revenue" /\ RevNext /\ UNCHANGED <<mergeVars, dealVars, sweepVars, part>>
RunSweep == part = "sweep" /\ SweepNext /\ UNCHANGED <<mergeVars, dealVars, revVars, part>>

PlanningNext == RunMerge \/ RunDeals \/ RunRevenue \/ RunSweep
planningVars == <<mergeVars, dealVars, revVars, sweepVars, part>>

\* DealFairness, where the deals run.
PlanningFairness ==
    /\ WF_dealVars(part = "deals" /\ DealSync)
    /\ SF_dealVars(part = "deals" /\ Enumerate(TRUE))

PlanningSpec == PlanningInit /\ [][PlanningNext]_planningVars /\ PlanningFairness

\* Where the deals run, a contract's deal comes to follow it.
DealsFollow == part = "deals" => DealFollows

PlanningTypeOK == MergeTypeOK /\ DealTypeOK /\ RevTypeOK /\ SweepTypeOK
=============================================================================
