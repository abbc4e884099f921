---------------------------- MODULE IntakeProofs ----------------------------
(***************************************************************************)
(* The components of MCIntake but for the webhooks, which                  *)
(* WebhookIntakeProofs is about, and that MCIntake is made of its parts:   *)
(* what is proved of a component is true of the composition the run        *)
(* checks.                                                                 *)
(*                                                                         *)
(* MatchReview: for any rules, clients, companies and facts they share. A  *)
(* sync passes over the rules, and for each over the clients. Up to any    *)
(* place of that pass a client has been tried by the rules before (Tried), *)
(* every pair stands for a rule that may decide it (Allowed), and none is  *)
(* decided twice (Single): the first rule that hits decides. What is going *)
(* to be linked is free as the sync listed it, is no pair it read as       *)
(* excluded, and is one to one; what a human excluded since is late        *)
(* (MatchFinds).                                                           *)
(*                                                                         *)
(* TeamMap: for a catalog of any size. A family is closed under the facts  *)
(* that connect records: each step that adds a record spends a fact, so as *)
(* many steps as there are facts are enough. A pass over a closed set      *)
(* gives its records only what records of that set give, at each place of  *)
(* the pass (TeamsFrom, HoldersFrom), and a client that has its turn after *)
(* the account above it finds that one's team.                             *)
(***************************************************************************)
EXTENDS MCIntake, WebhookIntakeProofs, SetInduction, TLAPS

-----------------------------------------------------------------------------
(* What a sync decides: rules.                                             *)

\* What it has read.
ReadOK ==
    /\ shared \in [Pairs -> SUBSET Facts]
    /\ readRules \in Seq(Rule) /\ readBanned \subseteq Pairs
    /\ listed = <<>> \/ listed \in [Companies -> Clients \cup {NoId}]

LEMMA ReadTyped == MatchTypeOK => ReadOK
<1> SUFFICES ASSUME MatchTypeOK PROVE ReadOK
  OBVIOUS
<1>1. readRules \in Seq(Rule)
  <2>1. readRules \in RuleLists \/ readRules = <<>>
    BY Zenon DEF MatchTypeOK
  <2>2. RuleLists \subseteq Seq(Rule)
    BY MatchAssumption
  <2>3. <<>> \in Seq(Rule)
    OBVIOUS
  <2> QED
    BY <2>1, <2>2, <2>3, Zenon
<1> QED
  BY <1>1 DEF MatchTypeOK, ReadOK

LEMMA CandidatesKnown == ReadOK => Candidates \subseteq Companies
BY DEF ReadOK, Candidates

LEMMA FirstIn ==
  ASSUME NEW S \in SUBSET Companies, S # {}
  PROVE  First(S) \in S
<1>1. S \in SUBSET Nat
  BY DEF Companies
<1>2. \E h \in S : \A g \in S : h <= g
  BY <1>1, LeastOf
<1> QED
  BY <1>2 DEF First

LEMMA TryRuleOutcome ==
  ASSUME ReadOK, NEW out \in Outcome, NEW rule \in Rule, NEW c \in Clients
  PROVE  TryRule(out, rule, c) \in Outcome
<1> DEFINE open == OpenTo(c, rule, out)
           p == <<c, First(open)>>
<1>1. CASE c \in Resolved(out) \/ open = {}
  BY <1>1 DEF TryRule
<1>2. CASE ~ (c \in Resolved(out) \/ open = {})
  <2>1. open \subseteq Companies
    BY CandidatesKnown DEF OpenTo
  <2>2. p \in Pairs
    BY <1>2, <2>1, FirstIn DEF Pairs
  <2>3. TryRule(out, rule, c) \in
          {[out EXCEPT !.links = @ \cup {p}], [out EXCEPT !.suggests = @ \cup {p}]}
    BY <1>2 DEF TryRule
  <2> HIDE DEF p
  <2> QED
    BY <2>2, <2>3 DEF Outcome
<1> QED
  BY <1>1, <1>2

\* One rule on the clients in turn.
Pass(out, r) == FoldLeft(LAMBDA o, c : TryRule(o, r, c), out, ClientOrder)

LEMMA PassSteps ==
  ASSUME ReadOK, NEW out \in Outcome, NEW r \in Rule
  PROVE  \E F \in [0 .. NClients -> Outcome] :
            /\ F[0] = out /\ F[NClients] = Pass(out, r)
            /\ \A c \in Clients : F[c] = TryRule(F[c - 1], r, c)
<1> DEFINE S == 1 .. NClients
           step == [x \in Outcome \X S |-> TryRule(x[1], r, x[2])]
           ch == [s \in (SUBSET S) \ {{}} |-> Max(s)]
           Step(h) == [s \in SUBSET S |-> IF s = {} THEN out
                          ELSE TryRule(h[s \ {Max(s)}], r, ClientOrder[Max(s)])]
           i == CHOOSE h : h = Step(h)
<1>1. NClients \in Nat /\ S = Clients /\ IsFiniteSet(S)
  BY MatchAssumption, FS_Interval DEF Clients
<1>2. step \in [Outcome \X S -> Outcome]
  BY <1>1, TryRuleOutcome
<1>3. \A o \in Outcome : \A c \in S : step[<<o, c>>] = TryRule(o, r, c)
  OBVIOUS
<1>4. Takes(ch, S) /\ \A s \in (SUBSET S) \ {{}} : ch[s] = Max(s) /\ Max(s) \in S
  BY <1>1, MaxUpTo DEF Takes
<1>5. \A c \in S : ClientOrder[c] = c
  BY DEF ClientOrder
<1> HIDE DEF step, ch, S
<1>6. PICK h \in [SUBSET S -> Outcome] : IsFold(h, S, ch, step, out)
  BY <1>1, <1>2, <1>4, FoldExists
<1>7. h = Step(h)
  <2>1. h[{}] = out
    BY <1>6 DEF IsFold
  <2>2. ASSUME NEW s \in (SUBSET S) \ {{}}
        PROVE  h[s] = TryRule(h[s \ {Max(s)}], r, ClientOrder[Max(s)])
    <3>1. h[s] = step[<<h[s \ {Max(s)}], Max(s)>>] /\ Max(s) \in S
      BY <1>4, <1>6 DEF IsFold
    <3>2. h[s \ {Max(s)}] \in Outcome
      BY <1>6
    <3> QED
      BY <1>3, <1>5, <3>1, <3>2
  <2>3. \A s \in SUBSET S : h[s] = Step(h)[s]
    BY <2>1, <2>2
  <2>4. h = [s \in SUBSET S |-> h[s]]
    BY <1>6
  <2> HIDE DEF Step
  <2>5. Step(h) = [s \in SUBSET S |-> Step(h)[s]]
    BY DEF Step
  <2> QED
    BY <2>3, <2>4, <2>5
<1>8. i = Step(i)
  <2> HIDE DEF Step
  <2> QED
    BY <1>7
<1>9. Pass(out, r) = i[S]
  <2>1. DOMAIN ClientOrder = S
    BY DEF ClientOrder, S
  <2> QED
    BY <2>1 DEF Pass, FoldLeft, MapThenFoldSet
<1> HIDE DEF i
<1>10. i[{}] = out
  BY <1>8
<1>11. InTurn(i, NClients, step, Outcome)
  <2>1. ASSUME NEW s \in (SUBSET S) \ {{}}, i[s \ {Max(s)}] \in Outcome
        PROVE  i[s] = step[<<i[s \ {Max(s)}], Max(s)>>]
    <3> DEFINE o == i[s \ {Max(s)}]
               m == Max(s)
    <3>1. i[s] = TryRule(o, r, ClientOrder[m])
      BY <1>8
    <3>2. m \in S
      BY <1>4
    <3>3. o \in Outcome
      BY <2>1
    <3> HIDE DEF o, m
    <3>4. i[s] = step[<<o, m>>]
      BY <1>3, <1>5, <3>1, <3>2, <3>3
    <3> QED
      BY <3>4 DEF o, m
  <2> QED
    BY <2>1 DEF InTurn, S
<1>a. step \in [Outcome \X (1 .. NClients) -> Outcome]
  BY <1>2 DEF S
<1>b. PICK F \in [0 .. NClients -> Outcome] : Runs(F, NClients, step, out, i[1 .. NClients])
  <2>1. NClients \in Nat /\ out \in Outcome
    BY <1>1
  <2> HIDE DEF i
  <2> QED
    BY <2>1, <1>a, <1>10, <1>11, FoldSteps
<1>12. ASSUME NEW c \in Clients PROVE F[c] = TryRule(F[c - 1], r, c)
  <2>1. c \in S /\ c - 1 \in 0 .. NClients
    BY <1>1 DEF S
  <2>2. F[c - 1] \in Outcome
    BY <1>b, <2>1
  <2>3. F[c] = step[<<F[c - 1], c>>]
    BY <1>b, <2>1 DEF S, Runs
  <2> QED
    BY <1>3, <2>1, <2>2, <2>3
<1>13. F[NClients] = Pass(out, r)
  BY <1>9, <1>b DEF S, Runs
<1> QED
  BY <1>b, <1>12, <1>13 DEF Runs

LEMMA PassOutcome ==
  ASSUME ReadOK, NEW out \in Outcome, NEW r \in Rule
  PROVE  Pass(out, r) \in Outcome
<1>1. NClients \in 0 .. NClients
  BY MatchAssumption
<1> QED
  BY <1>1, PassSteps

\* The rules in turn.
LEMMA RuleSteps ==
  ASSUME ReadOK
  PROVE  \E F \in [0 .. Len(readRules) -> Outcome] :
            /\ F[0] = Nothing /\ F[Len(readRules)] = ByRules
            /\ \A k \in 1 .. Len(readRules) : F[k] = Pass(F[k - 1], readRules[k])
<1> DEFINE n == Len(readRules)
           S == 1 .. n
           step == [x \in Outcome \X S |-> Pass(x[1], readRules[x[2]])]
           ch == [s \in (SUBSET S) \ {{}} |-> Max(s)]
           Step(h) == [s \in SUBSET S |-> IF s = {} THEN Nothing
                          ELSE Pass(h[s \ {Max(s)}], readRules[Max(s)])]
           i == CHOOSE h : h = Step(h)
<1>1. n \in Nat /\ DOMAIN readRules = S /\ IsFiniteSet(S) /\ Nothing \in Outcome
  BY FS_Interval DEF ReadOK, Nothing, Outcome
<1>r. \A k \in S : readRules[k] \in Rule
  BY DEF ReadOK
<1>2. step \in [Outcome \X S -> Outcome]
  BY <1>r, PassOutcome
<1>3. \A o \in Outcome : \A k \in S : step[<<o, k>>] = Pass(o, readRules[k])
  OBVIOUS
<1>4. Takes(ch, S) /\ \A s \in (SUBSET S) \ {{}} : ch[s] = Max(s) /\ Max(s) \in S
  BY <1>1, MaxUpTo DEF Takes
<1> HIDE DEF step, ch, S
<1>6. PICK h \in [SUBSET S -> Outcome] : IsFold(h, S, ch, step, Nothing)
  BY <1>1, <1>2, <1>4, FoldExists
<1>7. h = Step(h)
  <2>1. h[{}] = Nothing
    BY <1>6 DEF IsFold
  <2>2. ASSUME NEW s \in (SUBSET S) \ {{}}
        PROVE  h[s] = Pass(h[s \ {Max(s)}], readRules[Max(s)])
    <3>1. h[s] = step[<<h[s \ {Max(s)}], Max(s)>>] /\ Max(s) \in S
      BY <1>4, <1>6 DEF IsFold
    <3>2. h[s \ {Max(s)}] \in Outcome
      BY <1>6
    <3> QED
      BY <1>3, <3>1, <3>2
  <2>3. \A s \in SUBSET S : h[s] = Step(h)[s]
    BY <2>1, <2>2
  <2>4. h = [s \in SUBSET S |-> h[s]]
    BY <1>6
  <2> HIDE DEF Step
  <2>5. Step(h) = [s \in SUBSET S |-> Step(h)[s]]
    BY DEF Step
  <2> QED
    BY <2>3, <2>4, <2>5
<1>8. i = Step(i)
  <2> HIDE DEF Step
  <2> QED
    BY <1>7
<1>9. ByRules = i[S]
  BY <1>1 DEF ByRules, Pass, FoldLeft, MapThenFoldSet
<1> HIDE DEF i
<1>10. i[{}] = Nothing
  BY <1>8
<1>11. InTurn(i, n, step, Outcome)
  <2>1. ASSUME NEW s \in (SUBSET S) \ {{}}, i[s \ {Max(s)}] \in Outcome
        PROVE  i[s] = step[<<i[s \ {Max(s)}], Max(s)>>]
    <3> DEFINE o == i[s \ {Max(s)}]
               m == Max(s)
    <3>1. i[s] = Pass(o, readRules[m])
      BY <1>8
    <3>2. m \in S
      BY <1>4
    <3>3. o \in Outcome
      BY <2>1
    <3> HIDE DEF o, m
    <3>4. i[s] = step[<<o, m>>]
      BY <1>3, <3>1, <3>2, <3>3
    <3> QED
      BY <3>4 DEF o, m
  <2> QED
    BY <2>1 DEF InTurn, S
<1>12. step \in [Outcome \X (1 .. n) -> Outcome]
  BY <1>2 DEF S
<1> HIDE DEF n
<1>13. PICK F \in [0 .. n -> Outcome] : Runs(F, n, step, Nothing, i[1 .. n])
  BY <1>1, <1>12, <1>10, <1>11, FoldSteps
<1>14. ASSUME NEW k \in 1 .. n PROVE F[k] = Pass(F[k - 1], readRules[k])
  <2>1. k \in S /\ k - 1 \in 0 .. n
    BY <1>1 DEF S
  <2>2. F[k - 1] \in Outcome
    BY <1>13, <2>1
  <2>3. F[k] = step[<<F[k - 1], k>>]
    BY <1>13, <2>1 DEF S, Runs
  <2> QED
    BY <1>3, <2>1, <2>2, <2>3
<1>15. F[n] = ByRules
  BY <1>9, <1>13 DEF S, Runs
<1> QED
  BY <1>13, <1>14, <1>15 DEF Runs, n

LEMMA ByRulesOutcome == ReadOK => ByRules \in Outcome
<1> SUFFICES ASSUME ReadOK PROVE ByRules \in Outcome
  OBVIOUS
<1>1. Len(readRules) \in 0 .. Len(readRules)
  BY DEF ReadOK
<1> QED
  BY <1>1, RuleSteps

-----------------------------------------------------------------------------
(* The first rule that hits decides.                                       *)

\* The rule that hit a pair is the first that hits it.
LEMMA RuleOfFirst ==
  ASSUME ReadOK, NEW p \in Pairs
  PROVE  /\ RuleOf(p) \in 1 .. (Len(readRules) + 1)
         /\ RuleOf(p) <= Len(readRules) => readRules[RuleOf(p)].on \in shared[p]
         /\ \A k \in 1 .. Len(readRules) : readRules[k].on \in shared[p] => RuleOf(p) <= k
<1> DEFINE n == Len(readRules)
           hits == {k \in DOMAIN readRules : readRules[k].on \in shared[p]}
<1>1. n \in Nat /\ DOMAIN readRules = 1 .. n
  BY DEF ReadOK
<1>2. CASE hits = {}
  <2>1. RuleOf(p) = n + 1
    BY <1>2 DEF RuleOf
  <2> QED
    BY <1>1, <1>2, <2>1
<1>3. CASE hits # {}
  <2>1. hits \in SUBSET Nat
    BY <1>1
  <2>2. RuleOf(p) = CHOOSE k \in hits : \A j \in hits : k <= j
    BY <1>3 DEF RuleOf
  <2> HIDE DEF hits
  <2>3. \E k \in hits : \A j \in hits : k <= j
    BY <1>3, <2>1, LeastOf
  <2>4. RuleOf(p) \in hits /\ \A j \in hits : RuleOf(p) <= j
    BY <2>2, <2>3
  <2> QED
    BY <1>1, <2>4 DEF hits
<1> QED
  BY <1>2, <1>3

SettledPairs(out) == out.links \cup out.suggests

\* Rules a client has been tried on, when k rules are through and the next one
\* has come as far as client j.
Passed(c, k, j) == IF c <= j THEN k + 1 ELSE k

\* What is decided may be decided, by a rule that has been tried.
Allowed(out, k, j) ==
    \A q \in SettledPairs(out) :
        /\ q \in Clients \X Candidates /\ q \notin readBanned
        /\ RuleOf(q) <= Passed(q[1], k, j)

\* A client is settled by one pair, a company linked by one pair.
Single(out) ==
    /\ \A q, r \in SettledPairs(out) : q[1] = r[1] => q = r
    /\ \A q, r \in out.links : q[2] = r[2] => q = r

\* An earlier rule than the one that settled the client gave no company that
\* was open.
Tried(out, k, j) ==
    \A c \in Clients, h \in Candidates :
        /\ RuleOf(<<c, h>>) <= Passed(c, k, j)
        /\ \A q \in SettledPairs(out) : q[1] = c => RuleOf(<<c, h>>) < RuleOf(q)
        => \/ <<c, h>> \in readBanned
           \/ \E q \in out.links : q[2] = h /\ q[1] # c /\ RuleOf(q) <= RuleOf(<<c, h>>)

InOrder(out, k, j) == Allowed(out, k, j) /\ Single(out) /\ Tried(out, k, j)

LEMMA NothingInOrder == ReadOK => InOrder(Nothing, 0, 0)
<1> SUFFICES ASSUME ReadOK PROVE InOrder(Nothing, 0, 0)
  OBVIOUS
<1>1. SettledPairs(Nothing) = {} /\ Nothing.links = {}
  BY DEF SettledPairs, Nothing
<1>2. ASSUME NEW c \in Clients, NEW h \in Candidates
      PROVE  ~ (RuleOf(<<c, h>>) <= Passed(c, 0, 0))
  <2>1. <<c, h>> \in Pairs
    BY CandidatesKnown DEF Pairs
  <2>2. RuleOf(<<c, h>>) \in 1 .. (Len(readRules) + 1)
    BY <2>1, RuleOfFirst
  <2>3. Passed(c, 0, 0) = 0
    BY MatchAssumption DEF Passed, Clients
  <2>4. Len(readRules) \in Nat
    BY DEF ReadOK
  <2> QED
    BY <2>2, <2>3, <2>4
<1> QED
  BY <1>1, <1>2 DEF InOrder, Allowed, Single, Tried

LEMMA TryInOrder ==
  ASSUME ReadOK, NEW out \in Outcome, NEW k \in 0 .. (Len(readRules) - 1),
         NEW c \in Clients, InOrder(out, k, c - 1)
  PROVE  InOrder(TryRule(out, readRules[k + 1], c), k, c)
<1> DEFINE rule == readRules[k + 1]
           open == OpenTo(c, rule, out)
           new == TryRule(out, rule, c)
           p0 == <<c, First(open)>>
<1>k. k \in Nat /\ k + 1 \in 1 .. Len(readRules) /\ Len(readRules) \in Nat
  BY DEF ReadOK
<1>c. Clients \subseteq Nat /\ c \in Nat
  BY MatchAssumption DEF Clients
<1>p. ASSUME NEW d \in Clients, NEW h \in Candidates
      PROVE  <<d, h>> \in Pairs /\ RuleOf(<<d, h>>) \in Nat
  <2>1. <<d, h>> \in Pairs
    BY CandidatesKnown DEF Pairs
  <2> QED
    BY <1>k, <2>1, RuleOfFirst
<1>q. \A q \in Clients \X Candidates : RuleOf(q) \in Nat
  <2>1. ASSUME NEW q \in Clients \X Candidates PROVE RuleOf(q) \in Nat
    <3>1. q = <<q[1], q[2]>> /\ q[1] \in Clients /\ q[2] \in Candidates
      OBVIOUS
    <3> QED
      BY <1>p, <3>1
  <2> QED
    BY <2>1
<1>o. \A h \in Candidates \ Claimed(out) :
         <<c, h>> \notin readBanned /\ rule.on \in shared[<<c, h>>] <=> h \in open
  BY DEF OpenTo
<1>s. \A d \in Clients : Passed(d, k, c) = (IF d = c THEN k + 1 ELSE Passed(d, k, c - 1))
  BY <1>c DEF Passed
<1>t. Passed(c, k, c - 1) = k /\ \A d \in Clients : Passed(d, k, c - 1) \in {k, k + 1}
  BY <1>c DEF Passed
<1>u. Resolved(out) = {q[1] : q \in SettledPairs(out)}
  BY DEF Resolved, SettledPairs, Linked
<1>v. Claimed(out) = {q[2] : q \in out.links} /\ out.links \subseteq SettledPairs(out)
  BY DEF Claimed, SettledPairs
<1>w. ASSUME NEW q \in SettledPairs(out)
      PROVE  /\ q \in Clients \X Candidates /\ q \notin readBanned /\ RuleOf(q) \in Nat
             /\ RuleOf(q) <= Passed(q[1], k, c - 1) /\ RuleOf(q) <= Passed(q[1], k, c)
             /\ RuleOf(q) <= k + 1
  <2>1. q \in Clients \X Candidates /\ q \notin readBanned /\ RuleOf(q) <= Passed(q[1], k, c - 1)
    BY DEF InOrder, Allowed
  <2>2. RuleOf(q) \in Nat /\ q[1] \in Clients
    BY <1>q, <2>1
  <2>3. Passed(q[1], k, c - 1) \in {k, k + 1} /\ Passed(q[1], k, c) \in {Passed(q[1], k, c - 1), k + 1}
    BY <1>s, <1>t, <2>2
  <2> QED
    BY <1>k, <2>1, <2>2, <2>3
<1>old. ASSUME NEW d \in Clients, NEW h \in Candidates, RuleOf(<<d, h>>) <= Passed(d, k, c - 1),
               \A q \in SettledPairs(out) : q[1] = d => RuleOf(<<d, h>>) < RuleOf(q)
        PROVE  \/ <<d, h>> \in readBanned
               \/ \E q \in out.links : q[2] = h /\ q[1] # d /\ RuleOf(q) <= RuleOf(<<d, h>>)
  BY <1>old DEF InOrder, Tried
<1> HIDE DEF open, rule
<1>1. CASE c \in Resolved(out) \/ open = {}
  <2>1. new = out
    BY <1>1 DEF TryRule, open, rule
  <2>2. Allowed(out, k, c)
    BY <1>w DEF Allowed
  <2>3. Single(out)
    BY DEF InOrder
  <2>4. ASSUME NEW d \in Clients, NEW h \in Candidates, RuleOf(<<d, h>>) <= Passed(d, k, c),
               \A q \in SettledPairs(out) : q[1] = d => RuleOf(<<d, h>>) < RuleOf(q)
        PROVE  \/ <<d, h>> \in readBanned
               \/ \E q \in out.links : q[2] = h /\ q[1] # d /\ RuleOf(q) <= RuleOf(<<d, h>>)
    <3>1. CASE RuleOf(<<d, h>>) <= Passed(d, k, c - 1)
      BY <1>old, <2>4, <3>1
    <3>2. CASE ~ (RuleOf(<<d, h>>) <= Passed(d, k, c - 1))
      <4>1. d = c
        BY <1>s, <2>4, <3>2
      <4>2. RuleOf(<<d, h>>) = k + 1
        BY <1>k, <1>p, <1>s, <1>t, <2>4, <3>2, <4>1
      <4>3. c \notin Resolved(out)
        <5>1. ASSUME NEW q \in SettledPairs(out), q[1] = c PROVE FALSE
          <6>1. RuleOf(q) <= k
            BY <1>w, <1>t, <5>1
          <6>2. RuleOf(<<d, h>>) < RuleOf(q)
            BY <2>4, <4>1, <5>1
          <6>3. RuleOf(q) \in Nat
            BY <1>w
          <6> QED
            BY <1>k, <4>2, <6>1, <6>2, <6>3
        <5> QED
          BY <1>u, <5>1
      <4>4. rule.on \in shared[<<c, h>>]
        <5>1. RuleOf(<<d, h>>) <= Len(readRules)
          BY <1>k, <4>2
        <5>2. <<d, h>> \in Pairs
          BY <1>p
        <5>3. readRules[RuleOf(<<d, h>>)].on \in shared[<<d, h>>]
          BY <5>1, <5>2, RuleOfFirst
        <5> QED
          BY <4>1, <4>2, <5>3 DEF rule
      <4>5. <<c, h>> \in readBanned \/ h \in Claimed(out)
        BY <1>1, <1>o, <4>3, <4>4
      <4>6. CASE h \in Claimed(out)
        <5>1. PICK q \in out.links : q[2] = h
          BY <1>v, <4>6
        <5>2. q \in SettledPairs(out)
          BY <1>v
        <5>3. q[1] # c
          BY <1>u, <4>3, <5>2
        <5>4. RuleOf(q) <= RuleOf(<<d, h>>)
          BY <1>w, <4>2, <5>2
        <5> QED
          BY <4>1, <5>1, <5>3, <5>4
      <4> QED
        BY <4>1, <4>5, <4>6
    <3> QED
      BY <3>1, <3>2
  <2>5. Tried(out, k, c)
    BY <2>4 DEF Tried
  <2> HIDE DEF new
  <2>6. InOrder(new, k, c)
    BY <2>1, <2>2, <2>3, <2>5 DEF InOrder
  <2> QED
    BY <2>6 DEF new, rule
<1>2. CASE ~ (c \in Resolved(out) \/ open = {})
  <2>1. open \subseteq Candidates \ Claimed(out) /\ Candidates \subseteq Companies
    BY CandidatesKnown DEF OpenTo, open
  <2>2. First(open) \in open
    BY <1>2, <2>1, FirstIn
  <2>3. p0 \in Clients \X Candidates /\ p0[1] = c /\ p0[2] = First(open)
    BY <2>1, <2>2
  <2>4. p0 \notin readBanned /\ rule.on \in shared[p0] /\ p0[2] \notin Claimed(out)
    BY <1>o, <2>1, <2>2
  <2>5. \/ new = [out EXCEPT !.links = @ \cup {p0}]
        \/ new = [out EXCEPT !.suggests = @ \cup {p0}]
    BY <1>2 DEF TryRule, open, rule
  <2>6. RuleOf(p0) \in Nat /\ RuleOf(p0) <= k + 1
    <3>1. p0 \in Pairs
      BY <1>p, <2>3
    <3>2. \A m \in 1 .. Len(readRules) : readRules[m].on \in shared[p0] => RuleOf(p0) <= m
      BY <3>1, RuleOfFirst
    <3>3. RuleOf(p0) <= k + 1
      BY <1>k, <2>4, <3>2 DEF rule
    <3> QED
      BY <1>q, <2>3, <3>3
  <2> HIDE DEF p0, new
  <2>7. /\ SettledPairs(new) = SettledPairs(out) \cup {p0}
        /\ new.links \in {out.links, out.links \cup {p0}}
    BY <2>5 DEF SettledPairs, Outcome
  <2>8. \A q \in SettledPairs(out) : q[1] # c
    BY <1>2, <1>u
  <2>9. Allowed(new, k, c)
    <3>1. RuleOf(p0) <= Passed(p0[1], k, c)
      BY <1>s, <2>3, <2>6
    <3> QED
      BY <1>w, <2>3, <2>4, <2>7, <3>1 DEF Allowed
  <2>10. Single(new)
    <3>1. \A q \in out.links : q[2] # p0[2]
      BY <1>v, <2>4
    <3>2. Single(out)
      BY DEF InOrder
    <3>3. \A q, r \in SettledPairs(new) : q[1] = r[1] => q = r
      BY <2>3, <2>7, <2>8, <3>2 DEF Single
    <3>4. \A q, r \in new.links : q[2] = r[2] => q = r
      BY <2>7, <3>1, <3>2 DEF Single
    <3> QED
      BY <3>3, <3>4 DEF Single
  <2>11. ASSUME NEW d \in Clients, NEW h \in Candidates, RuleOf(<<d, h>>) <= Passed(d, k, c),
                \A q \in SettledPairs(new) : q[1] = d => RuleOf(<<d, h>>) < RuleOf(q)
         PROVE  \/ <<d, h>> \in readBanned
                \/ \E q \in new.links : q[2] = h /\ q[1] # d /\ RuleOf(q) <= RuleOf(<<d, h>>)
    <3>1. \A q \in SettledPairs(out) : q[1] = d => RuleOf(<<d, h>>) < RuleOf(q)
      BY <2>7, <2>11
    <3>2. RuleOf(<<d, h>>) <= Passed(d, k, c - 1)
      <4>1. CASE d = c
        <5>1. RuleOf(<<d, h>>) < RuleOf(p0)
          BY <2>3, <2>7, <2>11, <4>1
        <5>2. RuleOf(<<d, h>>) \in Nat
          BY <1>p
        <5>3. RuleOf(<<d, h>>) <= k
          BY <1>k, <2>6, <5>1, <5>2
        <5> QED
          BY <1>t, <4>1, <5>3
      <4>2. CASE d # c
        BY <1>s, <2>11, <4>2
      <4> QED
        BY <4>1, <4>2
    <3>3. \/ <<d, h>> \in readBanned
          \/ \E q \in out.links : q[2] = h /\ q[1] # d /\ RuleOf(q) <= RuleOf(<<d, h>>)
      BY <1>old, <3>1, <3>2
    <3> QED
      BY <2>7, <3>3
  <2>12. InOrder(new, k, c)
    BY <2>9, <2>10, <2>11 DEF InOrder, Tried
  <2> QED
    BY <2>12 DEF new, rule
<1> QED
  BY <1>1, <1>2

LEMMA PassInOrder ==
  ASSUME ReadOK, NEW out \in Outcome, NEW k \in 0 .. (Len(readRules) - 1), InOrder(out, k, 0)
  PROVE  InOrder(Pass(out, readRules[k + 1]), k + 1, 0)
<1> DEFINE r == readRules[k + 1]
<1>k. k \in Nat /\ k + 1 \in 1 .. Len(readRules) /\ NClients \in Nat /\ Clients = 1 .. NClients
  BY MatchAssumption DEF ReadOK, Clients
<1>1. r \in Rule
  BY <1>k DEF ReadOK
<1>2. PICK F \in [0 .. NClients -> Outcome] :
        /\ F[0] = out /\ F[NClients] = Pass(out, r)
        /\ \A c \in Clients : F[c] = TryRule(F[c - 1], r, c)
  BY <1>1, PassSteps
<1> DEFINE P == {j \in Nat : j <= NClients => InOrder(F[j], k, j)}
<1>3. 0 \in P
  BY <1>2
<1>4. ASSUME NEW j \in P PROVE j + 1 \in P
  <2>1. j \in Nat /\ j + 1 \in Nat
    OBVIOUS
  <2>2. ASSUME j + 1 <= NClients PROVE InOrder(F[j + 1], k, j + 1)
    <3>1. j + 1 \in Clients /\ j + 1 - 1 = j /\ j \in 0 .. NClients /\ j <= NClients
      BY <1>k, <2>1, <2>2
    <3>2. InOrder(F[j], k, j) /\ F[j] \in Outcome
      BY <1>2, <3>1
    <3>3. F[j + 1] = TryRule(F[j], r, j + 1)
      BY <1>2, <3>1
    <3>4. InOrder(F[j], k, j + 1 - 1)
      BY <3>1, <3>2, Zenon
    <3>5. InOrder(TryRule(F[j], readRules[k + 1], j + 1), k, j + 1)
      BY <3>1, <3>2, <3>4, TryInOrder
    <3> QED
      BY <3>3, <3>5
  <2> QED
    BY <2>1, <2>2
<1>5. P = Nat
  <2> HIDE DEF P
  <2>1. P \in SUBSET Nat
    BY DEF P
  <2> QED
    BY <1>3, <1>4, <2>1, Counting
<1>6. InOrder(Pass(out, r), k, NClients)
  BY <1>2, <1>5, <1>k
<1>7. Allowed(Pass(out, r), k + 1, 0) = Allowed(Pass(out, r), k, NClients)
  <2>1. \A q \in Clients \X Candidates : Passed(q[1], k + 1, 0) = Passed(q[1], k, NClients)
    BY <1>k DEF Passed
  <2> QED
    BY <2>1 DEF Allowed
<1>8. Tried(Pass(out, r), k + 1, 0) = Tried(Pass(out, r), k, NClients)
  <2>1. \A c \in Clients : Passed(c, k + 1, 0) = Passed(c, k, NClients)
    BY <1>k DEF Passed
  <2> QED
    BY <2>1 DEF Tried
<1> QED
  BY <1>6, <1>7, <1>8 DEF InOrder

LEMMA RulesInOrder == ReadOK => InOrder(ByRules, Len(readRules), 0)
<1> SUFFICES ASSUME ReadOK PROVE InOrder(ByRules, Len(readRules), 0)
  OBVIOUS
<1> DEFINE n == Len(readRules)
<1>n. n \in Nat
  BY DEF ReadOK
<1>1. PICK F \in [0 .. n -> Outcome] :
        /\ F[0] = Nothing /\ F[n] = ByRules
        /\ \A k \in 1 .. n : F[k] = Pass(F[k - 1], readRules[k])
  BY RuleSteps
<1> DEFINE P == {k \in Nat : k <= n => InOrder(F[k], k, 0)}
<1>2. 0 \in P
  BY <1>1, NothingInOrder
<1>3. ASSUME NEW k \in P PROVE k + 1 \in P
  <2>1. k \in Nat /\ k + 1 \in Nat
    OBVIOUS
  <2>2. ASSUME k + 1 <= n PROVE InOrder(F[k + 1], k + 1, 0)
    <3>1. k + 1 \in 1 .. n /\ k + 1 - 1 = k /\ k \in 0 .. (n - 1) /\ k \in 0 .. n /\ k <= n
      BY <1>n, <2>1, <2>2
    <3>2. InOrder(F[k], k, 0) /\ F[k] \in Outcome
      BY <1>1, <3>1
    <3>3. F[k + 1] = Pass(F[k], readRules[k + 1])
      BY <1>1, <3>1
    <3>4. InOrder(Pass(F[k], readRules[k + 1]), k + 1, 0)
      BY <3>1, <3>2, PassInOrder
    <3> QED
      BY <3>3, <3>4
  <2> QED
    BY <2>1, <2>2
<1>4. P = Nat
  <2> HIDE DEF P
  <2>1. P \in SUBSET Nat
    BY DEF P
  <2> QED
    BY <1>2, <1>3, <2>1, Counting
<1> QED
  BY <1>1, <1>4, <1>n

\* What the rules decide is by the first of them.
LEMMA FirstDecides == MatchTypeOK => FirstRuleDecides
<1> SUFFICES ASSUME MatchTypeOK, review = "decide", readRules # <<>>
    PROVE  \A c \in Clients, h \in Candidates :
             LET p == <<c, h>>
                 settled == {q \in Decision.links \cup Decision.suggests : q[1] = c}
                 mine == IF settled = {} THEN Len(readRules) + 1
                         ELSE CHOOSE k \in {RuleOf(q) : q \in settled} : TRUE
             IN  RuleOf(p) < mine =>
                     \/ p \in readBanned
                     \/ \E q \in Decision.links : q[2] = h /\ q[1] # c /\ RuleOf(q) <= RuleOf(p)
  BY DEF FirstRuleDecides
<1> DEFINE n == Len(readRules)
           out == ByRules
<1>r. ReadOK
  BY ReadTyped
<1>n. n \in Nat
  BY <1>r DEF ReadOK
<1>1. Decision = out
  BY DEF Decision
<1>2. InOrder(out, n, 0)
  BY <1>r, RulesInOrder
<1> HIDE DEF out
<1> TAKE c \in Clients, h \in Candidates
<1> DEFINE p == <<c, h>>
           settled == {q \in SettledPairs(out) : q[1] = c}
           mine == IF settled = {} THEN n + 1 ELSE CHOOSE k \in {RuleOf(q) : q \in settled} : TRUE
<1>3. RuleOf(p) \in Nat
  <2>1. p \in Pairs
    BY <1>r, CandidatesKnown DEF Pairs
  <2>2. RuleOf(p) \in 1 .. (n + 1)
    BY <1>r, <2>1, RuleOfFirst
  <2> QED
    BY <1>n, <2>2
<1>c. \A d \in Clients : Passed(d, n, 0) = n
  BY MatchAssumption DEF Passed, Clients
<1>w. ASSUME NEW q \in settled PROVE mine = RuleOf(q) /\ RuleOf(q) <= n
  <2>1. settled = {q}
    BY <1>2 DEF InOrder, Single
  <2>2. mine = RuleOf(q)
    BY <2>1
  <2>3. RuleOf(q) <= Passed(q[1], n, 0) /\ q[1] \in Clients
    BY <1>2 DEF InOrder, Allowed
  <2> QED
    BY <1>c, <2>2, <2>3
<1>4. ASSUME RuleOf(p) < mine
      PROVE  p \in readBanned \/ \E q \in out.links : q[2] = h /\ q[1] # c /\ RuleOf(q) <= RuleOf(p)
  <2>1. \A q \in SettledPairs(out) : q[1] = c => RuleOf(p) < RuleOf(q)
    BY <1>4, <1>w
  <2>2. RuleOf(p) <= Passed(c, n, 0)
    <3>1. CASE settled = {}
      BY <1>3, <1>4, <1>c, <1>n, <3>1
    <3>2. CASE settled # {}
      <4>1. PICK q \in settled : TRUE
        BY <3>2
      <4>2. mine = RuleOf(q) /\ RuleOf(q) <= n
        BY <1>w
      <4>3. RuleOf(q) \in Nat
        <5>1. q \in Pairs
          BY <1>2, <1>r, CandidatesKnown DEF InOrder, Allowed, Pairs
        <5>2. RuleOf(q) \in 1 .. (n + 1)
          BY <1>r, <5>1, RuleOfFirst
        <5> QED
          BY <1>n, <5>2
      <4> HIDE DEF mine
      <4> QED
        BY <1>3, <1>4, <1>c, <1>n, <4>2, <4>3
    <3> QED
      BY <3>1, <3>2
  <2> QED
    BY <1>2, <2>1, <2>2 DEF InOrder, Tried
<1> QED
  BY <1>1, <1>4 DEF SettledPairs

-----------------------------------------------------------------------------
(* What a sync decides: scores.                                            *)

\* A machine decides on companies that were free, once each, and on none that
\* it knew a human had ruled out.
Decisions == {out \in Outcome : \A p \in SettledPairs(out) : p \in Clients \X Candidates}
Once(out) == \A p, q \in out.links : p[2] = q[2] => p = q
Sound(out) ==
    /\ out \in Decisions /\ Once(out)
    /\ \A p \in out.links : p \notin readBanned

Worth == {p \in Clients \X Candidates : Score(p) >= 55}

LEMMA ScoreIsNat == ASSUME NEW p PROVE Score(p) \in Nat
<1>1. CASE shared[p] = Facts
  BY <1>1 DEF Score, Facts
<1>2. CASE shared[p] = {"name"}
  BY <1>2 DEF Score, Facts
<1>3. CASE shared[p] = {"phone"}
  BY <1>3 DEF Score, Facts
<1>4. CASE shared[p] \notin {Facts, {"name"}, {"phone"}}
  BY <1>4 DEF Score, Facts
<1> QED
  BY <1>1, <1>2, <1>3, <1>4

LEMMA WorthKnown ==
  ASSUME ReadOK
  PROVE  Worth \subseteq Pairs /\ IsFiniteSet(Worth)
<1>1. Worth \subseteq Pairs
  BY CandidatesKnown DEF Worth, Pairs
<1>2. IsFiniteSet(Pairs)
  <2>1. IsFiniteSet(Clients) /\ IsFiniteSet(Companies)
    BY MatchAssumption, FS_Interval DEF Clients, Companies
  <2> QED
    BY <2>1, FS_Product DEF Pairs
<1> QED
  BY <1>1, <1>2, FS_Subset

\* Better orders the pairs.
LEMMA BetterOrders ==
  ASSUME NEW p \in Pairs, NEW q \in Pairs
  PROVE  /\ p # q => Better(p, q) \/ Better(q, p)
         /\ \A r \in Pairs : Better(p, q) /\ Better(q, r) => Better(p, r)
<1>1. \A r \in Pairs : Score(r) \in Nat /\ r[1] \in Nat /\ r[2] \in Nat /\ r = <<r[1], r[2]>>
  BY ScoreIsNat, MatchAssumption DEF Pairs, Clients, Companies
<1>2. ASSUME p # q PROVE Better(p, q) \/ Better(q, p)
  <2>1. p[1] # q[1] \/ p[2] # q[2]
    BY <1>1, <1>2
  <2> QED
    BY <1>1, <2>1 DEF Better
<1>3. ASSUME NEW r \in Pairs, Better(p, q), Better(q, r) PROVE Better(p, r)
  BY <1>1, <1>3 DEF Better
<1> QED
  BY <1>2, <1>3

LEMMA WorstIn ==
  ASSUME ReadOK, NEW s \in (SUBSET Worth) \ {{}}
  PROVE  Worst(s) \in s
<1> DEFINE R == {x \in Worth \X Worth : Better(x[1], x[2])}
<1>1. Orders(R, Worth) /\ IsFiniteSet(Worth)
  BY WorthKnown, BetterOrders DEF Orders
<1> HIDE DEF R
<1>2. \E p \in s : \A q \in s \ {p} : <<q, p>> \in R
  BY <1>1, LastOf
<1>3. \E p \in s : \A q \in s \ {p} : Better(q, p)
  BY <1>2 DEF R
<1> QED
  BY <1>3 DEF Worst

LEMMA TryPairDecides ==
  ASSUME ReadOK, NEW out \in Decisions, Once(out), NEW p \in Worth
  PROVE  TryPair(out, p) \in Decisions /\ Once(TryPair(out, p))
<1>1. p \in Clients \X Candidates /\ p \in Pairs
  BY WorthKnown DEF Worth
<1>2. CASE p[1] \in Linked(out)
  BY <1>2 DEF TryPair
<1>3. CASE p[1] \notin Linked(out) /\ (p[2] \in Claimed(out) \/ Score(p) < 80)
  <2>1. TryPair(out, p) = [out EXCEPT !.suggests = @ \cup {p}]
    BY <1>3 DEF TryPair
  <2> QED
    BY <1>1, <2>1 DEF Decisions, Outcome, Once, SettledPairs
<1>4. CASE p[1] \notin Linked(out) /\ ~ (p[2] \in Claimed(out) \/ Score(p) < 80)
  <2>1. TryPair(out, p) = [out EXCEPT !.links = @ \cup {p}]
    BY <1>4 DEF TryPair
  <2>2. \A q \in out.links : q[2] # p[2]
    BY <1>4 DEF Claimed
  <2> QED
    BY <1>1, <2>1, <2>2 DEF Decisions, Outcome, Once, SettledPairs
<1> QED
  BY <1>2, <1>3, <1>4

Scored == MapThenFoldSet(LAMBDA p, out : TryPair(out, p), Nothing, LAMBDA p : p, Worst, Worth)

\* The pairs in turn, as it takes them.
LEMMA ScoredDecides == ReadOK => Scored \in Decisions /\ Once(Scored)
<1> SUFFICES ASSUME ReadOK PROVE Scored \in Decisions /\ Once(Scored)
  OBVIOUS
<1> DEFINE S == Worth
           T == {out \in Decisions : Once(out)}
           step == [x \in T \X S |-> TryPair(x[1], x[2])]
           ch == [s \in (SUBSET S) \ {{}} |-> Worst(s)]
           Step(h) == [s \in SUBSET S |-> IF s = {} THEN Nothing
                          ELSE TryPair(h[s \ {Worst(s)}], Worst(s))]
           i == CHOOSE h : h = Step(h)
<1>1. IsFiniteSet(S) /\ Nothing \in T
  BY WorthKnown DEF Nothing, Decisions, Outcome, Once, SettledPairs
<1>2. step \in [T \X S -> T]
  BY TryPairDecides
<1>3. \A o \in T : \A p \in S : step[<<o, p>>] = TryPair(o, p)
  OBVIOUS
<1>4. Takes(ch, S) /\ \A s \in (SUBSET S) \ {{}} : ch[s] = Worst(s) /\ Worst(s) \in S
  BY WorstIn DEF Takes
<1>5. Scored = i[S]
  BY DEF Scored, MapThenFoldSet
<1> HIDE DEF step, ch, S, T
<1>6. PICK h \in [SUBSET S -> T] : IsFold(h, S, ch, step, Nothing)
  BY <1>1, <1>2, <1>4, FoldExists
<1>7. h = Step(h)
  <2>1. h[{}] = Nothing
    BY <1>6 DEF IsFold
  <2>2. ASSUME NEW s \in (SUBSET S) \ {{}}
        PROVE  h[s] = TryPair(h[s \ {Worst(s)}], Worst(s))
    <3>1. h[s] = step[<<h[s \ {Worst(s)}], Worst(s)>>] /\ Worst(s) \in S
      BY <1>4, <1>6 DEF IsFold
    <3>2. h[s \ {Worst(s)}] \in T
      BY <1>6
    <3> QED
      BY <1>3, <3>1, <3>2
  <2>3. \A s \in SUBSET S : h[s] = Step(h)[s]
    BY <2>1, <2>2
  <2>4. h = [s \in SUBSET S |-> h[s]]
    BY <1>6
  <2> HIDE DEF Step
  <2>5. Step(h) = [s \in SUBSET S |-> Step(h)[s]]
    BY DEF Step
  <2> QED
    BY <2>3, <2>4, <2>5
<1>8. i = Step(i)
  <2> HIDE DEF Step
  <2> QED
    BY <1>7
<1> HIDE DEF i
<1>9. i[{}] = Nothing
  BY <1>8
<1>10. Follows(i, S, ch, step, T)
  <2>1. ASSUME NEW s \in (SUBSET S) \ {{}}, i[s \ {ch[s]}] \in T
        PROVE  i[s] = step[<<i[s \ {ch[s]}], ch[s]>>]
    <3> DEFINE o == i[s \ {ch[s]}]
               p == ch[s]
    <3>1. p = Worst(s) /\ p \in S
      BY <1>4
    <3>2. i[s] = TryPair(i[s \ {Worst(s)}], Worst(s))
      BY <1>8
    <3>3. i[s] = TryPair(o, p)
      BY <3>1, <3>2
    <3>4. o \in T
      BY <2>1
    <3> HIDE DEF o, p
    <3>5. i[s] = step[<<o, p>>]
      BY <1>3, <3>1, <3>3, <3>4
    <3> QED
      BY <3>5 DEF o, p
  <2> QED
    BY <2>1 DEF Follows
<1>11. \A s \in SUBSET S : i[s] \in T
  BY <1>1, <1>2, <1>4, <1>9, <1>10, FoldIs
<1>12. Scored \in T
  BY <1>5, <1>11
<1> QED
  BY <1>12 DEF T

\* By rules or by score.
LEMMA DecisionSound == ReadOK => Sound(Decision)
<1> SUFFICES ASSUME ReadOK PROVE Sound(Decision)
  OBVIOUS
<1>1. CASE readRules # <<>>
  <2>1. Decision = ByRules
    BY <1>1 DEF Decision
  <2>2. ByRules \in Outcome /\ InOrder(ByRules, Len(readRules), 0)
    BY ByRulesOutcome, RulesInOrder
  <2> QED
    BY <2>1, <2>2 DEF InOrder, Allowed, Single, Sound, Decisions, Once, SettledPairs
<1>2. CASE readRules = <<>>
  <2>1. Decision = Unbanned(Scored)
    BY <1>2 DEF Decision, ByScore, Scored, Worth
  <2>2. Scored \in Decisions /\ Once(Scored)
    BY ScoredDecides
  <2> QED
    BY <2>1, <2>2 DEF Unbanned, Sound, Decisions, Outcome, Once, SettledPairs
<1> QED
  BY <1>1, <1>2

-----------------------------------------------------------------------------
(* MatchReview.                                                            *)

\* What the sync has decided still stands; what humans have ruled out since
\* it read the exclusions, or what it failed to read, is late.
MatchFinds ==
    /\ review = "apply" =>
        /\ \A p \in toLink : p[2] \in Candidates /\ p \notin readBanned
        /\ \A p, q \in toLink : p[2] = q[2] => p = q
    /\ review \in {"decide", "apply"} => banned \subseteq readBanned \cup late

MatchInv == MatchTypeOK /\ MatchFinds

LEMMA MatchInitInv == MatchInit => MatchInv
<1> SUFFICES ASSUME MatchInit PROVE MatchInv
  OBVIOUS
<1>1. MatchTypeOK
  BY MatchAssumption DEF MatchInit, MatchTypeOK
<1>2. MatchFinds
  BY DEF MatchInit, MatchFinds
<1> QED
  BY <1>1, <1>2 DEF MatchInv

LEMMA MatchNextInv == MatchInv /\ [MatchNext]_matchVars => MatchInv'
<1> SUFFICES ASSUME MatchInv, [MatchNext]_matchVars PROVE MatchInv'
  OBVIOUS
<1> USE DEF MatchInv
<1>a. MaxDecisions \in Nat /\ MaxMatchFaults \in Nat
      /\ Likenesses \subseteq [Pairs -> SUBSET Facts]
  BY MatchAssumption
<1>p. \A c \in Clients, h \in Companies : <<c, h>> \in Pairs
  BY DEF Pairs
<1>d. ASSUME Decide PROVE decisions' \in 0 .. MaxDecisions
  BY <1>a, <1>d DEF Decide, MatchTypeOK
<1>f. ASSUME MatchFault PROVE matchFaults' \in 0 .. MaxMatchFaults
  BY <1>a, <1>f DEF MatchFault, MatchTypeOK
<1>1. CASE SetUp
  <2>1. MatchTypeOK'
    BY <1>1, <1>a DEF SetUp, MatchTypeOK, read, decided
  <2>2. MatchFinds'
    BY <1>1 DEF SetUp, MatchFinds
  <2> QED
    BY <2>1, <2>2
<1>2. ASSUME NEW c \in Clients, NEW h \in Companies, LinkPair(c, h) PROVE MatchInv'
  <2>1. MatchTypeOK'
    BY <1>2, <1>d, <1>p DEF LinkPair, Decide, MatchTypeOK, read, decided
  <2>2. MatchFinds'
    BY <1>2 DEF LinkPair, Decide, MatchFinds, read, decided, Candidates
  <2> QED
    BY <2>1, <2>2
<1>3. ASSUME NEW c \in Clients, NEW h \in Companies, Dismiss(c, h) PROVE MatchInv'
  <2>1. MatchTypeOK'
    BY <1>3, <1>d, <1>p DEF Dismiss, Decide, MatchTypeOK, read, decided
  <2>2. MatchFinds'
    BY <1>3 DEF Dismiss, Decide, MatchFinds, read, decided, Candidates
  <2> QED
    BY <2>1, <2>2
<1>4. ASSUME NEW c \in Clients, NEW h \in Companies, RemoveExclusion(c, h) PROVE MatchInv'
  <2>1. MatchTypeOK'
    BY <1>4, <1>d DEF RemoveExclusion, Decide, MatchTypeOK, read, decided
  <2>2. MatchFinds'
    BY <1>4 DEF RemoveExclusion, Decide, MatchFinds, read, decided, Candidates
  <2> QED
    BY <2>1, <2>2
<1>5. ASSUME NEW c \in Clients \cup {NoId}, NEW h \in Companies, RepSetsId(h, c) PROVE MatchInv'
  <2>1. MatchTypeOK'
    BY <1>5, <1>d DEF RepSetsId, Decide, MatchTypeOK, people, read, decided
  <2>2. MatchFinds'
    BY <1>5 DEF RepSetsId, Decide, MatchFinds, people, read, decided, Candidates
  <2> QED
    BY <2>1, <2>2
<1>6. CASE FinishDismissal
  <2>1. MatchTypeOK'
    BY <1>6 DEF FinishDismissal, MatchTypeOK, read, decided
  <2>2. MatchFinds'
    BY <1>6 DEF FinishDismissal, MatchFinds, read, decided, Candidates
  <2> QED
    BY <2>1, <2>2
<1>7. CASE LoseDismissal
  <2>1. MatchTypeOK'
    BY <1>7, <1>f DEF LoseDismissal, MatchTypeOK, read, decided
  <2>2. MatchFinds'
    BY <1>7 DEF LoseDismissal, MatchFinds, read, decided, Candidates
  <2> QED
    BY <2>1, <2>2
<1>8. ASSUME NEW list \in RuleLists, EditRules(list) PROVE MatchInv'
  <2>1. MatchTypeOK'
    BY <1>8, <1>d DEF EditRules, Decide, MatchTypeOK, read, decided
  <2>2. MatchFinds'
    BY <1>8 DEF EditRules, Decide, MatchFinds, read, decided, Candidates
  <2> QED
    BY <2>1, <2>2
<1>9. CASE PullCompanies
  <2>1. MatchTypeOK'
    BY <1>9, <1>f DEF PullCompanies, MatchTypeOK, people, decided
  <2>2. MatchFinds'
    BY <1>9 DEF PullCompanies, MatchFinds
  <2> QED
    BY <2>1, <2>2
<1>10. CASE ReadRules
  <2>1. MatchTypeOK'
    BY <1>10, <1>f DEF ReadRules, MatchTypeOK, people, decided
  <2>2. MatchFinds'
    BY <1>10 DEF ReadRules, MatchFinds, people
  <2> QED
    BY <2>1, <2>2
<1>11. CASE Match
  <2>1. Sound(Decision)
    BY ReadTyped, DecisionSound
  <2>2. Candidates' = Candidates
    BY <1>11 DEF Match, read, Candidates
  <2> HIDE DEF Candidates, Decision
  <2>3. MatchTypeOK'
    BY <1>11, <2>1 DEF Match, Sound, Decisions, Outcome, MatchTypeOK, people, read
  <2>4. /\ \A p \in toLink' : p[2] \in Candidates /\ p \notin readBanned
        /\ \A p, q \in toLink' : p[2] = q[2] => p = q
    BY <1>11, <2>1 DEF Match, Sound, Decisions, Once, SettledPairs
  <2>5. banned' = banned /\ readBanned' = readBanned /\ late' = late
        /\ banned \subseteq readBanned \cup late
    BY <1>11 DEF Match, people, read, MatchFinds
  <2>6. MatchFinds'
    BY <2>2, <2>4, <2>5 DEF MatchFinds
  <2> QED
    BY <2>3, <2>6
<1>12. ASSUME NEW p \in toLink, ApplyLink(p[1], p[2]) PROVE MatchInv'
  <2>1. MatchTypeOK'
    <3>1. p[1] \in Clients
      BY DEF MatchTypeOK, Pairs
    <3> QED
      BY <1>12, <3>1 DEF ApplyLink, MatchTypeOK, people, read
  <2>2. MatchFinds'
    BY <1>12 DEF ApplyLink, MatchFinds, people, read, Candidates
  <2> QED
    BY <2>1, <2>2
<1>13. CASE RecordSuggestions
  <2>1. \A q \in Pairs : Settled(q) \in {"none", "pending", "dismissed", "linked"}
    BY DEF Settled, Recorded, MatchTypeOK
  <2>2. MatchTypeOK'
    BY <1>13, <2>1 DEF RecordSuggestions, EndMatch, MatchTypeOK
  <2>3. MatchFinds'
    BY <1>13 DEF RecordSuggestions, EndMatch, MatchFinds
  <2> QED
    BY <2>2, <2>3
<1>14. CASE MatchCrash
  <2>1. MatchTypeOK'
    BY <1>14, <1>f DEF MatchCrash, EndMatch, MatchTypeOK, people
  <2>2. MatchFinds'
    BY <1>14 DEF MatchCrash, EndMatch, MatchFinds
  <2> QED
    BY <2>1, <2>2
<1>15. CASE UNCHANGED matchVars
  <2>1. MatchTypeOK'
    BY <1>15 DEF matchVars, MatchTypeOK, people, read, decided
  <2>2. MatchFinds'
    BY <1>15 DEF matchVars, MatchFinds, people, read, decided, Candidates
  <2> QED
    BY <2>1, <2>2
<1> QED
  BY <1>1, <1>2, <1>3, <1>4, <1>5, <1>6, <1>7, <1>8, <1>9, <1>10, <1>11, <1>12, <1>13,
     <1>14, <1>15 DEF MatchNext

LEMMA MatchHolds == MatchSpec => []MatchInv
BY MatchInitInv, MatchNextInv, PTL DEF MatchSpec

\* The decisions of any number of clients and companies keep to their types.
THEOREM MatchTypeCorrect == MatchSpec => []MatchTypeOK
<1>1. MatchInv => MatchTypeOK
  BY DEF MatchInv
<1> QED
  BY <1>1, MatchHolds, PTL

\* The first rule that hits decides, whatever the rules, their order, and what
\* clients and companies share.
THEOREM FirstRuleAlwaysDecides == MatchSpec => []FirstRuleDecides
<1>1. MatchTypeOK => FirstRuleDecides
  BY FirstDecides
<1> QED
  BY <1>1, MatchTypeCorrect, PTL

\* A sync never takes a company that had a client when it was listed, gives it
\* to one client only, and overrules no human whose word it has read.
THEOREM PeopleAreRespected == MatchSpec => SyncRespectsPeople
<1>1. ASSUME MatchInv, [MatchNext]_matchVars, review = "apply", toLink' # toLink
      PROVE  /\ \A h \in Companies : ids'[h] # ids[h] =>
                  /\ listed[h] = NoId
                  /\ \A p, q \in toLink : p[2] = q[2] => p = q
             /\ \A p \in toLink \ toLink' : p \in banned => p \in late
  <2>1. \A p \in toLink : p \in banned => p \in late
    BY <1>1 DEF MatchInv, MatchFinds
  <2>2. \A p, q \in toLink : p[2] = q[2] => p = q
    BY <1>1 DEF MatchInv, MatchFinds
  <2>3. \/ \E p \in toLink : ApplyLink(p[1], p[2])
        \/ UNCHANGED ids
    BY <1>1 DEF MatchNext, matchVars, SetUp, LinkPair, Dismiss, RemoveExclusion, RepSetsId, Decide,
       FinishDismissal, LoseDismissal, EditRules, PullCompanies, ReadRules, Match,
       RecordSuggestions, MatchCrash, decided
  <2>4. ASSUME NEW p \in toLink, ApplyLink(p[1], p[2]), NEW h \in Companies, ids'[h] # ids[h]
        PROVE  listed[h] = NoId
    <3>1. h = p[2]
      BY <1>1, <2>4 DEF ApplyLink, MatchInv, MatchTypeOK
    <3>2. p[2] \in Candidates
      BY <1>1 DEF MatchInv, MatchFinds
    <3> QED
      BY <3>1, <3>2 DEF Candidates
  <2> QED
    BY <2>1, <2>2, <2>3, <2>4
<1>2. MatchInv /\ [MatchNext]_matchVars =>
        [review = "apply" /\ toLink' # toLink =>
            /\ \A h \in Companies : ids'[h] # ids[h] =>
                /\ listed[h] = NoId
                /\ \A p, q \in toLink : p[2] = q[2] => p = q
            /\ \A p \in toLink \ toLink' : p \in banned => p \in late]_matchVars
  BY <1>1
<1> QED
  BY <1>2, MatchHolds, PTL DEF MatchSpec, SyncRespectsPeople

-----------------------------------------------------------------------------
(* PlanOnly.                                                               *)

LEMMA PlanInitTyped == PlanInit => PlanTypeOK
BY PlanAssumption DEF PlanInit, PlanTypeOK, Nobody, Sync, Modes

LEMMA PlanNextTyped == PlanTypeOK /\ [PlanNext]_planVars => PlanTypeOK'
<1> SUFFICES ASSUME PlanTypeOK, [PlanNext]_planVars PROVE PlanTypeOK'
  OBVIOUS
<1>a. /\ MaxToggles \in Nat /\ MaxRequests \in Nat /\ MaxPlanFaults \in Nat /\ EnvFlag \in Modes
  BY PlanAssumption
<1>f. ASSUME PlanFault PROVE planFaults' \in 0 .. MaxPlanFaults
  BY <1>a, <1>f DEF PlanFault, PlanTypeOK
<1>s. /\ Nobody \in Sync
      /\ \A who \in {"web", "worker", "person", "nobody"}, m \in Modes : Queued(who, m) \in Sync
      /\ \A n \in 1 .. 2 : [Nobody EXCEPT !.records = n] \in Sync
  BY DEF Nobody, Queued, Sync, Modes
<1>m. ASSUME NEW p \in Processes PROVE flag[p] \in Modes /\ Overlaid(p) \in Modes
  BY DEF PlanTypeOK, Overlaid
<1>w. "web" \in Processes /\ "worker" \in Processes /\ "live" \in Modes
  BY DEF Processes, Modes
<1>r. ASSUME Refresh PROVE flag' \in [Processes -> Modes] /\ planFaults' \in 0 .. MaxPlanFaults
  BY <1>r, <1>f, <1>m, <1>w DEF Refresh, PlanTypeOK
<1>1. ASSUME NEW v \in Modes, Toggle(v) PROVE PlanTypeOK'
  <2>1. toggles' \in 0 .. MaxToggles
    BY <1>1, <1>a DEF Toggle, PlanTypeOK
  <2>2. flag' \in [Processes -> Modes] /\ saving' \in Modes
    BY <1>1 DEF Toggle, PlanTypeOK
  <2> QED
    BY <1>1, <2>1, <2>2 DEF Toggle, PlanTypeOK
<1>2. ASSUME NEW job \in Sync, Request(job) PROVE PlanTypeOK'
  <2>1. waiting' \in Seq(Sync)
    BY <1>2 DEF Request, PlanTypeOK
  <2>2. requests' \in 0 .. MaxRequests
    BY <1>2, <1>a DEF Request, PlanTypeOK
  <2> QED
    BY <1>2, <2>1, <2>2 DEF Request, PlanTypeOK
<1>3. CASE Store
  BY <1>3, <1>f DEF Store, PlanTypeOK
<1>4. ASSUME NEW p \in Processes, Boot(p) \/ BootBlind(p)
      PROVE  flag' \in [Processes -> Modes] /\ planFaults' \in 0 .. MaxPlanFaults
  BY <1>4, <1>a, <1>f DEF Boot, BootBlind, PlanTypeOK
<1>5. CASE RestartWeb
  BY <1>5, <1>4, <1>w DEF RestartWeb, PlanTypeOK
<1>6. CASE RestartWorker
  BY <1>6, <1>4, <1>w, <1>s DEF RestartWorker, PlanTypeOK
<1>7. CASE QueuePoll
  <2>1. waiting' \in Seq(Sync)
    BY <1>7, <1>m, <1>s, <1>w DEF QueuePoll, PlanTypeOK
  <2> QED
    BY <1>7, <2>1 DEF QueuePoll, PlanTypeOK
<1>8. CASE StartSync
  <2>1. Head(waiting) \in Sync /\ Tail(waiting) \in Seq(Sync)
    BY <1>8 DEF StartSync, PlanTypeOK
  <2>2. running' \in Sync
    <3>1. Head(waiting).records # 0 => Head(waiting).records - 1 \in 0 .. 2
      BY <2>1 DEF Sync
    <3> QED
      BY <1>8, <1>m, <1>w, <2>1, <3>1 DEF StartSync, Sync
  <2> QED
    BY <1>8, <1>r, <2>1, <2>2 DEF StartSync, PlanTypeOK
<1>9. CASE NextRecord
  <2>1. running.records - 1 \in 0 .. 2
    BY <1>9 DEF NextRecord, PlanTypeOK, Sync
  <2>2. running' \in Sync
    BY <1>9, <1>m, <1>w, <2>1 DEF NextRecord, Sync
  <2> QED
    BY <1>9, <1>r, <2>2 DEF NextRecord, PlanTypeOK
<1>10. CASE FinishSync
  BY <1>10, <1>s DEF FinishSync, PlanTypeOK
<1>11. CASE AskReconcile
  BY <1>11 DEF AskReconcile, PlanTypeOK
<1>12. CASE OverlayReconcile
  BY <1>12, <1>r DEF OverlayReconcile, PlanTypeOK
<1>13. CASE QueueReconcile
  <2>1. waiting' \in Seq(Sync)
    BY <1>13, <1>s, <1>w DEF QueueReconcile, PlanTypeOK
  <2> QED
    BY <1>13, <2>1 DEF QueueReconcile, PlanTypeOK
<1>14. CASE UNCHANGED planVars
  BY <1>14 DEF planVars, PlanTypeOK
<1>15. CASE \E v \in Modes : AskSync(v)
  BY <1>15, <1>2, <1>s DEF AskSync
<1>16. CASE QueueFromWeb
  BY <1>16, <1>2, <1>s, <1>m, <1>w DEF QueueFromWeb
<1>17. CASE \E n \in 1 .. 2 : QueueIdentity(n)
  BY <1>17, <1>2, <1>s DEF QueueIdentity
<1> QED
  BY <1>1, <1>3, <1>5, <1>6, <1>7, <1>8, <1>9, <1>10, <1>11, <1>12, <1>13, <1>14, <1>15,
     <1>16, <1>17 DEF PlanNext, GoOn

\* Switch, queue and worker keep to their types in any number of processes'
\* steps.
THEOREM PlanTypeCorrect == PlanSpec => []PlanTypeOK
BY PlanInitTyped, PlanNextTyped, PTL DEF PlanSpec

-----------------------------------------------------------------------------
(* TeamMap: families.                                                      *)

\* A catalog as it may be entered.
FactsOK == facts \subseteq CatalogFacts /\ IsFiniteSet(facts) /\ Cardinality(facts) <= MaxFacts

\* What facts connect: records, and what is named without being in the catalog.
Nodes == Records \cup {Elsewhere}

LEMMA KindsKnown ==
  /\ IsFiniteSet(Accounts)
  /\ Accounts \subseteq Records /\ Deals \subseteq Records /\ Persons \subseteq Records
  /\ \A c \in Accounts : c = <<"client", c[2]>> /\ c[2] \in Nat
  /\ \A k \in Deals : k \notin Accounts /\ k \notin Persons
  /\ \A p \in Persons : p \notin Accounts
  /\ Named \subseteq Nodes /\ Records \subseteq Nodes /\ Accounts \subseteq Named
  /\ Nil \notin Accounts
<1>1. IsFiniteSet(Accounts)
  <2> DEFINE f == [i \in 1 .. ClientCount |-> <<"client", i>>]
  <2>1. IsFiniteSet(1 .. ClientCount)
    BY TeamAssumption, FS_Interval
  <2>2. f \in Surjection(1 .. ClientCount, Accounts)
    BY DEF Surjection, Accounts, Kind
  <2> QED
    BY <2>1, <2>2, FS_Surjection
<1>2. Accounts \subseteq Records /\ Deals \subseteq Records /\ Persons \subseteq Records
  BY DEF Records
<1>3. \A c \in Accounts : c = <<"client", c[2]>> /\ c[2] \in Nat
  BY TeamAssumption DEF Accounts, Kind
<1>4. \A k \in Deals : k \notin Accounts /\ k \notin Persons
  BY DEF Accounts, Deals, Persons, Kind
<1>5. \A p \in Persons : p \notin Accounts
  BY DEF Accounts, Persons, Kind
<1>6. Named \subseteq Nodes /\ Records \subseteq Nodes /\ Accounts \subseteq Named
  BY <1>2 DEF Named, Nodes
<1>7. Nil \notin Accounts
  BY <1>2, NilAssumption
<1> QED
  BY <1>1, <1>2, <1>3, <1>4, <1>5, <1>6, <1>7

\* Where a fact points.
LEMMA FactsPoint ==
  ASSUME FactsOK
  PROVE  /\ \A f \in Links : f \in facts /\ f[2] \in Records /\ f[3] \in Nodes
         /\ \A r, x : \A k \in {"account", "advertiser", "agency", "worksFor"} :
              x \in All(k, r) => /\ x \in Named
                                 /\ \E f \in Links : f[2] = r /\ f[3] = x
         /\ \A r : \A k \in {"says", "salesTeam", "called", "sold", "airs"} : All(k, r) \subseteq Labels
         /\ \A r : All("rep", r) \subseteq Reps
<1>1. ASSUME NEW f \in facts
      PROVE  /\ f[1] \in {"account", "advertiser", "agency", "worksFor"} =>
                    f[2] \in Records /\ f[3] \in Named
             /\ f[1] \in {"says", "salesTeam", "called", "sold", "airs"} => f[3] \in Labels
             /\ f[1] = "rep" => f[3] \in Reps
  <2>1. \/ f \in {"account"} \X Accounts \X Named
        \/ f \in {"advertiser", "agency"} \X Deals \X Named
        \/ f \in {"worksFor"} \X Persons \X Named
        \/ f \in {"says"} \X Records \X Labels
        \/ f \in {"salesTeam"} \X (Accounts \cup Deals) \X Labels
        \/ f \in {"called"} \X Accounts \X Labels
        \/ f \in {"sold", "airs"} \X Deals \X Labels
        \/ f \in {"rep"} \X Records \X Reps
    BY DEF FactsOK, CatalogFacts
  <2> QED
    BY <2>1, KindsKnown
<1>2. \A f \in Links : f \in facts /\ f[2] \in Records /\ f[3] \in Nodes
  BY <1>1, KindsKnown DEF Links
<1>3. ASSUME NEW k \in {"account", "advertiser", "agency", "worksFor"}, NEW r, NEW x \in All(k, r)
      PROVE  x \in Named /\ \E f \in Links : f[2] = r /\ f[3] = x
  <2>1. PICK f \in facts : f[1] = k /\ f[2] = r /\ f[3] = x
    BY DEF All
  <2> QED
    BY <1>1, <2>1 DEF Links
<1>4. \A r : \A k \in {"says", "salesTeam", "called", "sold", "airs"} : All(k, r) \subseteq Labels
  BY <1>1 DEF All
<1>5. \A r : All("rep", r) \subseteq Reps
  BY <1>1 DEF All
<1> QED
  BY <1>2, <1>3, <1>4, <1>5

LEMMA OneOf == ASSUME NEW S PROVE TheOne(S) = Nil \/ TheOne(S) \in S
<1>1. CASE S = {}
  <2>1. Cardinality(S) # 1
    BY <1>1, FS_EmptySet
  <2> QED
    BY <2>1 DEF TheOne
<1>2. CASE S # {}
  BY <1>2 DEF TheOne
<1> QED
  BY <1>1, <1>2

\* The first option that is known.
LEMMA FirstKnownIs ==
  ASSUME NEW n \in Nat, NEW options, DOMAIN options = 1 .. n
  PROVE  /\ FirstKnown(options) = Nil \/ \E i \in 1 .. n : FirstKnown(options) = options[i]
         /\ n >= 2 /\ options[1] = Nil /\ options[2] # Nil =>
                FirstKnown(options) = options[2]
<1> DEFINE known == {i \in DOMAIN options : options[i] # Nil}
           first == CHOOSE i \in known : \A j \in known : i <= j
<1>1. known \in SUBSET Nat
  OBVIOUS
<1>2. CASE known = {}
  <2>1. FirstKnown(options) = Nil
    BY <1>2 DEF FirstKnown
  <2> QED
    BY <1>2, <2>1
<1>3. CASE known # {}
  <2>1. FirstKnown(options) = options[first]
    BY <1>3 DEF FirstKnown
  <2>2. first \in known /\ \A j \in known : first <= j
    <3>1. \E i \in known : \A j \in known : i <= j
      <4> HIDE DEF known
      <4> QED
        BY <1>1, <1>3, LeastOf
    <3> QED
      BY <3>1
  <2> HIDE DEF first
  <2>3. ASSUME n >= 2, options[1] = Nil, options[2] # Nil PROVE first = 2
    <3>1. 2 \in known /\ 1 \notin known
      BY <2>3
    <3>2. first \in 1 .. n /\ first # 1 /\ first <= 2
      BY <2>2, <3>1
    <3> QED
      BY <3>2
  <2> QED
    BY <2>1, <2>2, <2>3
<1> QED
  BY <1>2, <1>3

\* Records that a link leads out of none of.
Closed(C) == C \in SUBSET Nodes /\ Touching(C) \subseteq C

LEMMA ClosedMeans ==
  ASSUME FactsOK, NEW C \in SUBSET Nodes
  PROVE  Closed(C) <=> \A f \in Links : f[2] \in C <=> f[3] \in C
BY FactsPoint, KindsKnown DEF Closed, Touching

\* A family, link by link.
LEMMA FamilySteps ==
  ASSUME FactsOK, NEW r \in Records
  PROVE  \E F \in [0 .. MaxFacts -> SUBSET Nodes] :
            /\ F[0] = {r} /\ F[MaxFacts] = Family(r)
            /\ \A k \in 1 .. MaxFacts : F[k] = Touching(F[k - 1])
<1> DEFINE S == 1 .. MaxFacts
           T == SUBSET Nodes
           turn == [k \in 1 .. MaxFacts |-> k]
           step == [x \in T \X S |-> Touching(x[1])]
           ch == [s \in (SUBSET S) \ {{}} |-> Max(s)]
           Step(h) == [s \in SUBSET S |-> IF s = {} THEN {r} ELSE Touching(h[s \ {Max(s)}])]
           i == CHOOSE h : h = Step(h)
<1>1. MaxFacts \in Nat /\ DOMAIN turn = S /\ IsFiniteSet(S) /\ {r} \in T
  BY TeamAssumption, KindsKnown, FS_Interval
<1>t. \A C \in T : Touching(C) \in T
  BY FactsPoint, KindsKnown DEF Touching
<1>2. step \in [T \X S -> T]
  BY <1>t
<1>3. \A o \in T : \A k \in S : step[<<o, k>>] = Touching(o)
  OBVIOUS
<1>4. Takes(ch, S) /\ \A s \in (SUBSET S) \ {{}} : ch[s] = Max(s) /\ Max(s) \in S
  BY <1>1, MaxUpTo DEF Takes
<1>5. Family(r) = i[S]
  <2> HIDE DEF S
  <2> QED
    BY <1>1 DEF Family, FoldLeft, MapThenFoldSet
<1> HIDE DEF step, ch, S, T
<1>6. PICK h \in [SUBSET S -> T] : IsFold(h, S, ch, step, {r})
  BY <1>1, <1>2, <1>4, FoldExists
<1>7. h = Step(h)
  <2>1. h[{}] = {r}
    BY <1>6 DEF IsFold
  <2>2. ASSUME NEW s \in (SUBSET S) \ {{}}
        PROVE  h[s] = Touching(h[s \ {Max(s)}])
    <3>1. h[s] = step[<<h[s \ {Max(s)}], Max(s)>>] /\ Max(s) \in S
      BY <1>4, <1>6 DEF IsFold
    <3>2. h[s \ {Max(s)}] \in T
      BY <1>6
    <3> QED
      BY <1>3, <3>1, <3>2
  <2>3. \A s \in SUBSET S : h[s] = Step(h)[s]
    BY <2>1, <2>2
  <2>4. h = [s \in SUBSET S |-> h[s]]
    BY <1>6
  <2> HIDE DEF Step
  <2>5. Step(h) = [s \in SUBSET S |-> Step(h)[s]]
    BY DEF Step
  <2> QED
    BY <2>3, <2>4, <2>5
<1>8. i = Step(i)
  <2> HIDE DEF Step
  <2> QED
    BY <1>7
<1> HIDE DEF i
<1>9. i[{}] = {r}
  BY <1>8
<1>10. InTurn(i, MaxFacts, step, T)
  <2>1. ASSUME NEW s \in (SUBSET S) \ {{}}, i[s \ {Max(s)}] \in T
        PROVE  i[s] = step[<<i[s \ {Max(s)}], Max(s)>>]
    <3> DEFINE o == i[s \ {Max(s)}]
               m == Max(s)
    <3>1. i[s] = Touching(o)
      BY <1>8
    <3>2. m \in S
      BY <1>4
    <3>3. o \in T
      BY <2>1
    <3> HIDE DEF o, m
    <3>4. i[s] = step[<<o, m>>]
      BY <1>3, <3>1, <3>2, <3>3
    <3> QED
      BY <3>4 DEF o, m
  <2> QED
    BY <2>1 DEF InTurn, S
<1>11. step \in [T \X (1 .. MaxFacts) -> T]
  BY <1>2 DEF S
<1>12. PICK F \in [0 .. MaxFacts -> T] : Runs(F, MaxFacts, step, {r}, i[1 .. MaxFacts])
  BY <1>1, <1>11, <1>9, <1>10, FoldSteps
<1>13. ASSUME NEW k \in 1 .. MaxFacts PROVE F[k] = Touching(F[k - 1])
  <2>1. k \in S /\ k - 1 \in 0 .. MaxFacts
    BY <1>1 DEF S
  <2>2. F[k - 1] \in T
    BY <1>12, <2>1
  <2>3. F[k] = step[<<F[k - 1], k>>]
    BY <1>12, <2>1 DEF S, Runs
  <2> QED
    BY <1>3, <2>1, <2>2, <2>3
<1>14. F[MaxFacts] = Family(r)
  BY <1>5, <1>12 DEF S, Runs
<1> QED
  BY <1>12, <1>13, <1>14 DEF Runs, T

\* Nothing links a family with another record: a step that does not close it
\* spends a fact, and there are no more of them than steps.
LEMMA FamilyClosed ==
  ASSUME FactsOK, NEW r \in Records
  PROVE  Closed(Family(r)) /\ r \in Family(r)
<1>1. PICK F \in [0 .. MaxFacts -> SUBSET Nodes] :
        /\ F[0] = {r} /\ F[MaxFacts] = Family(r)
        /\ \A k \in 1 .. MaxFacts : F[k] = Touching(F[k - 1])
  BY FamilySteps
<1> DEFINE Inside(C) == {f \in Links : f[2] \in C /\ f[3] \in C}
           P == {k \in Nat : k <= MaxFacts =>
                    /\ r \in F[k]
                    /\ Closed(F[k]) \/ Cardinality(Inside(F[k])) >= k}
<1>m. MaxFacts \in Nat
  BY TeamAssumption
<1>f. \A C : IsFiniteSet(Inside(C)) /\ Cardinality(Inside(C)) \in Nat
  <2>1. \A C : Inside(C) \subseteq facts
    BY FactsPoint
  <2> HIDE DEF Inside
  <2>2. IsFiniteSet(facts)
    BY DEF FactsOK
  <2> QED
    BY <2>1, <2>2, FS_Subset, FS_CardinalityType
<1>2. 0 \in P
  <2>1. Cardinality(Inside(F[0])) >= 0
    <3> HIDE DEF Inside
    <3> QED
      BY <1>f
  <2> HIDE DEF Inside
  <2> QED
    BY <1>1, <2>1
<1>3. ASSUME NEW k \in P PROVE k + 1 \in P
  <2>0. k \in Nat /\ k + 1 \in Nat
    OBVIOUS
  <2>1. ASSUME k + 1 <= MaxFacts
        PROVE  /\ r \in F[k + 1]
               /\ Closed(F[k + 1]) \/ Cardinality(Inside(F[k + 1])) >= k + 1
    <3>1. k + 1 \in 1 .. MaxFacts /\ k + 1 - 1 = k /\ k \in 0 .. MaxFacts /\ k <= MaxFacts
      BY <1>m, <2>0, <2>1
    <3>2. F[k + 1] = Touching(F[k]) /\ F[k] \in SUBSET Nodes /\ F[k + 1] \in SUBSET Nodes
      <4>1. F[k + 1] = Touching(F[k + 1 - 1])
        BY <1>1, <3>1
      <4>2. k + 1 \in 0 .. MaxFacts
        BY <3>1
      <4> QED
        BY <1>1, <3>1, <4>1, <4>2
    <3>3. F[k] \subseteq F[k + 1]
      BY <3>2 DEF Touching
    <3>4. r \in F[k] /\ (Closed(F[k]) \/ Cardinality(Inside(F[k])) >= k)
      BY <3>1
    <3>5. CASE Closed(F[k])
      <4>1. F[k + 1] = F[k]
        BY <3>2, <3>3, <3>5 DEF Closed
      <4> QED
        BY <3>4, <3>5, <4>1
    <3>6. CASE ~ Closed(F[k])
      <4>1. PICK f \in Links : ~ (f[2] \in F[k] <=> f[3] \in F[k])
        BY <3>2, <3>6, ClosedMeans
      <4>2. f[2] \in F[k + 1] /\ f[3] \in F[k + 1]
        BY <3>2, <4>1 DEF Touching
      <4>3. f \in Inside(F[k + 1]) /\ f \notin Inside(F[k])
        BY <4>1, <4>2
      <4>4. Inside(F[k]) \subseteq Inside(F[k + 1])
        BY <3>3
      <4> HIDE DEF Inside
      <4>5. Inside(F[k]) \cup {f} \subseteq Inside(F[k + 1])
        BY <4>3, <4>4
      <4>6. Cardinality(Inside(F[k]) \cup {f}) = Cardinality(Inside(F[k])) + 1
        BY <1>f, <4>3, FS_AddElement
      <4>7. Cardinality(Inside(F[k]) \cup {f}) <= Cardinality(Inside(F[k + 1]))
        BY <1>f, <4>5, FS_Subset
      <4>8. Cardinality(Inside(F[k])) >= k
        BY <3>4, <3>6
      <4>9. Cardinality(Inside(F[k + 1])) >= k + 1
        <5> DEFINE a == Cardinality(Inside(F[k]))
                   b == Cardinality(Inside(F[k + 1]))
        <5>1. a \in Nat /\ b \in Nat /\ a + 1 <= b /\ a >= k
          BY <1>f, <4>6, <4>7, <4>8
        <5> HIDE DEF a, b
        <5>2. b >= k + 1
          BY <2>0, <5>1
        <5> QED
          BY <5>2 DEF b
      <4> QED
        BY <3>3, <3>4, <4>9
    <3> QED
      BY <3>5, <3>6
  <2> HIDE DEF Inside
  <2> QED
    BY <2>0, <2>1
<1>4. P = Nat
  <2> HIDE DEF P
  <2>1. P \in SUBSET Nat
    BY DEF P
  <2> QED
    BY <1>2, <1>3, <2>1, Counting
<1> DEFINE C == Family(r)
<1>5. r \in C /\ (Closed(C) \/ Cardinality(Inside(C)) >= MaxFacts) /\ C \in SUBSET Nodes
  <2> HIDE DEF Inside
  <2>1. MaxFacts \in 0 .. MaxFacts
    BY <1>m
  <2> QED
    BY <1>1, <1>4, <1>m, <2>1
<1>6. ASSUME Cardinality(Inside(C)) >= MaxFacts PROVE Closed(C)
  <2>1. Inside(C) \subseteq facts
    BY FactsPoint
  <2>2. Inside(C) = facts
    <3> HIDE DEF Inside, C
    <3>1. IsFiniteSet(facts) /\ Cardinality(facts) <= MaxFacts /\ Cardinality(facts) \in Nat
      BY FS_CardinalityType DEF FactsOK
    <3>2. Cardinality(Inside(C)) <= Cardinality(facts)
      BY <2>1, <3>1, FS_Subset
    <3>3. Cardinality(Inside(C)) = Cardinality(facts)
      BY <1>6, <1>f, <1>m, <3>1, <3>2
    <3> QED
      BY <2>1, <3>1, <3>3, FS_Subset
  <2>3. \A f \in Links : f[2] \in C /\ f[3] \in C
    BY <2>2, FactsPoint
  <2> QED
    BY <1>5, <2>3, ClosedMeans
<1> HIDE DEF Inside, C
<1>7. Closed(C) /\ r \in C
  BY <1>5, <1>6
<1> QED
  BY <1>7 DEF C

-----------------------------------------------------------------------------
(* TeamMap: teams and owners.                                              *)

LEMMA LatestIn ==
  ASSUME NEW s \in (SUBSET Accounts) \ {{}}
  PROVE  Latest(s) \in s /\ \A d \in s \ {Latest(s)} : ParentFirst(d, Latest(s))
<1> DEFINE R == {x \in Accounts \X Accounts : ParentFirst(x[1], x[2])}
<1>1. Orders(R, Accounts)
  <2>1. \A c \in Accounts : c = <<"client", c[2]>> /\ c[2] \in Nat
    BY KindsKnown
  <2>2. \A c, d \in Accounts : c # d => ParentFirst(c, d) \/ ParentFirst(d, c)
    BY <2>1 DEF ParentFirst
  <2>3. \A c, d, e \in Accounts : ParentFirst(c, d) /\ ParentFirst(d, e) => ParentFirst(c, e)
    BY <2>1 DEF ParentFirst
  <2> QED
    BY <2>2, <2>3 DEF Orders
<1>2. IsFiniteSet(Accounts)
  BY KindsKnown
<1> HIDE DEF R
<1>3. \E c \in s : \A d \in s \ {c} : <<d, c>> \in R
  BY <1>1, <1>2, LastOf
<1>4. \E c \in s : \A d \in s \ {c} : ParentFirst(d, c)
  BY <1>3 DEF R
<1> QED
  BY <1>4 DEF Latest

Values == {Nil} \cup {TeamOf[l] : l \in Labels} \cup {PrimaryTeam[p] : p \in Reps}
Holders == {Nil} \cup {OwnerOf[p] : p \in Reps} \cup {TeamOwner[t] : t \in DOMAIN TeamOwner}

LEMMA LabelsMap ==
  ASSUME FactsOK, NEW r
  PROVE  /\ OwnTeam(r) \in Values /\ RepTeam(r) \in Values /\ RepOwner(r) \in Holders
         /\ \A k \in {"salesTeam", "called", "sold", "airs"} :
              /\ UniqueTeam(k, r) \in Values
              /\ UniqueTeam(k, r) = Nil \/ UniqueTeam(k, r) \in {TeamOf[l] : l \in All(k, r)}
<1>1. The("says", r) = Nil \/ The("says", r) \in Labels
  BY FactsPoint, OneOf DEF The
<1>2. The("rep", r) = Nil \/ The("rep", r) \in Reps
  BY FactsPoint, OneOf DEF The
<1>3. ASSUME NEW k \in {"salesTeam", "called", "sold", "airs"}
      PROVE  /\ UniqueTeam(k, r) \in Values
             /\ UniqueTeam(k, r) = Nil \/ UniqueTeam(k, r) \in {TeamOf[l] : l \in All(k, r)}
  <2>1. UniqueTeam(k, r) = Nil \/ UniqueTeam(k, r) \in {TeamOf[l] : l \in All(k, r)} \ {Nil}
    BY OneOf DEF UniqueTeam
  <2>2. All(k, r) \subseteq Labels
    BY FactsPoint
  <2> QED
    BY <2>1, <2>2 DEF Values
<1> QED
  BY <1>1, <1>2, <1>3 DEF OwnTeam, RepTeam, RepOwner, Values, Holders

LEMMA TeamsOwnerKnown == \A t : TheTeamsOwner(t) \in Holders
BY DEF TheTeamsOwner, Holders

\* A record that another names lies in the same closed sets.
LEMMA NamesLink ==
  ASSUME FactsOK, NEW C, Closed(C), NEW r \in C,
         NEW k \in {"account", "advertiser", "agency", "worksFor"}
  PROVE  The(k, r) = Nil \/ The(k, r) \in C \cap Named
<1>1. The(k, r) = Nil \/ The(k, r) \in All(k, r)
  BY OneOf DEF The
<1>2. ASSUME The(k, r) \in All(k, r) PROVE The(k, r) \in C \cap Named
  <2>1. The(k, r) \in Named /\ \E f \in Links : f[2] = r /\ f[3] = The(k, r)
    BY <1>2, FactsPoint
  <2>2. C \in SUBSET Nodes
    BY DEF Closed
  <2> QED
    BY <2>1, <2>2, ClosedMeans
<1> QED
  BY <1>1, <1>2

\* So do the contracts of a client.
LEMMA RelatedLink ==
  ASSUME FactsOK, NEW C, Closed(C), NEW c \in C
  PROVE  Related(c) \subseteq C \cap Deals
<1>1. ASSUME NEW k \in Related(c) PROVE k \in C
  <2>1. c # Nil /\ \E n \in {"advertiser", "agency"} : c = The(n, k)
    BY DEF Related
  <2>2. PICK n \in {"advertiser", "agency"} : c = The(n, k)
    BY <2>1
  <2>3. c \in All(n, k)
    BY <2>1, <2>2, OneOf DEF The
  <2>4. \E f \in Links : f[2] = k /\ f[3] = c
    BY <2>3, FactsPoint
  <2>5. C \in SUBSET Nodes
    BY DEF Closed
  <2> QED
    BY <2>4, <2>5, ClosedMeans
<1> QED
  BY <1>1 DEF Related

\* The client of a team or of an owner gets one value.
LEMMA ClientTeamTyped ==
  ASSUME FactsOK, NEW c \in Accounts, NEW g \in [Records -> Values]
  PROVE  ClientTeam(c, g) \in [Records -> Values]
<1> DEFINE above == The("account", c)
           options == <<OwnTeam(c), IF above = c THEN Nil ELSE At(g, above),
                        UniqueTeam("salesTeam", c), UniqueTeam("called", c), RepTeam(c)>>
<1>2. At(g, above) \in Values
  BY KindsKnown DEF At, Values
<1>3. Nil \in Values
  BY DEF Values
<1>4. \A i \in 1 .. 5 : options[i] \in Values
  BY <1>2, <1>3, LabelsMap
<1>5. DOMAIN options = 1 .. 5
  OBVIOUS
<1>6. ClientTeam(c, g) = [g EXCEPT ![c] = FirstKnown(options)]
  BY DEF ClientTeam
<1> HIDE DEF options
<1>7. FirstKnown(options) \in Values
  BY <1>3, <1>4, <1>5, FirstKnownIs
<1> QED
  BY <1>6, <1>7

LEMMA ClientTeamSteps ==
  ASSUME FactsOK
  PROVE  \E h \in [SUBSET Accounts -> [Records -> Values]] :
            /\ h[{}] = NoneYet /\ h[Accounts] = ClientTeams
            /\ \A s \in (SUBSET Accounts) \ {{}} :
                 h[s] = ClientTeam(Latest(s), h[s \ {Latest(s)}])
<1> DEFINE S == Accounts
           T == [Records -> Values]
           step == [x \in T \X S |-> ClientTeam(x[2], x[1])]
           ch == [s \in (SUBSET S) \ {{}} |-> Latest(s)]
           Step(h) == [s \in SUBSET S |-> IF s = {} THEN NoneYet
                          ELSE ClientTeam(Latest(s), h[s \ {Latest(s)}])]
           i == CHOOSE h : h = Step(h)
<1>1. IsFiniteSet(S) /\ NoneYet \in T
  BY KindsKnown DEF NoneYet, Values
<1>2. step \in [T \X S -> T]
  BY ClientTeamTyped
<1>3. \A o \in T : \A c \in S : step[<<o, c>>] = ClientTeam(c, o)
  OBVIOUS
<1>4. Takes(ch, S) /\ \A s \in (SUBSET S) \ {{}} : ch[s] = Latest(s) /\ Latest(s) \in S
  BY LatestIn DEF Takes
<1>5. ClientTeams = i[S]
  BY DEF ClientTeams, MapThenFoldSet
<1> HIDE DEF step, ch, S, T
<1>6. PICK h \in [SUBSET S -> T] : IsFold(h, S, ch, step, NoneYet)
  BY <1>1, <1>2, <1>4, FoldExists
<1>7. h = Step(h)
  <2>1. h[{}] = NoneYet
    BY <1>6 DEF IsFold
  <2>2. ASSUME NEW s \in (SUBSET S) \ {{}}
        PROVE  h[s] = ClientTeam(Latest(s), h[s \ {Latest(s)}])
    <3>1. h[s] = step[<<h[s \ {Latest(s)}], Latest(s)>>] /\ Latest(s) \in S
      BY <1>4, <1>6 DEF IsFold
    <3>2. h[s \ {Latest(s)}] \in T
      BY <1>6
    <3> QED
      BY <1>3, <3>1, <3>2
  <2>3. \A s \in SUBSET S : h[s] = Step(h)[s]
    BY <2>1, <2>2
  <2>4. h = [s \in SUBSET S |-> h[s]]
    BY <1>6
  <2> HIDE DEF Step
  <2>5. Step(h) = [s \in SUBSET S |-> Step(h)[s]]
    BY DEF Step
  <2> QED
    BY <2>3, <2>4, <2>5
<1>8. i = Step(i)
  <2> HIDE DEF Step
  <2> QED
    BY <1>7
<1> HIDE DEF i
<1>9. i[{}] = NoneYet
  BY <1>8
<1>10. ASSUME NEW s \in (SUBSET S) \ {{}}
       PROVE  i[s] = ClientTeam(Latest(s), i[s \ {Latest(s)}])
  BY <1>8
<1>11. Follows(i, S, ch, step, T)
  <2>1. ASSUME NEW s \in (SUBSET S) \ {{}}, i[s \ {ch[s]}] \in T
        PROVE  i[s] = step[<<i[s \ {ch[s]}], ch[s]>>]
    <3> DEFINE o == i[s \ {ch[s]}]
               c == ch[s]
    <3>1. c = Latest(s) /\ c \in S
      BY <1>4
    <3>2. i[s] = ClientTeam(c, o)
      BY <1>10, <3>1
    <3>3. o \in T
      BY <2>1
    <3> HIDE DEF o, c
    <3>4. i[s] = step[<<o, c>>]
      BY <1>3, <3>1, <3>2, <3>3
    <3> QED
      BY <3>4 DEF o, c
  <2> QED
    BY <2>1 DEF Follows
<1>12. \A s \in SUBSET S : i[s] \in T
  BY <1>1, <1>2, <1>4, <1>9, <1>11, FoldIs
<1>13. i \in [SUBSET S -> T]
  <2>1. i = [s \in SUBSET S |-> Step(i)[s]]
    <3>1. Step(i) = [s \in SUBSET S |-> Step(i)[s]]
      OBVIOUS
    <3> HIDE DEF Step
    <3> QED
      BY <1>8, <3>1
  <2> HIDE DEF Step
  <2> QED
    BY <1>12, <2>1
<1> QED
  BY <1>5, <1>9, <1>10, <1>13 DEF S, T

ClientOwner(teams, c, g) ==
    [g EXCEPT ![c] = OwnerFrom(g, c, IF IsRoot(c) THEN Nil ELSE The("account", c), teams[c])]

LEMMA OwnerFromIs ==
  ASSUME FactsOK, NEW g, NEW r, NEW parent, NEW t
  PROVE  OwnerFrom(g, r, parent, t) \in {Nil, RepOwner(r), At(g, parent), TheTeamsOwner(t)}
<1> DEFINE options == <<RepOwner(r), At(g, parent), TheTeamsOwner(t)>>
<1>1. /\ DOMAIN options = 1 .. 3
      /\ \A i \in 1 .. 3 : options[i] \in {RepOwner(r), At(g, parent), TheTeamsOwner(t)}
  OBVIOUS
<1>2. OwnerFrom(g, r, parent, t) = FirstKnown(options)
  BY DEF OwnerFrom
<1> HIDE DEF options
<1> QED
  BY <1>1, <1>2, FirstKnownIs

LEMMA ClientOwnerTyped ==
  ASSUME FactsOK, NEW teams, NEW c \in Accounts, NEW g \in [Records -> Holders]
  PROVE  ClientOwner(teams, c, g) \in [Records -> Holders]
<1> DEFINE parent == IF IsRoot(c) THEN Nil ELSE The("account", c)
<1>2. At(g, parent) \in Holders /\ Nil \in Holders
  BY KindsKnown DEF At, Holders
<1>3. RepOwner(c) \in Holders /\ TheTeamsOwner(teams[c]) \in Holders
  BY LabelsMap, TeamsOwnerKnown
<1>4. ClientOwner(teams, c, g) = [g EXCEPT ![c] = OwnerFrom(g, c, parent, teams[c])]
  BY DEF ClientOwner
<1> HIDE DEF parent
<1>5. OwnerFrom(g, c, parent, teams[c]) \in Holders
  BY <1>2, <1>3, OwnerFromIs
<1> QED
  BY <1>4, <1>5

LEMMA ClientOwnerSteps ==
  ASSUME FactsOK, NEW teams
  PROVE  \E h \in [SUBSET Accounts -> [Records -> Holders]] :
            /\ h[{}] = NoneYet /\ h[Accounts] = ClientOwners(teams)
            /\ \A s \in (SUBSET Accounts) \ {{}} :
                 h[s] = ClientOwner(teams, Latest(s), h[s \ {Latest(s)}])
<1> DEFINE S == Accounts
           T == [Records -> Holders]
           step == [x \in T \X S |-> ClientOwner(teams, x[2], x[1])]
           ch == [s \in (SUBSET S) \ {{}} |-> Latest(s)]
           Step(h) == [s \in SUBSET S |-> IF s = {} THEN NoneYet
                          ELSE ClientOwner(teams, Latest(s), h[s \ {Latest(s)}])]
           i == CHOOSE h : h = Step(h)
<1>1. IsFiniteSet(S) /\ NoneYet \in T
  BY KindsKnown DEF NoneYet, Holders
<1>2. step \in [T \X S -> T]
  BY ClientOwnerTyped
<1>3. \A o \in T : \A c \in S : step[<<o, c>>] = ClientOwner(teams, c, o)
  OBVIOUS
<1>4. Takes(ch, S) /\ \A s \in (SUBSET S) \ {{}} : ch[s] = Latest(s) /\ Latest(s) \in S
  BY LatestIn DEF Takes
<1>5. ClientOwners(teams) = i[S]
  BY DEF ClientOwners, ClientOwner, MapThenFoldSet
<1> HIDE DEF step, ch, S, T
<1>6. PICK h \in [SUBSET S -> T] : IsFold(h, S, ch, step, NoneYet)
  BY <1>1, <1>2, <1>4, FoldExists
<1>7. h = Step(h)
  <2>1. h[{}] = NoneYet
    BY <1>6 DEF IsFold
  <2>2. ASSUME NEW s \in (SUBSET S) \ {{}}
        PROVE  h[s] = ClientOwner(teams, Latest(s), h[s \ {Latest(s)}])
    <3>1. h[s] = step[<<h[s \ {Latest(s)}], Latest(s)>>] /\ Latest(s) \in S
      BY <1>4, <1>6 DEF IsFold
    <3>2. h[s \ {Latest(s)}] \in T
      BY <1>6
    <3> QED
      BY <1>3, <3>1, <3>2
  <2>3. \A s \in SUBSET S : h[s] = Step(h)[s]
    BY <2>1, <2>2
  <2>4. h = [s \in SUBSET S |-> h[s]]
    BY <1>6
  <2> HIDE DEF Step
  <2>5. Step(h) = [s \in SUBSET S |-> Step(h)[s]]
    BY DEF Step
  <2> QED
    BY <2>3, <2>4, <2>5
<1>8. i = Step(i)
  <2> HIDE DEF Step
  <2> QED
    BY <1>7
<1> HIDE DEF i
<1>9. i[{}] = NoneYet
  BY <1>8
<1>10. ASSUME NEW s \in (SUBSET S) \ {{}}
       PROVE  i[s] = ClientOwner(teams, Latest(s), i[s \ {Latest(s)}])
  BY <1>8
<1>11. Follows(i, S, ch, step, T)
  <2>1. ASSUME NEW s \in (SUBSET S) \ {{}}, i[s \ {ch[s]}] \in T
        PROVE  i[s] = step[<<i[s \ {ch[s]}], ch[s]>>]
    <3> DEFINE o == i[s \ {ch[s]}]
               c == ch[s]
    <3>1. c = Latest(s) /\ c \in S
      BY <1>4
    <3>2. i[s] = ClientOwner(teams, c, o)
      BY <1>10, <3>1
    <3>3. o \in T
      BY <2>1
    <3> HIDE DEF o, c
    <3>4. i[s] = step[<<o, c>>]
      BY <1>3, <3>1, <3>2, <3>3
    <3> QED
      BY <3>4 DEF o, c
  <2> QED
    BY <2>1 DEF Follows
<1>12. \A s \in SUBSET S : i[s] \in T
  BY <1>1, <1>2, <1>4, <1>9, <1>11, FoldIs
<1>13. i \in [SUBSET S -> T]
  <2>1. i = [s \in SUBSET S |-> Step(i)[s]]
    <3>1. Step(i) = [s \in SUBSET S |-> Step(i)[s]]
      OBVIOUS
    <3> HIDE DEF Step
    <3> QED
      BY <1>8, <3>1
  <2> HIDE DEF Step
  <2> QED
    BY <1>12, <2>1
<1> QED
  BY <1>5, <1>9, <1>10, <1>13 DEF S, T

\* A value that some record of C gives, and values that stay within C.
TeamFrom(v, C) == v # Nil => \E d \in C \cap Records : Gives(d, v)
TeamsFrom(g, C) == \A r \in C \cap Records : TeamFrom(g[r], C)

LEMMA OwnTeamsFrom ==
  ASSUME FactsOK, NEW C, NEW r \in C \cap Records
  PROVE  /\ TeamFrom(Nil, C) /\ TeamFrom(OwnTeam(r), C) /\ TeamFrom(RepTeam(r), C)
         /\ \A k \in {"salesTeam", "called", "sold", "airs"} : TeamFrom(UniqueTeam(k, r), C)
<1>1. ASSUME NEW k \in {"salesTeam", "called", "sold", "airs"} PROVE TeamFrom(UniqueTeam(k, r), C)
  <2>1. UniqueTeam(k, r) = Nil \/ UniqueTeam(k, r) \in {TeamOf[l] : l \in All(k, r)}
    BY LabelsMap
  <2>2. UniqueTeam(k, r) = Nil \/ Gives(r, UniqueTeam(k, r))
    BY <2>1 DEF Gives
  <2> QED
    BY <2>2 DEF TeamFrom
<1> QED
  BY <1>1 DEF TeamFrom, Gives

LEMMA FirstTeamFrom ==
  ASSUME NEW C, NEW n \in Nat, NEW options, DOMAIN options = 1 .. n,
         \A i \in 1 .. n : TeamFrom(options[i], C)
  PROVE  TeamFrom(FirstKnown(options), C)
<1>1. TeamFrom(Nil, C)
  BY DEF TeamFrom
<1>2. FirstKnown(options) = Nil \/ \E i \in 1 .. n : FirstKnown(options) = options[i]
  BY FirstKnownIs
<1> QED
  BY <1>1, <1>2

\* What a record takes from another, and from the only team of its contracts.
LEMMA TakenTeams ==
  ASSUME FactsOK, NEW C, Closed(C), NEW g, TeamsFrom(g, C), NEW r \in C,
         NEW k \in {"account", "advertiser", "agency", "worksFor"}
  PROVE  /\ TeamFrom(At(g, The(k, r)), C)
         /\ TeamFrom(TheOne({g[d] : d \in Related(The(k, r))} \ {Nil}), C)
<1> DEFINE c == The(k, r)
           team1 == TheOne({g[d] : d \in Related(c)} \ {Nil})
<1>1. c = Nil \/ c \in C
  BY NamesLink
<1>a. c \in Accounts => c \in C \cap Records
  BY <1>1, KindsKnown
<1>2. Related(c) \subseteq C \cap Records
  <2>1. CASE c = Nil
    BY <2>1 DEF Related
  <2>2. CASE c \in C
    BY <2>2, RelatedLink, KindsKnown
  <2> QED
    BY <1>1, <2>1, <2>2
<1>3. TeamFrom(At(g, c), C)
  BY <1>a DEF At, TeamFrom, TeamsFrom
<1>4. team1 = Nil \/ team1 \in {g[d] : d \in Related(c)}
  BY OneOf
<1> HIDE DEF team1, c
<1>5. TeamFrom(team1, C)
  BY <1>2, <1>4 DEF TeamFrom, TeamsFrom
<1> QED
  BY <1>3, <1>5 DEF team1, c

LEMMA ClientTeamFrom ==
  ASSUME FactsOK, NEW C, Closed(C), NEW c \in Accounts,
         NEW g \in [Records -> Values], TeamsFrom(g, C)
  PROVE  TeamsFrom(ClientTeam(c, g), C)
<1> DEFINE above == The("account", c)
           options == <<OwnTeam(c), IF above = c THEN Nil ELSE At(g, above),
                        UniqueTeam("salesTeam", c), UniqueTeam("called", c), RepTeam(c)>>
<1>1. ClientTeam(c, g) = [g EXCEPT ![c] = FirstKnown(options)] /\ DOMAIN options = 1 .. 5
  BY DEF ClientTeam
<1>2. ASSUME c \in C PROVE \A i \in 1 .. 5 : TeamFrom(options[i], C)
  <2>1. /\ TeamFrom(OwnTeam(c), C) /\ TeamFrom(UniqueTeam("salesTeam", c), C)
        /\ TeamFrom(UniqueTeam("called", c), C) /\ TeamFrom(RepTeam(c), C)
    BY <1>2, KindsKnown, OwnTeamsFrom
  <2>2. TeamFrom(At(g, above), C) /\ TeamFrom(Nil, C)
    BY <1>2, TakenTeams DEF TeamFrom
  <2>3. TeamFrom(IF above = c THEN Nil ELSE At(g, above), C)
    <3> HIDE DEF above
    <3> QED
      BY <2>2
  <2> HIDE DEF above
  <2> QED
    BY <2>1, <2>3
<1> HIDE DEF options
<1>3. c \in C => TeamFrom(FirstKnown(options), C)
  BY <1>1, <1>2, FirstTeamFrom
<1> QED
  BY <1>1, <1>3 DEF TeamsFrom

LEMMA ClientTeamsFrom ==
  ASSUME FactsOK
  PROVE  /\ ClientTeams \in [Records -> Values]
         /\ \A C : Closed(C) => TeamsFrom(ClientTeams, C)
<1>1. PICK h \in [SUBSET Accounts -> [Records -> Values]] :
        /\ h[{}] = NoneYet /\ h[Accounts] = ClientTeams
        /\ \A s \in (SUBSET Accounts) \ {{}} : h[s] = ClientTeam(Latest(s), h[s \ {Latest(s)}])
  BY ClientTeamSteps
<1>2. ASSUME NEW C, Closed(C) PROVE TeamsFrom(h[Accounts], C)
  <2> DEFINE P == {s \in SUBSET Accounts : TeamsFrom(h[s], C)}
  <2>1. {} \in P
    BY <1>1, <1>2 DEF NoneYet, TeamsFrom, TeamFrom
  <2>2. ASSUME NEW s \in (SUBSET Accounts) \ {{}}, \A x \in s : s \ {x} \in P
        PROVE  s \in P
    <3>1. Latest(s) \in s
      BY LatestIn
    <3>2. TeamsFrom(h[s \ {Latest(s)}], C) /\ h[s \ {Latest(s)}] \in [Records -> Values]
      BY <2>2, <3>1
    <3>3. TeamsFrom(ClientTeam(Latest(s), h[s \ {Latest(s)}]), C)
      BY <1>2, <3>1, <3>2, ClientTeamFrom
    <3> QED
      BY <1>1, <3>3
  <2>3. P = SUBSET Accounts
    <3> HIDE DEF P
    <3>1. P \in SUBSET (SUBSET Accounts) /\ IsFiniteSet(Accounts)
      BY KindsKnown DEF P
    <3> QED
      BY <2>1, <2>2, <3>1, BySize
  <2> QED
    BY <2>3
<1> QED
  BY <1>1, <1>2

\* Clients keep what they have when contracts and contacts get theirs.
LEMMA TeamsOfClients == \A c \in Accounts : Teams[c] = ClientTeams[c]
BY KindsKnown DEF Teams, PersonTeams, DealTeams, Fill

LEMMA AllTeamsFrom ==
  ASSUME FactsOK, NEW C, Closed(C)
  PROVE  TeamsFrom(Teams, C)
<1> DEFINE g == ClientTeams
           deals == DealTeams(g)
<1>1. TeamsFrom(g, C)
  BY ClientTeamsFrom
<1>2. TeamsFrom(deals, C)
  <2>1. ASSUME NEW k \in C \cap Deals PROVE TeamFrom(ContractTeam(k, g), C)
    <3> DEFINE options == <<OwnTeam(k), At(g, The("advertiser", k)), At(g, The("agency", k)),
                            UniqueTeam("salesTeam", k), UniqueTeam("sold", k),
                            UniqueTeam("airs", k), RepTeam(k)>>
    <3> HIDE DEF g
    <3>1. /\ TeamFrom(OwnTeam(k), C) /\ TeamFrom(UniqueTeam("salesTeam", k), C)
          /\ TeamFrom(UniqueTeam("sold", k), C) /\ TeamFrom(UniqueTeam("airs", k), C)
          /\ TeamFrom(RepTeam(k), C)
      BY KindsKnown, OwnTeamsFrom
    <3>2. TeamFrom(At(g, The("advertiser", k)), C) /\ TeamFrom(At(g, The("agency", k)), C)
      BY <1>1, TakenTeams
    <3>3. \A i \in 1 .. 7 : TeamFrom(options[i], C)
      BY <3>1, <3>2
    <3>4. ContractTeam(k, g) = FirstKnown(options) /\ DOMAIN options = 1 .. 7
      BY DEF ContractTeam
    <3> HIDE DEF options
    <3> QED
      BY <3>3, <3>4, FirstTeamFrom
  <2>2. \A r \in C \cap Records : deals[r] = (IF r \in Deals THEN ContractTeam(r, g) ELSE g[r])
    BY DEF DealTeams, Fill
  <2> HIDE DEF deals, g
  <2> QED
    BY <1>1, <2>1, <2>2 DEF TeamsFrom
<1>3. ASSUME NEW p \in C \cap Persons PROVE TeamFrom(ContactTeam(p, deals), C)
  <2> HIDE DEF deals
  <2> DEFINE c == The("worksFor", p)
             options == <<OwnTeam(p), At(deals, c),
                          TheOne({deals[k] : k \in Related(c)} \ {Nil})>>
  <2>1. TeamFrom(OwnTeam(p), C)
    BY KindsKnown, OwnTeamsFrom
  <2>2. /\ TeamFrom(At(deals, c), C)
        /\ TeamFrom(TheOne({deals[k] : k \in Related(c)} \ {Nil}), C)
    BY <1>2, TakenTeams
  <2>3. \A i \in 1 .. 3 : TeamFrom(options[i], C)
    <3> HIDE DEF c
    <3> QED
      BY <2>1, <2>2
  <2>4. ContactTeam(p, deals) = FirstKnown(options) /\ DOMAIN options = 1 .. 3
    BY DEF ContactTeam
  <2> HIDE DEF options
  <2> QED
    BY <2>3, <2>4, FirstTeamFrom
<1>4. \A r \in C \cap Records : Teams[r] = (IF r \in Persons THEN ContactTeam(r, deals) ELSE deals[r])
  BY DEF Teams, PersonTeams, Fill
<1> HIDE DEF deals
<1> QED
  BY <1>2, <1>3, <1>4 DEF TeamsFrom

\* A client without a word of its own has the team above it, if that one has
\* had its turn before.
LEMMA TeamAbove ==
  ASSUME FactsOK, NEW c \in Accounts, NEW above \in Accounts,
         above = The("account", c), ParentFirst(above, c), OwnTeam(c) = Nil,
         ClientTeams[above] # Nil
  PROVE  ClientTeams[c] = ClientTeams[above]
<1>s. ~ParentFirst(c, above)
  <2>1. c[2] \in Nat /\ above[2] \in Nat
    BY KindsKnown
  <2> QED
    BY <2>1 DEF ParentFirst
<1>1. above # c
  BY <1>s
<1>2. PICK h \in [SUBSET Accounts -> [Records -> Values]] :
        /\ h[{}] = NoneYet /\ h[Accounts] = ClientTeams
        /\ \A s \in (SUBSET Accounts) \ {{}} : h[s] = ClientTeam(Latest(s), h[s \ {Latest(s)}])
  BY ClientTeamSteps
<1> DEFINE P == {s \in SUBSET Accounts :
                   c \in s /\ above \in s /\ h[s][above] # Nil => h[s][c] = h[s][above]}
<1>3. {} \in P
  OBVIOUS
<1>4. ASSUME NEW s \in (SUBSET Accounts) \ {{}}, \A x \in s : s \ {x} \in P
      PROVE  s \in P
  <2> DEFINE x == Latest(s)
             g == h[s \ {x}]
  <2>1. x \in s /\ \A d \in s \ {x} : ParentFirst(d, x)
    BY LatestIn
  <2>2. g \in [Records -> Values] /\ h[s] = ClientTeam(x, g) /\ s \ {x} \in P
    BY <1>2, <1>4, <2>1
  <2>3. c \in Records /\ above \in Records /\ x \in Records
    BY <1>1, <2>1, KindsKnown
  <2> HIDE DEF x, g
  <2>4. \A r \in Records : r # x => h[s][r] = g[r]
    BY <2>2 DEF ClientTeam
  <2>5. ASSUME c \in s, above \in s, h[s][above] # Nil PROVE h[s][c] = h[s][above]
    <3>1. CASE x = c
      <4> DEFINE options == <<OwnTeam(c), At(g, above), UniqueTeam("salesTeam", c),
                              UniqueTeam("called", c), RepTeam(c)>>
      <4>1. h[s][above] = g[above] /\ g[above] # Nil
        BY <1>1, <2>3, <2>4, <2>5, <3>1
      <4>2. options[1] = Nil /\ options[2] = g[above] /\ DOMAIN options = 1 .. 5
        BY <1>1 DEF At
      <4>3. h[s][c] = FirstKnown(options)
        BY <1>1, <2>2, <2>3, <3>1 DEF ClientTeam
      <4> HIDE DEF options
      <4>4. FirstKnown(options) = options[2]
        <5>1. \A n \in Nat : DOMAIN options = 1 .. n /\ n >= 2 /\ options[1] = Nil /\ options[2] # Nil =>
                FirstKnown(options) = options[2]
          BY FirstKnownIs
        <5>2. 5 \in Nat /\ 5 >= 2
          OBVIOUS
        <5> QED
          BY <4>1, <4>2, <5>1, <5>2
      <4> QED
        BY <4>1, <4>2, <4>3, <4>4
    <3>2. CASE x = above
      <4>1. ParentFirst(c, above)
        BY <1>1, <2>1, <2>5, <3>2
      <4> QED
        BY <1>s, <4>1
    <3>3. CASE x # c /\ x # above
      <4>1. h[s][c] = g[c] /\ h[s][above] = g[above]
        BY <2>3, <2>4, <3>3
      <4>2. g[above] # Nil => g[c] = g[above]
        BY <2>2, <2>5, <3>3 DEF g
      <4> QED
        BY <2>5, <4>1, <4>2
    <3> QED
      BY <3>1, <3>2, <3>3
  <2> QED
    BY <2>5
<1>5. P = SUBSET Accounts
  <2> HIDE DEF P
  <2>1. P \in SUBSET (SUBSET Accounts) /\ IsFiniteSet(Accounts)
    BY KindsKnown DEF P
  <2> QED
    BY <1>3, <1>4, <2>1, BySize
<1>6. ClientTeams[above] # Nil => ClientTeams[c] = ClientTeams[above]
  BY <1>1, <1>2, <1>5
<1> QED
  BY <1>6

\* Owners likewise: a rep's of C, or that of the team a record of C has.
HolderFrom(v, teams, C) ==
    v # Nil => \E d \in C \cap Records : v \in {RepOwner(d), TheTeamsOwner(teams[d])}
HoldersFrom(g, teams, C) == \A r \in C \cap Records : HolderFrom(g[r], teams, C)

LEMMA FirstHolderFrom ==
  ASSUME NEW C, NEW teams, NEW n \in Nat, NEW options, DOMAIN options = 1 .. n,
         \A i \in 1 .. n : HolderFrom(options[i], teams, C)
  PROVE  HolderFrom(FirstKnown(options), teams, C)
<1>1. HolderFrom(Nil, teams, C)
  BY DEF HolderFrom
<1>2. FirstKnown(options) = Nil \/ \E i \in 1 .. n : FirstKnown(options) = options[i]
  BY FirstKnownIs
<1> QED
  BY <1>1, <1>2

\* What a record of C takes from another of C, or from the only owner of the
\* contracts it has.
LEMMA TakenHolders ==
  ASSUME FactsOK, NEW C, Closed(C), NEW teams, NEW g, HoldersFrom(g, teams, C),
         NEW r \in C \cap Records
  PROVE  /\ \A x : x = Nil \/ x \in C => HolderFrom(OwnerFrom(g, r, x, teams[r]), teams, C)
         /\ HolderFrom(TheOne({g[d] : d \in Related(r)} \ {Nil}), teams, C)
<1>1. ASSUME NEW x, x = Nil \/ x \in C PROVE HolderFrom(OwnerFrom(g, r, x, teams[r]), teams, C)
  <2>1. HolderFrom(Nil, teams, C) /\ HolderFrom(RepOwner(r), teams, C)
        /\ HolderFrom(TheTeamsOwner(teams[r]), teams, C)
    BY DEF HolderFrom
  <2>2. HolderFrom(At(g, x), teams, C)
    BY <1>1, <2>1, KindsKnown DEF At, HoldersFrom
  <2> QED
    BY <2>1, <2>2, OwnerFromIs
<1>2. HolderFrom(TheOne({g[d] : d \in Related(r)} \ {Nil}), teams, C)
  <2> DEFINE owner1 == TheOne({g[d] : d \in Related(r)} \ {Nil})
  <2>1. owner1 = Nil \/ owner1 \in {g[d] : d \in Related(r)}
    BY OneOf
  <2>2. Related(r) \subseteq C \cap Records
    BY RelatedLink, KindsKnown
  <2> HIDE DEF owner1
  <2>3. HolderFrom(owner1, teams, C)
    BY <2>1, <2>2 DEF HolderFrom, HoldersFrom
  <2> QED
    BY <2>3 DEF owner1
<1> QED
  BY <1>1, <1>2

LEMMA ClientOwnersFrom ==
  ASSUME FactsOK, NEW C, Closed(C), NEW teams
  PROVE  HoldersFrom(ClientOwners(teams), teams, C)
<1>1. PICK h \in [SUBSET Accounts -> [Records -> Holders]] :
        /\ h[{}] = NoneYet /\ h[Accounts] = ClientOwners(teams)
        /\ \A s \in (SUBSET Accounts) \ {{}} :
             h[s] = ClientOwner(teams, Latest(s), h[s \ {Latest(s)}])
  BY ClientOwnerSteps
<1> DEFINE P == {s \in SUBSET Accounts : HoldersFrom(h[s], teams, C)}
<1>2. {} \in P
  BY <1>1 DEF NoneYet, HoldersFrom, HolderFrom
<1>3. ASSUME NEW s \in (SUBSET Accounts) \ {{}}, \A x \in s : s \ {x} \in P
      PROVE  s \in P
  <2> DEFINE c == Latest(s)
             g == h[s \ {c}]
             parent == IF IsRoot(c) THEN Nil ELSE The("account", c)
  <2>1. c \in s
    BY LatestIn
  <2>2. HoldersFrom(g, teams, C) /\ g \in [Records -> Holders]
    BY <1>3, <2>1
  <2>3. h[s] = [g EXCEPT ![c] = OwnerFrom(g, c, parent, teams[c])]
    BY <1>1 DEF ClientOwner
  <2> HIDE DEF c, g
  <2>4. ASSUME c \in C PROVE HolderFrom(OwnerFrom(g, c, parent, teams[c]), teams, C)
    <3>1. parent = Nil \/ parent \in C
      BY <2>4, NamesLink
    <3>2. c \in C \cap Records
      BY <2>1, <2>4, KindsKnown
    <3> HIDE DEF parent
    <3> QED
      BY <2>2, <3>1, <3>2, TakenHolders
  <2> HIDE DEF parent
  <2>5. HoldersFrom(h[s], teams, C)
    BY <2>2, <2>3, <2>4 DEF HoldersFrom
  <2> QED
    BY <2>5
<1>4. P = SUBSET Accounts
  <2> HIDE DEF P
  <2>1. P \in SUBSET (SUBSET Accounts) /\ IsFiniteSet(Accounts)
    BY KindsKnown DEF P
  <2> QED
    BY <1>2, <1>3, <2>1, BySize
<1> QED
  BY <1>1, <1>4

LEMMA AllHoldersFrom ==
  ASSUME FactsOK, NEW C, Closed(C), NEW teams
  PROVE  HoldersFrom(Owners(teams), teams, C)
<1> DEFINE g == ClientOwners(teams)
           deals == DealOwners(g, teams)
           again == Backfilled(deals)
<1>k. Deals \subseteq Records /\ Persons \subseteq Records
  BY KindsKnown
<1>1. HoldersFrom(g, teams, C)
  BY ClientOwnersFrom
<1>2. HoldersFrom(deals, teams, C)
  <2> DEFINE parent(k) == FirstKnown(<<Known(The("advertiser", k)), Known(The("agency", k))>>)
  <2>1. ASSUME NEW k \in C \cap Deals
        PROVE  HolderFrom(OwnerFrom(g, k, parent(k), teams[k]), teams, C)
    <3> DEFINE options == <<Known(The("advertiser", k)), Known(The("agency", k))>>
    <3> HIDE DEF g
    <3>1. (The("advertiser", k) = Nil \/ The("advertiser", k) \in C)
          /\ (The("agency", k) = Nil \/ The("agency", k) \in C)
      BY NamesLink
    <3>2. DOMAIN options = 1 .. 2 /\ \A i \in 1 .. 2 : options[i] = Nil \/ options[i] \in C
      BY <3>1 DEF Known
    <3>3. parent(k) = FirstKnown(options)
      OBVIOUS
    <3> HIDE DEF options, parent
    <3>4. parent(k) = Nil \/ parent(k) \in C
      BY <3>2, <3>3, FirstKnownIs
    <3> QED
      BY <1>1, <1>k, <3>4, TakenHolders
  <2>2. \A r \in C \cap Records : deals[r] = (IF r \in Deals THEN OwnerFrom(g, r, parent(r), teams[r]) ELSE g[r])
    BY DEF DealOwners, Fill
  <2> HIDE DEF deals, g, parent
  <2> QED
    BY <1>1, <2>1, <2>2 DEF HoldersFrom
<1>3. HoldersFrom(again, teams, C)
  <2> HIDE DEF deals
  <2> DEFINE one(c) == TheOne({deals[k] : k \in Related(c)} \ {Nil})
             value(c) == FirstKnown(<<deals[c], one(c)>>)
  <2>1. ASSUME NEW c \in C \cap Records PROVE HolderFrom(value(c), teams, C)
    <3> DEFINE options == <<deals[c], one(c)>>
    <3>1. HolderFrom(deals[c], teams, C) /\ HolderFrom(one(c), teams, C)
      BY <1>2, TakenHolders DEF HoldersFrom
    <3> HIDE DEF one
    <3>2. DOMAIN options = 1 .. 2 /\ \A i \in 1 .. 2 : HolderFrom(options[i], teams, C)
      BY <3>1
    <3>3. value(c) = FirstKnown(options)
      OBVIOUS
    <3> HIDE DEF options, value
    <3> QED
      BY <3>2, <3>3, FirstHolderFrom
  <2>2. \A r \in C \cap Records : again[r] = (IF r \in Accounts THEN value(r) ELSE deals[r])
    BY DEF Backfilled, Fill
  <2> HIDE DEF again, value
  <2> QED
    BY <1>2, <2>1, <2>2 DEF HoldersFrom
<1>4. ASSUME NEW p \in C \cap Persons
      PROVE  HolderFrom(OwnerFrom(again, p, The("worksFor", p), teams[p]), teams, C)
  <2> HIDE DEF again
  <2>1. The("worksFor", p) = Nil \/ The("worksFor", p) \in C
    BY NamesLink
  <2> QED
    BY <1>3, <1>k, <2>1, TakenHolders
<1>5. \A r \in C \cap Records : Owners(teams)[r] =
        (IF r \in Persons THEN OwnerFrom(again, r, The("worksFor", r), teams[r]) ELSE again[r])
  BY DEF Owners, PersonOwners, Fill
<1> HIDE DEF again
<1> QED
  BY <1>3, <1>4, <1>5 DEF HoldersFrom

\* What a sync has assigned: within closed sets of records, and clients with
\* the account above them.
WithAbove(t) ==
    \A c, above \in Accounts :
        /\ above = The("account", c) /\ ParentFirst(above, c)
        /\ OwnTeam(c) = Nil /\ t[above] # Nil
        => t[c] = t[above]

Assigned(t, o) ==
    /\ WithAbove(t)
    /\ \A C \in SUBSET Nodes : Closed(C) => TeamsFrom(t, C) /\ HoldersFrom(o, t, C)

LEMMA AssignsSo == FactsOK => Assigned(Teams, Owners(Teams))
<1> SUFFICES ASSUME FactsOK PROVE Assigned(Teams, Owners(Teams))
  OBVIOUS
<1>1. WithAbove(Teams)
  BY TeamsOfClients, TeamAbove DEF WithAbove
<1>2. \A C \in SUBSET Nodes : Closed(C) =>
        TeamsFrom(Teams, C) /\ HoldersFrom(Owners(Teams), Teams, C)
  BY AllTeamsFrom, AllHoldersFrom
<1> QED
  BY <1>1, <1>2 DEF Assigned

\* A family is such a set.
LEMMA AssignedHolds == FactsOK /\ Assigned(team, owner) => FamiliesHold
<1> SUFFICES ASSUME FactsOK, Assigned(team, owner) PROVE FamiliesHold
  OBVIOUS
<1>1. ASSUME NEW r \in Records
      PROVE  /\ team[r] # Nil => \E d \in Family(r) \cap Records : Gives(d, team[r])
             /\ owner[r] # Nil =>
                  \E d \in Family(r) \cap Records : owner[r] \in {RepOwner(d), TheTeamsOwner(team[d])}
  <2>1. Closed(Family(r)) /\ r \in Family(r)
    BY FamilyClosed
  <2>2. Family(r) \in SUBSET Nodes
    BY <2>1 DEF Closed
  <2>3. TeamsFrom(team, Family(r)) /\ HoldersFrom(owner, team, Family(r))
    BY <2>1, <2>2 DEF Assigned
  <2> QED
    BY <2>1, <2>3 DEF TeamsFrom, TeamFrom, HoldersFrom, HolderFrom
<1> QED
  BY <1>1 DEF FamiliesHold, Assigned, WithAbove

TeamInv ==
    /\ FactsOK /\ TeamTypeOK
    /\ phase = "assigned" => Assigned(team, owner)

LEMMA TeamInitInv == TeamInit => TeamInv
<1> SUFFICES ASSUME TeamInit PROVE TeamInv
  OBVIOUS
<1>1. FactsOK
  BY TeamAssumption, FS_EmptySet DEF TeamInit, FactsOK
<1>2. TeamTypeOK
  BY DEF TeamInit, TeamTypeOK, NoneYet
<1> QED
  BY <1>1, <1>2 DEF TeamInit, TeamInv

\* The same catalog says the same of the same teams and owners.
LEMMA AssignedStays ==
  ASSUME facts' = facts, NEW t, NEW o, Assigned(t, o), team' = t, owner' = o
  PROVE  Assigned(team, owner)'
<1>1. \A k, r : All(k, r)' = All(k, r)
  BY DEF All
<1>2. \A k, r : The(k, r)' = The(k, r)
  BY <1>1 DEF The
<1>3. \A r : /\ OwnTeam(r)' = OwnTeam(r) /\ RepTeam(r)' = RepTeam(r)
             /\ RepOwner(r)' = RepOwner(r) /\ (IsRoot(r)' <=> IsRoot(r))
  BY <1>2 DEF OwnTeam, RepTeam, RepOwner, IsRoot
<1>p. \A c, d : ParentFirst(c, d)' <=> ParentFirst(c, d)
  BY <1>3 DEF ParentFirst
<1>4. \A d, v : Gives(d, v)' <=> Gives(d, v)
  BY <1>1, <1>3 DEF Gives
<1>5. \A C : Closed(C)' <=> Closed(C)
  BY DEF Closed, Touching, Links
<1>6. WithAbove(team)'
  BY <1>2, <1>3, <1>p DEF Assigned, WithAbove
<1>7. \A C \in SUBSET Nodes : Closed(C)' => TeamsFrom(team, C)'
  BY <1>4, <1>5 DEF Assigned, TeamsFrom, TeamFrom
<1>8. \A C \in SUBSET Nodes : Closed(C)' => HoldersFrom(owner, team, C)'
  <2>1. \A C \in SUBSET Nodes : Closed(C)' => HoldersFrom(o, t, C)
    BY <1>5 DEF Assigned
  <2> QED
    BY <1>3, <2>1 DEF HoldersFrom, HolderFrom
<1> QED
  BY <1>6, <1>7, <1>8 DEF Assigned

LEMMA TeamNextInv == TeamInv /\ [TeamNext]_teamVars => TeamInv'
<1> SUFFICES ASSUME TeamInv, [TeamNext]_teamVars PROVE TeamInv'
  OBVIOUS
<1> USE DEF TeamInv
<1>1. ASSUME NEW f \in CatalogFacts, Enter(f) PROVE TeamInv'
  <2>1. IsFiniteSet(facts) /\ Cardinality(facts) \in Nat /\ facts \subseteq CatalogFacts
    BY FS_CardinalityType DEF FactsOK
  <2>2. facts' = facts \cup {f} /\ Cardinality(facts) < MaxFacts /\ f \notin facts
    BY <1>1 DEF Enter
  <2>3. IsFiniteSet(facts') /\ Cardinality(facts') = Cardinality(facts) + 1
    BY <2>1, <2>2, FS_AddElement
  <2>4. FactsOK'
    BY <2>1, <2>2, <2>3, TeamAssumption DEF FactsOK
  <2> QED
    BY <1>1, <2>1, <2>2, <2>4 DEF Enter, TeamTypeOK
<1>2. CASE AssignTeams
  <2>1. facts' = facts /\ team' = Teams /\ owner' = Owners(Teams) /\ phase' = "assigned"
    BY <1>2 DEF AssignTeams
  <2>2. Assigned(Teams, Owners(Teams))
    BY AssignsSo
  <2>3. Assigned(team, owner)'
    BY <2>1, <2>2, AssignedStays
  <2>4. FactsOK'
    BY <2>1 DEF FactsOK
  <2>5. DOMAIN team' = Records /\ DOMAIN owner' = Records
    BY <2>1 DEF Teams, PersonTeams, Owners, PersonOwners, Fill
  <2>6. TeamTypeOK'
    BY <2>1, <2>5 DEF TeamTypeOK
  <2> QED
    BY <2>3, <2>4, <2>6
<1>3. CASE UNCHANGED teamVars
  <2>1. facts' = facts /\ team' = team /\ owner' = owner /\ phase' = phase
    BY <1>3 DEF teamVars
  <2>2. phase = "assigned" => Assigned(team, owner)'
    BY <2>1, AssignedStays
  <2> QED
    BY <2>1, <2>2 DEF FactsOK, TeamTypeOK
<1> QED
  BY <1>1, <1>2, <1>3 DEF TeamNext

LEMMA TeamHolds == TeamSpec => []TeamInv
BY TeamInitInv, TeamNextInv, PTL DEF TeamSpec

\* Teams and owners keep to their types in any catalog.
THEOREM TeamTypeCorrect == TeamSpec => []TeamTypeOK
<1>1. TeamInv => TeamTypeOK
  BY DEF TeamInv
<1> QED
  BY <1>1, TeamHolds, PTL

\* In a catalog of any size no record gets its team or owner from a record
\* that nothing connects it with, and a client that says nothing goes with the
\* account above it if that one has its turn first: when it names no account
\* itself, or, of two that do, has the lower id.
THEOREM FamiliesStayTogether == TeamSpec => []FamiliesHold
<1>1. TeamInv => FamiliesHold
  <2>1. CASE phase = "assigned"
    BY <2>1, AssignedHolds DEF TeamInv
  <2>2. CASE phase # "assigned"
    BY <2>2 DEF FamiliesHold
  <2> QED
    BY <2>1, <2>2
<1> QED
  BY <1>1, TeamHolds, PTL

-----------------------------------------------------------------------------
(* Together.                                                               *)

\* The run of all four is a run of each: what is proved of a component holds
\* where TLC checks it.
THEOREM IntakeIsItsParts == AllSpec => MatchSpec /\ IntakeSpec /\ PlanSpec /\ TeamSpec
<1>1. IntakeInits => MatchInit /\ IntakeInit /\ PlanInit /\ TeamInit
  BY DEF IntakeInits
<1>2. [AllNext]_allVars =>
        /\ [MatchNext]_matchVars /\ [IntakeNext]_intakeVars
        /\ [PlanNext]_planVars /\ [TeamNext]_teamVars
  BY DEF AllNext, allVars, RunMatching, RunWebhooks, RunSwitch, RunTeams
<1> QED
  BY <1>1, <1>2, PTL DEF AllSpec, MatchSpec, IntakeSpec, PlanSpec, TeamSpec

\* Every state of that run is well typed.
THEOREM AllTypeCorrect == AllSpec => []AllTypeOK
<1>1. MatchTypeOK /\ IntakeTypeOK /\ PlanTypeOK /\ TeamTypeOK => AllTypeOK
  BY DEF AllTypeOK
<1> QED
  BY <1>1, IntakeIsItsParts, MatchTypeCorrect, IntakeTypeCorrect, PlanTypeCorrect, TeamTypeCorrect, PTL

\* All that the run checks of safety holds of all four for every value of the
\* constants.
THEOREM IntakeIsSafe ==
  AllSpec =>
    /\ []FirstRuleDecides /\ SyncRespectsPeople
    /\ []AnsweredIsServed /\ []ResendsAreHarmless
    /\ []FamiliesHold
BY IntakeIsItsParts, FirstRuleAlwaysDecides, PeopleAreRespected, AnsweredServed, ResendsHarmless,
   FamiliesStayTogether, PTL

=============================================================================
