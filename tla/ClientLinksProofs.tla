-------------------------- MODULE ClientLinksProofs --------------------------
(***************************************************************************)
(* Theorems about ClientLinks, for every number of leads, clients, faults  *)
(* and rearmings, and whatever the pull reads of unlinked companies: type  *)
(* correctness, that the create gate read while planning still holds when  *)
(* the requests go out, which clients get no second company, and what      *)
(* every client created beyond the first of a lead is paid for with.       *)
(***************************************************************************)
EXTENDS ClientLinks, FiniteSetTheorems, TLAPS

\* Every variable keeps its type, whatever fails and whatever humans do
\* between two requests of a sync.
THEOREM TypeCorrect == Spec => []TypeOK
<1>1. Init => TypeOK
  BY LeadsAssumption DEF Init, TypeOK
<1>2. TypeOK /\ [Next]_vars => TypeOK'
  <2> SUFFICES ASSUME TypeOK, [Next]_vars PROVE TypeOK'
    OBVIOUS
  <2> USE LeadsAssumption, BoundsAssumption, FetchedAssumption
  <2>0. NoClient \notin Client /\ \A a \in Client : a # NoClient
    BY DEF Client, NoClient
  <2>1. ASSUME NEW h \in Leads, NEW a \in Client, StaffEnters(h, a) PROVE TypeOK'
    BY <2>1 DEF StaffEnters, TypeOK, rows, plan, item, history
  <2>2. ASSUME NEW h \in Leads, Approve(h) PROVE TypeOK'
    BY <2>2 DEF Approve, TypeOK, rows, plan, item, history
  <2>3. ASSUME NEW h \in Leads, NEW a \in Client, LinkByHand(h, a) PROVE TypeOK'
    BY <2>3 DEF LinkByHand, TypeOK, rows, plan, item, history
  <2>4. ASSUME NEW h \in Leads, Rearm(h) PROVE TypeOK'
    BY <2>4 DEF Rearm, TypeOK, world, plan, item
  <2>5. ASSUME NEW h \in Leads, HoldRow(h) PROVE TypeOK'
    BY <2>5 DEF HoldRow, TypeOK, world, plan, item, history
  <2>6. CASE StartSync
    <3>1. /\ toLink' \subseteq Client /\ toMake' \subseteq Client /\ blind' \subseteq Client
          /\ toCreate' \subseteq Leads /\ faulted' \subseteq FaultKinds
      BY <2>6 DEF StartSync, Plan, Matched, Offered, Unlinked, Born, Fault, TypeOK
    <3> QED
      BY <2>6, <3>1 DEF StartSync, Begin, TypeOK, world, rows, item, history
  <2>7. ASSUME NEW h \in Leads, StartRetry(h) PROVE TypeOK'
    <3>1. rowAid[h] \in Client
      BY <2>7 DEF StartRetry, TypeOK
    <3>2. /\ toLink' \subseteq Client /\ toMake' \subseteq Client /\ blind' \subseteq Client
          /\ toCreate' \subseteq Leads
      BY <2>7, <3>1 DEF StartRetry, Plan, Matched, TypeOK
    <3> QED
      BY <2>7, <3>2 DEF StartRetry, Begin, TypeOK, world, rows, item, history
  <2>8. ASSUME NEW a \in Client, ApplyLink(a) PROVE TypeOK'
    BY <2>8 DEF ApplyLink, Fault, TypeOK, rows, item, history
  <2>9. ASSUME NEW a \in Client, ApplyMake(a) PROVE TypeOK'
    BY <2>9 DEF ApplyMake, Fault, TypeOK, rows, item, history
  <2>10. CASE CompaniesDone
    BY <2>10 DEF CompaniesDone, TypeOK, world, rows, plan, item, history
  <2>11. ASSUME NEW h \in Leads, Post(h) PROVE TypeOK'
    <3>1. /\ origin' \in [Client -> Leads \cup {NoLead}]
          /\ named' \subseteq Client /\ bySync' \subseteq Client
          /\ got' \in Client \cup {NoClient} /\ faulted' \subseteq FaultKinds
          /\ pc' \in {"finish", "again"} /\ (pc' = "finish" => got' # NoClient)
      BY <2>0, <2>11 DEF Post, Commit, Fault, TypeOK
    <3> QED
      BY <2>11, <3>1 DEF Post, TypeOK, rows
  <2>12. CASE PostAgain
    <3>1. /\ origin' \in [Client -> Leads \cup {NoLead}]
          /\ named' \subseteq Client /\ bySync' \subseteq Client
          /\ got' \in Client \cup {NoClient} /\ faulted' \subseteq FaultKinds
          /\ pc' \in {"finish", "failed"} /\ (pc' = "finish" => got' # NoClient)
      BY <2>0, <2>12 DEF PostAgain, Commit, Fault, TypeOK
    <3> QED
      BY <2>12, <3>1 DEF PostAgain, TypeOK, rows, plan
  <2>13. CASE Finish
    BY <2>13 DEF Finish, Fault, TypeOK, rows, plan, history
  <2>14. CASE Patch
    BY <2>14 DEF Patch, NextItem, Fault, TypeOK, rows, plan, item, history
  <2>15. CASE Record
    BY <2>15 DEF Record, NextItem, Fault, TypeOK, world, rows, plan, history
  <2>16. CASE EndSync
    BY <2>16 DEF EndSync, TypeOK, world, plan, item, history
  <2>17. CASE Crash
    BY <2>17 DEF Crash, Fault, TypeOK, world, rows, history
  <2>18. CASE UNCHANGED vars
    BY <2>18 DEF vars, TypeOK, world, rows, plan, item, history
  <2> QED
    BY <2>1, <2>2, <2>3, <2>4, <2>5, <2>6, <2>7, <2>8, <2>9, <2>10, <2>11, <2>12,
       <2>13, <2>14, <2>15, <2>16, <2>17, <2>18 DEF Next, Start, Work, Human
<1> QED
  BY <1>1, <1>2, PTL DEF Spec

-----------------------------------------------------------------------------
(* The gate.  A lead being created is no longer planned, so recording its  *)
(* failure gates no lead that is.                                          *)

GateInv ==
    /\ cur \notin toCreate
    /\ pc \in {"idle", "companies"} => cur = NoLead
    /\ GateHolds

LEMMA GateInvariant == Spec => []GateInv
<1>1. Init => GateInv
  BY DEF Init, GateInv, GateHolds
<1>2. TypeOK /\ GateInv /\ [Next]_vars => GateInv'
  <2> SUFFICES ASSUME TypeOK, GateInv, [Next]_vars PROVE GateInv'
    OBVIOUS
  <2> USE LeadsAssumption DEF GateInv, GateHolds, Gated, Pending
  <2>1. ASSUME NEW h \in Leads, NEW a \in Client, StaffEnters(h, a) PROVE GateInv'
    BY <2>1 DEF StaffEnters, rows, plan, item
  <2>2. ASSUME NEW h \in Leads, Approve(h) PROVE GateInv'
    BY <2>2 DEF Approve, rows, plan, item
  <2>3. ASSUME NEW h \in Leads, NEW a \in Client, LinkByHand(h, a) PROVE GateInv'
    BY <2>3 DEF LinkByHand, rows, plan, item
  <2>4. ASSUME NEW h \in Leads, Rearm(h) PROVE GateInv'
    <3>1. \A x \in Leads : row'[x] \in {row[x], "resolved"}
      BY <2>4 DEF Rearm, TypeOK
    <3>2. \A x \in Leads : Gated(x)' => Gated(x)
      BY <2>4, <3>1 DEF Rearm, TypeOK
    <3> QED
      BY <2>4, <3>2 DEF Rearm, plan, item, TypeOK
  <2>5. ASSUME NEW h \in Leads, HoldRow(h) PROVE GateInv'
    <3>1. \A x \in Leads : Gated(x)' => Gated(x)
      BY <2>5 DEF HoldRow, TypeOK
    <3> QED
      BY <2>5, <3>1 DEF HoldRow, plan, item, TypeOK
  <2>6. CASE StartSync
    <3>1. toCreate' \subseteq Leads
      BY <2>6 DEF StartSync, Offered, Unlinked
    <3>2. "gate" \notin faulted' => \A h \in toCreate' : ~Gated(h)
      BY <2>6 DEF StartSync, Offered, Unlinked, Fault
    <3> QED
      BY <2>6, <3>1, <3>2 DEF StartSync, Begin, rows, item
  <2>7. ASSUME NEW h \in Leads, StartRetry(h) PROVE GateInv'
    BY <2>7 DEF StartRetry, Begin, rows, item
  <2>8. ASSUME NEW a \in Client, ApplyLink(a) PROVE GateInv'
    BY <2>8 DEF ApplyLink, Fault, rows, item
  <2>9. ASSUME NEW a \in Client, ApplyMake(a) PROVE GateInv'
    BY <2>9 DEF ApplyMake, Fault, rows, item
  <2>10. CASE CompaniesDone
    BY <2>10 DEF CompaniesDone, rows, plan, item
  <2>11. ASSUME NEW h \in Leads, Post(h) PROVE GateInv'
    BY <2>11 DEF Post, Fault, rows
  <2>12. CASE PostAgain
    BY <2>12 DEF PostAgain, Fault, rows, plan
  <2>13. CASE Finish
    BY <2>13 DEF Finish, Fault, rows, plan
  <2>14. CASE Patch
    BY <2>14 DEF Patch, NextItem, Fault, rows, plan, item, TypeOK
  <2>15. CASE Record
    <3>1. \A x \in toCreate : row'[x] = row[x] /\ rowAid'[x] = rowAid[x]
      BY <2>15 DEF Record, rows, TypeOK
    <3> QED
      BY <2>15, <3>1 DEF Record, NextItem, Fault, plan, TypeOK
  <2>16. CASE EndSync
    BY <2>16 DEF EndSync, plan, item, TypeOK
  <2>17. CASE Crash
    BY <2>17 DEF Crash, Fault
  <2>18. CASE UNCHANGED vars
    BY <2>18 DEF vars, rows, plan, item
  <2> QED
    BY <2>1, <2>2, <2>3, <2>4, <2>5, <2>6, <2>7, <2>8, <2>9, <2>10, <2>11, <2>12,
       <2>13, <2>14, <2>15, <2>16, <2>17, <2>18 DEF Next, Start, Work, Human
<1> QED
  BY <1>1, <1>2, TypeCorrect, PTL DEF Spec

\* Every creation planned or under way is of a lead without an unconfirmed
\* earlier creation, unless the gate could not be read.
THEOREM GateKept == Spec => []GateHolds
<1>1. GateInv => GateHolds
  BY DEF GateInv
<1> QED
  BY <1>1, GateInvariant, PTL

-----------------------------------------------------------------------------
(* The company of a client.  Every id the sync holds, on a lead, in a row,   *)
(* in the plan or in its hand, is that of a client born for the lead at hand.*)

OwnInv ==
    /\ \A h \in Leads : link[h] # NoClient => link[h] \in ClientsOf(h)
    /\ \A h \in Leads : rowAid[h] # NoClient => rowAid[h] \in ClientsOf(h)
    /\ got # NoClient => got \in ClientsOf(cur) /\ got \notin made
    /\ made \subseteq Born /\ bySync \subseteq Born /\ named \subseteq Born
    /\ toLink \subseteq Born /\ toMake \subseteq Born
    /\ pc # "companies" => toLink = {} /\ toMake = {}
    /\ toLink \cap toMake = {}

\* Whose clients are whose changes with their origin only.
LEMMA SameOrigin ==
  ASSUME origin' = origin
  PROVE  Born' = Born /\ \A h \in Leads \cup {NoLead} : ClientsOf(h)' = ClientsOf(h)
BY DEF Born, ClientsOf

\* A client entered or created belongs to its lead, and nobody's changes.
LEMMA OneMore ==
  ASSUME TypeOK, NEW h \in Leads, NEW a \in Client \ Born,
         origin' = [origin EXCEPT ![a] = h]
  PROVE  /\ Born' = Born \cup {a}
         /\ ClientsOf(h)' = ClientsOf(h) \cup {a}
         /\ \A x \in (Leads \cup {NoLead}) \ {h} : ClientsOf(x)' = ClientsOf(x)
         /\ \A x \in Leads \cup {NoLead} : ClientsOf(x) \subseteq ClientsOf(x)'
         /\ \A b \in Born : origin'[b] = origin[b]
BY LeadsAssumption DEF Born, ClientsOf, TypeOK

LEMMA OwnInvariant == Spec => []OwnInv
<1>1. Init => OwnInv
  BY DEF Init, OwnInv, Born
<1>2. TypeOK /\ OwnInv /\ [Next]_vars => OwnInv'
  <2> SUFFICES ASSUME TypeOK, OwnInv, [Next]_vars PROVE OwnInv'
    OBVIOUS
  <2>0. ClientsOf(NoLead) = {} /\ \A h \in Leads : ClientsOf(h) \subseteq Born
    BY DEF ClientsOf, Born
  <2>h. cur \in Leads \cup {NoLead}
    BY DEF TypeOK
  <2> USE LeadsAssumption DEF OwnInv
  <2>1. ASSUME NEW h \in Leads, NEW a \in Client, StaffEnters(h, a) PROVE OwnInv'
    <3>1. a \in Client \ Born /\ origin' = [origin EXCEPT ![a] = h]
      BY <2>1 DEF StaffEnters
    <3>2. Born \subseteq Born' /\ named' \subseteq Born'
      BY <2>1, <3>1, OneMore DEF StaffEnters
    <3>3. \A x \in Leads \cup {NoLead} : ClientsOf(x) \subseteq ClientsOf(x)'
      BY <3>1, OneMore
    <3> QED
      BY <2>1, <2>h, <3>2, <3>3 DEF StaffEnters, rows, plan, item, history
  <2>2. ASSUME NEW h \in Leads, Approve(h) PROVE OwnInv'
    BY <2>2, <2>h, SameOrigin DEF Approve, rows, plan, item, history
  <2>3. ASSUME NEW h \in Leads, NEW a \in Client, LinkByHand(h, a) PROVE OwnInv'
    BY <2>3, <2>h, SameOrigin DEF LinkByHand, rows, plan, item, history, TypeOK
  <2>4. ASSUME NEW h \in Leads, Rearm(h) PROVE OwnInv'
    BY <2>4, <2>h, SameOrigin DEF Rearm, world, plan, item, TypeOK
  <2>5. ASSUME NEW h \in Leads, HoldRow(h) PROVE OwnInv'
    BY <2>5, <2>h, SameOrigin DEF HoldRow, world, plan, item, history
  <2>6. CASE StartSync
    <3>1. toLink' \subseteq Born /\ toMake' \subseteq Born /\ toLink' \cap toMake' = {}
      BY <2>6 DEF StartSync, Plan, Matched
    <3> QED
      BY <2>6, <2>h, <3>1, SameOrigin DEF StartSync, Begin, world, rows, item, history
  <2>7. ASSUME NEW h \in Leads, StartRetry(h) PROVE OwnInv'
    <3>1. toLink' \subseteq Born /\ toMake' \subseteq Born /\ toLink' \cap toMake' = {}
      BY <2>7, <2>0 DEF StartRetry, Plan, Matched
    <3> QED
      BY <2>7, <2>h, <3>1, SameOrigin DEF StartRetry, Begin, world, rows, item, history
  <2>8. ASSUME NEW a \in Client, ApplyLink(a) PROVE OwnInv'
    <3>1. origin[a] \in Leads /\ a \in ClientsOf(origin[a])
      BY <2>8 DEF ApplyLink, Born, ClientsOf, TypeOK
    <3>2. \A h \in Leads : link'[h] = link[h] \/ (h = origin[a] /\ link'[h] = a)
      BY <2>8 DEF ApplyLink, TypeOK
    <3>3. \A h \in Leads : link'[h] # NoClient => link'[h] \in ClientsOf(h)
      BY <3>1, <3>2
    <3> QED
      BY <2>8, <2>h, <3>3, SameOrigin DEF ApplyLink, rows, item, history
  <2>9. ASSUME NEW a \in Client, ApplyMake(a) PROVE OwnInv'
    <3>1. got = NoClient
      BY <2>9, <2>0 DEF ApplyMake, TypeOK
    <3> QED
      BY <2>9, <2>h, <3>1, SameOrigin DEF ApplyMake, rows, item, history
  <2>10. CASE CompaniesDone
    BY <2>10, <2>h, SameOrigin DEF CompaniesDone, world, rows, plan, item, history
  <2>11. ASSUME NEW h \in Leads, Post(h) PROVE OwnInv'
    <3>1. ASSUME NEW a \in Client, Commit(h, a, TRUE), got' \in {a, NoClient} PROVE OwnInv'
      <4>1. a \in Client \ Born /\ origin' = [origin EXCEPT ![a] = h]
        BY <3>1 DEF Commit
      <4>2. named' = named \cup {a} /\ bySync' = bySync \cup {a}
        BY <3>1 DEF Commit
      <4>3. Born' = Born \cup {a} /\ ClientsOf(h)' = ClientsOf(h) \cup {a}
        BY <4>1, OneMore
      <4>4. \A x \in Leads : ClientsOf(x) \subseteq ClientsOf(x)'
        BY <4>1, OneMore
      <4>5. a \notin made'
        BY <2>11, <4>1 DEF Post
      <4> QED
        BY <2>11, <3>1, <4>2, <4>3, <4>4, <4>5 DEF Post, rows
    <3>2. CASE UNCHANGED <<origin, named, bySync>> /\ got' = NoClient
      BY <2>11, <3>2, SameOrigin DEF Post, rows
    <3> QED
      BY <2>11, <3>1, <3>2 DEF Post
  <2>12. CASE PostAgain
    <3>1. ASSUME NEW a \in Client, Commit(cur, a, FALSE), got' = a PROVE OwnInv'
      <4>0. cur \in Leads
        BY <2>12 DEF PostAgain, TypeOK
      <4>1. a \in Client \ Born /\ origin' = [origin EXCEPT ![a] = cur]
        BY <3>1 DEF Commit
      <4>2. named' = named /\ bySync' = bySync \cup {a}
        BY <3>1 DEF Commit
      <4>3. PICK h \in Leads : h = cur
        BY <4>0
      <4>4. Born' = Born \cup {a} /\ ClientsOf(h)' = ClientsOf(h) \cup {a}
        BY <4>1, <4>3, OneMore
      <4>5. \A x \in Leads : ClientsOf(x) \subseteq ClientsOf(x)'
        BY <4>1, <4>3, OneMore
      <4>6. a \notin made' /\ cur' = h
        BY <2>12, <4>1, <4>3 DEF PostAgain
      <4> QED
        BY <2>12, <3>1, <4>2, <4>4, <4>5, <4>6 DEF PostAgain, rows, plan
    <3>2. CASE UNCHANGED <<origin, named, bySync, got>>
      BY <2>12, <2>h, <3>2, SameOrigin DEF PostAgain, rows, plan
    <3> QED
      BY <2>12, <3>1, <3>2 DEF PostAgain
  <2>13. CASE Finish
    <3>1. cur \in Leads /\ got # NoClient
      BY <2>13 DEF Finish, TypeOK
    <3>2. named' \subseteq Born
      BY <2>13, <2>0, <3>1 DEF Finish
    <3> QED
      BY <2>13, <2>h, <3>2, SameOrigin DEF Finish, rows, plan, history
  <2>14. CASE Patch
    <3>1. cur \in Leads /\ got # NoClient
      BY <2>14 DEF Patch, TypeOK
    <3>2. \A h \in Leads : link'[h] = link[h] \/ (h = cur /\ link'[h] = got)
      BY <2>14 DEF Patch, TypeOK
    <3>3. \A h \in Leads : link'[h] # NoClient => link'[h] \in ClientsOf(h)
      BY <3>1, <3>2
    <3> QED
      BY <2>14, <2>h, <3>3, SameOrigin DEF Patch, NextItem, rows, plan, item, history
  <2>15. CASE Record
    <3>1. cur \in Leads
      BY <2>15 DEF Record, TypeOK
    <3>2. \A h \in Leads : rowAid'[h] = rowAid[h] \/ (h = cur /\ rowAid'[h] = got)
      BY <2>15 DEF Record, rows, TypeOK
    <3>3. \A h \in Leads : rowAid'[h] # NoClient => rowAid'[h] \in ClientsOf(h)
      BY <3>1, <3>2
    <3> QED
      BY <2>15, <2>h, <3>3, SameOrigin DEF Record, NextItem, world, plan, history
  <2>16. CASE EndSync
    BY <2>16, <2>h, SameOrigin DEF EndSync, world, plan, item, history
  <2>17. CASE Crash
    BY <2>17, <2>h, SameOrigin DEF Crash, world, rows, history
  <2>18. CASE UNCHANGED vars
    BY <2>18, <2>h, SameOrigin DEF vars, world, rows, plan, item, history
  <2> QED
    BY <2>1, <2>2, <2>3, <2>4, <2>5, <2>6, <2>7, <2>8, <2>9, <2>10, <2>11, <2>12,
       <2>13, <2>14, <2>15, <2>16, <2>17, <2>18 DEF Next, Start, Work, Human
<1> QED
  BY <1>1, <1>2, TypeCorrect, PTL DEF Spec

\* A company is only ever planned for the second recognisable client of a
\* lead, as far as the pull lists the lead or finds it linked.
TwinInv ==
    \A a \in ((made \cup toMake) \cap named) \ blind :
        \E b \in Born \ {a} : origin[b] = origin[a]

\* A recognisable client that the matching passes over has a twin: the client
\* its lead is linked to, or the one matched in its place.
LEMMA UnmatchedHasTwin ==
  ASSUME TypeOK, OwnInv, NEW C \in SUBSET Born, NEW X,
         NEW a \in C \ (Held \cup Matched(C, X)), a \in named,
         origin[a] \notin Unlinked \ X
  PROVE  \E b \in Born \ {a} : origin[b] = origin[a]
<1>1. origin[a] \in Leads
  BY DEF Born, TypeOK
<1>2. CASE origin[a] \in X
  <2>1. PICK b \in C \cap named : origin[b] = origin[a] /\ ~(a <= b)
    BY <1>2 DEF Matched
  <2>2. a \in Nat
    BY DEF Born, Client
  <2> QED
    BY <2>1, <2>2
<1>3. CASE origin[a] \notin Unlinked
  <2>1. link[origin[a]] \in ClientsOf(origin[a]) /\ link[origin[a]] \in Held
    BY <1>1, <1>3 DEF Unlinked, OwnInv, Held
  <2> QED
    BY <2>1 DEF ClientsOf
<1> QED
  BY <1>2, <1>3

\* A client whose lead the pull listed, or found linked, gets no company of its
\* own while it is the only recognisable one: not through crashes, lost answers,
\* or staff linking and entering clients while a sync runs.
THEOREM ListedHaveNoTwin == Spec => []NoTwinOfListed
<1>1. Init => TwinInv
  BY DEF Init, TwinInv
<1>2. TypeOK /\ OwnInv /\ TwinInv /\ [Next]_vars => TwinInv'
  <2> SUFFICES ASSUME TypeOK, OwnInv, TwinInv, [Next]_vars PROVE TwinInv'
    OBVIOUS
  <2>o. made \subseteq Born /\ toMake \subseteq Born
    BY DEF OwnInv
  <2> USE DEF TwinInv
  <2>1. ASSUME NEW h \in Leads, NEW a \in Client, StaffEnters(h, a) PROVE TwinInv'
    <3>1. a \in Client \ Born /\ origin' = [origin EXCEPT ![a] = h]
      BY <2>1 DEF StaffEnters
    <3>2. (made' \cup toMake') \cap named' = (made \cup toMake) \cap named
      BY <2>1, <2>o, <3>1 DEF StaffEnters, plan, history
    <3>3. blind' = blind
      BY <2>1 DEF StaffEnters, history
    <3> QED
      BY <2>o, <3>1, <3>2, <3>3, OneMore
  <2>2. ASSUME NEW h \in Leads, Approve(h) PROVE TwinInv'
    BY <2>2, SameOrigin DEF Approve, plan, history
  <2>3. ASSUME NEW h \in Leads, NEW a \in Client, LinkByHand(h, a) PROVE TwinInv'
    BY <2>3, SameOrigin DEF LinkByHand, plan, history
  <2>4. ASSUME NEW h \in Leads, Rearm(h) PROVE TwinInv'
    BY <2>4, SameOrigin DEF Rearm, world, plan
  <2>5. ASSUME NEW h \in Leads, HoldRow(h) PROVE TwinInv'
    BY <2>5, SameOrigin DEF HoldRow, world, plan, history
  <2>6. ASSUME NEW C \in SUBSET Born, NEW X, Plan(C, X), UNCHANGED world PROVE TwinInv'
    <3>1. /\ toMake' = C \ (Held \cup Matched(C, X))
          /\ blind' = blind \cup {a \in toMake' : origin[a] \in Unlinked \ X}
      BY <2>6 DEF Plan
    <3>2. \A a \in (toMake' \cap named) \ blind' : \E b \in Born \ {a} : origin[b] = origin[a]
      BY <3>1, UnmatchedHasTwin
    <3> QED
      BY <2>6, <3>1, <3>2, SameOrigin DEF world
  <2>7. CASE StartSync
    <3>1. \E C \in SUBSET Born : \E X \in {Candidates, {}} : Plan(C, X)
      BY <2>7 DEF StartSync
    <3> QED
      BY <2>6, <2>7, <3>1 DEF StartSync, Begin
  <2>8. ASSUME NEW h \in Leads, StartRetry(h) PROVE TwinInv'
    <3>1. {rowAid[h]} \in SUBSET Born
      BY <2>8 DEF StartRetry, OwnInv, ClientsOf
    <3> QED
      BY <2>6, <2>8, <3>1 DEF StartRetry, Begin
  <2>9. ASSUME NEW a \in Client, ApplyLink(a) PROVE TwinInv'
    BY <2>9, SameOrigin DEF ApplyLink, history
  <2>10. ASSUME NEW a \in Client, ApplyMake(a) PROVE TwinInv'
    BY <2>10, SameOrigin DEF ApplyMake, history
  <2>11. CASE CompaniesDone
    BY <2>11, SameOrigin DEF CompaniesDone, world, plan, history
  <2>12. ASSUME NEW h \in Leads, Post(h) PROVE TwinInv'
    <3>1. made' = made /\ toMake' = toMake /\ blind' = blind
      BY <2>12 DEF Post
    <3>2. ASSUME NEW a \in Client, Commit(h, a, TRUE) PROVE TwinInv'
      <4>1. a \in Client \ Born /\ origin' = [origin EXCEPT ![a] = h]
        BY <3>2 DEF Commit
      <4>2. (made' \cup toMake') \cap named' = (made \cup toMake) \cap named
        BY <3>1, <3>2, <2>o, <4>1 DEF Commit
      <4> QED
        BY <2>o, <3>1, <4>1, <4>2, OneMore
    <3>3. CASE UNCHANGED <<origin, named, bySync>>
      BY <3>1, <3>3, SameOrigin
    <3> QED
      BY <2>12, <3>2, <3>3 DEF Post
  <2>13. CASE PostAgain
    <3>1. made' = made /\ toMake' = toMake /\ named' = named /\ blind' = blind
      BY <2>13 DEF PostAgain, Commit, plan
    <3>2. ASSUME NEW a \in Client, Commit(cur, a, FALSE) PROVE TwinInv'
      <4>0. cur \in Leads
        BY <2>13 DEF PostAgain, TypeOK
      <4>1. a \in Client \ Born /\ origin' = [origin EXCEPT ![a] = cur]
        BY <3>2 DEF Commit
      <4>2. Born' = Born \cup {a} /\ \A b \in Born : origin'[b] = origin[b]
        BY <4>0, <4>1, OneMore
      <4> QED
        BY <2>o, <3>1, <4>1, <4>2
    <3>3. CASE UNCHANGED <<origin, named, bySync, got>>
      BY <3>1, <3>3, SameOrigin
    <3> QED
      BY <2>13, <3>2, <3>3 DEF PostAgain
  <2>14. CASE Finish
    <3>1. got \notin made /\ toMake = {}
      BY <2>14 DEF Finish, OwnInv, TypeOK
    <3>2. (made' \cup toMake') \cap named' = (made \cup toMake) \cap named
      BY <2>14, <3>1 DEF Finish, plan
    <3> QED
      BY <2>14, <3>2, SameOrigin DEF Finish, history
  <2>15. CASE Patch
    BY <2>15, SameOrigin DEF Patch, plan, history
  <2>16. CASE Record
    BY <2>16, SameOrigin DEF Record, world, plan, history
  <2>17. CASE EndSync
    BY <2>17, SameOrigin DEF EndSync, world, plan, history
  <2>18. CASE Crash
    BY <2>18, SameOrigin DEF Crash, world, history
  <2>19. CASE UNCHANGED vars
    BY <2>19, SameOrigin DEF vars, world, plan, history
  <2> QED
    BY <2>1, <2>2, <2>3, <2>4, <2>5, <2>7, <2>8, <2>9, <2>10, <2>11, <2>12, <2>13,
       <2>14, <2>15, <2>16, <2>17, <2>18, <2>19 DEF Next, Start, Work, Human
<1>3. TwinInv => NoTwinOfListed
  BY DEF TwinInv, NoTwinOfListed
<1> QED
  BY <1>1, <1>2, <1>3, TypeCorrect, OwnInvariant, PTL DEF Spec

-----------------------------------------------------------------------------
(* What creations cost.  A lead that a sync may create a client for has    *)
(* paid for all the clients created for it so far; while a creation is     *)
(* under way it owes for one, which the link, the gate or a fault settles. *)

Created(h) == Cardinality(ClientsOf(h) \cap bySync)
Allowed(h) == rearmed[h] + Cardinality(Paid)
Settled(h) == Created(h) <= Allowed(h)

PaidInv ==
    /\ CreationsPaid
    /\ \A h \in toCreate : Settled(h)
    /\ \A h \in Unlinked : h # cur /\ ~Gated(h) => Settled(h)
    /\ pc = "again" => Settled(cur) /\ got = NoClient
    /\ pc = "failed" => \/ Settled(cur) /\ (got = NoClient \/ "patch" \in faulted)
                        \/ got = NoClient /\ "patch" \notin faulted
    /\ \A h \in Leads : rowAid[h] # NoClient => "patch" \in faulted
    /\ \A h \in wrote : link[h] # NoClient

Costly == {"lost", "gate", "record", "patch", "crash", "finish"}

LEMMA CostlyFinite == IsFiniteSet(Costly)
<1>1. IsFiniteSet({"lost"}) /\ IsFiniteSet({"gate"}) /\ IsFiniteSet({"record"})
  BY FS_Singleton
<1>2. IsFiniteSet({"patch"}) /\ IsFiniteSet({"crash"}) /\ IsFiniteSet({"finish"})
  BY FS_Singleton
<1>3. IsFiniteSet({"lost"} \cup {"gate"}) /\ IsFiniteSet({"record"} \cup {"patch"})
      /\ IsFiniteSet({"crash"} \cup {"finish"})
  BY <1>1, <1>2, FS_Union
<1>4. IsFiniteSet(({"lost"} \cup {"gate"}) \cup ({"record"} \cup {"patch"}))
  BY <1>3, FS_Union
<1>5. IsFiniteSet((({"lost"} \cup {"gate"}) \cup ({"record"} \cup {"patch"}))
                  \cup ({"crash"} \cup {"finish"}))
  BY <1>3, <1>4, FS_Union
<1>6. Costly = (({"lost"} \cup {"gate"}) \cup ({"record"} \cup {"patch"}))
               \cup ({"crash"} \cup {"finish"})
  BY DEF Costly
<1> QED
  BY <1>5, <1>6

\* Counting created clients and paying faults gives numbers.
LEMMA Counts ==
  /\ \A h \in Leads : IsFiniteSet(ClientsOf(h) \cap bySync) /\ Created(h) \in Nat
  /\ IsFiniteSet(Paid) /\ Cardinality(Paid) \in Nat
<1>1. IsFiniteSet(Client)
  BY BoundsAssumption, FS_Interval DEF Client
<1>2. \A h \in Leads : ClientsOf(h) \cap bySync \subseteq Client
  BY DEF ClientsOf, Born
<1>3. IsFiniteSet(Costly)
  BY CostlyFinite
<1>4. Paid \subseteq Costly
  BY DEF Paid, Costly
<1> QED
  BY <1>1, <1>2, <1>3, <1>4, FS_Subset, FS_CardinalityType DEF Created

LEMMA CountsNext ==
  /\ \A h \in Leads : IsFiniteSet((ClientsOf(h) \cap bySync)') /\ Created(h)' \in Nat
  /\ IsFiniteSet(Paid') /\ Cardinality(Paid') \in Nat
<1>1. IsFiniteSet(Client)
  BY BoundsAssumption, FS_Interval DEF Client
<1>2. \A h \in Leads : (ClientsOf(h) \cap bySync)' \subseteq Client
  BY DEF ClientsOf, Born
<1>3. IsFiniteSet(Costly)
  BY CostlyFinite
<1>4. Paid' \subseteq Costly
  BY DEF Paid, Costly
<1> QED
  BY <1>1, <1>2, <1>3, <1>4, FS_Subset, FS_CardinalityType DEF Created

\* What has been paid stays paid, and a fault that pays pays one.
LEMMA PaidGrows ==
  ASSUME faulted \subseteq faulted'
  PROVE  Cardinality(Paid) <= Cardinality(Paid')
<1>1. Paid \subseteq Paid'
  BY DEF Paid
<1> QED
  BY <1>1, CountsNext, FS_Subset

LEMMA PaidMore ==
  ASSUME faulted \subseteq faulted', NEW k \in Paid' \ Paid
  PROVE  Cardinality(Paid) + 1 <= Cardinality(Paid')
<1>1. Paid \cup {k} \subseteq Paid'
  BY DEF Paid
<1>2. Cardinality(Paid \cup {k}) = Cardinality(Paid) + 1 /\ IsFiniteSet(Paid \cup {k})
  BY Counts, FS_AddElement
<1>3. Cardinality(Paid \cup {k}) <= Cardinality(Paid')
  BY <1>1, CountsNext, FS_Subset
<1> QED
  BY <1>2, <1>3

\* A fault of one of these kinds pays; one while finishing, if a write of an id
\* failed before.
LEMMA FaultPays ==
  ASSUME NEW k, Fault(k),
         \/ k \in {"lost", "gate", "record", "patch", "crash"}
         \/ k = "finish" /\ "patch" \in faulted
  PROVE  Cardinality(Paid) + 1 <= Cardinality(Paid')
<1>1. faulted \subseteq faulted' /\ k \in faulted' \ faulted
  BY DEF Fault
<1>2. k \in Paid' \ Paid
  BY <1>1 DEF Paid
<1> QED
  BY <1>1, <1>2, PaidMore

\* No sync creates a client, no operator takes a Resolved back.
NoCreation ==
    /\ faulted \subseteq faulted'
    /\ \A h \in Leads : /\ (ClientsOf(h) \cap bySync)' = ClientsOf(h) \cap bySync
                         /\ rearmed[h] <= rearmed'[h]

LEMMA StaysSettled ==
  ASSUME TypeOK, TypeOK', CreationsPaid, NoCreation
  PROVE  /\ CreationsPaid'
         /\ \A h \in Leads : Settled(h) => Settled(h)'
         /\ \A h \in Leads : rearmed[h] < rearmed'[h] => Settled(h)'
         /\ Cardinality(Paid) + 1 <= Cardinality(Paid') => \A h \in Leads : Settled(h)'
<1>1. \A h \in Leads : Created(h)' = Created(h) /\ Created(h) \in Nat
  BY Counts DEF NoCreation, Created
<1>2. Cardinality(Paid) <= Cardinality(Paid')
      /\ Cardinality(Paid) \in Nat /\ Cardinality(Paid') \in Nat
  BY PaidGrows, Counts, CountsNext DEF NoCreation
<1>3. \A h \in Leads : rearmed[h] \in Nat /\ rearmed'[h] \in Nat /\ rearmed[h] <= rearmed'[h]
  BY DEF NoCreation, TypeOK
<1>4. \A h \in Leads : Created(h) <= 1 + rearmed[h] + Cardinality(Paid)
  BY DEF CreationsPaid, Created
<1>5. \A h \in Leads : Created(h)' <= 1 + rearmed'[h] + Cardinality(Paid')
  BY <1>1, <1>2, <1>3, <1>4
<1>6. CreationsPaid'
  BY <1>5 DEF CreationsPaid, Created
<1> QED
  BY <1>1, <1>2, <1>3, <1>4, <1>6 DEF Settled, Allowed

\* A lead that has paid owes for one client at most after one is created for it.
LEMMA OwesOne ==
  ASSUME TypeOK, TypeOK', OwnInv, CreationsPaid, NEW h \in Leads, NEW a \in Client \ Born,
         origin' = [origin EXCEPT ![a] = h], bySync' = bySync \cup {a},
         rearmed' = rearmed, faulted \subseteq faulted', Settled(h)
  PROVE  /\ CreationsPaid'
         /\ \A x \in Leads \ {h} : Settled(x) => Settled(x)'
         /\ Cardinality(Paid) + 1 <= Cardinality(Paid') => Settled(h)'
<1>1. a \notin bySync /\ a \notin ClientsOf(h)
  BY DEF OwnInv, ClientsOf
<1>2. (ClientsOf(h) \cap bySync)' = (ClientsOf(h) \cap bySync) \cup {a}
  BY OneMore, <1>1 DEF ClientsOf
<1>3. \A x \in Leads \ {h} : (ClientsOf(x) \cap bySync)' = ClientsOf(x) \cap bySync
  <2> SUFFICES ASSUME NEW x \in Leads \ {h}
               PROVE  (ClientsOf(x) \cap bySync)' = ClientsOf(x) \cap bySync
    OBVIOUS
  <2>1. ClientsOf(x)' = ClientsOf(x)
    BY OneMore
  <2>2. a \notin ClientsOf(x)
    BY DEF ClientsOf
  <2> QED
    BY <2>1, <2>2
<1>4. Created(h)' = Created(h) + 1
  BY <1>1, <1>2, Counts, FS_AddElement DEF Created
<1>5. \A x \in Leads \ {h} : Created(x)' = Created(x)
  BY <1>3 DEF Created
<1>6. Cardinality(Paid) <= Cardinality(Paid')
      /\ Cardinality(Paid) \in Nat /\ Cardinality(Paid') \in Nat
      /\ \A x \in Leads : Created(x) \in Nat /\ rearmed[x] \in Nat
  BY PaidGrows, Counts, CountsNext DEF TypeOK
<1>7. \A x \in Leads : Created(x) <= 1 + rearmed[x] + Cardinality(Paid)
  BY DEF CreationsPaid, Created
<1>8. Created(h) <= rearmed[h] + Cardinality(Paid)
  BY DEF Settled, Allowed
<1>9. \A x \in Leads : Created(x)' <= 1 + rearmed'[x] + Cardinality(Paid')
  BY <1>4, <1>5, <1>6, <1>7, <1>8
<1>10. CreationsPaid'
  BY <1>9 DEF CreationsPaid, Created
<1> QED
  BY <1>4, <1>5, <1>6, <1>8, <1>10 DEF Settled, Allowed

\* Steps outside the creations leave nothing owed: leads are linked or gated,
\* not the other way round.
LEMMA QuietPaid ==
  ASSUME TypeOK, TypeOK', PaidInv, NoCreation,
         UNCHANGED <<toCreate, cur, got, wrote>>, pc' \in {pc, "creates"},
         pc' \in {"again", "failed"} => faulted' = faulted,
         \A x \in Leads : link'[x] = link[x] \/ link'[x] # NoClient,
         \A x \in Leads : Gated(x)' = Gated(x) \/ Settled(x)',
         \A x \in Leads : rowAid'[x] # NoClient => rowAid[x] # NoClient
  PROVE  PaidInv'
<1> USE DEF PaidInv
<1>1. /\ CreationsPaid' /\ faulted \subseteq faulted'
      /\ \A x \in Leads : Settled(x) => Settled(x)'
  BY StaysSettled DEF NoCreation
<1>2. \A x \in Unlinked' : x \in Unlinked /\ x \in Leads
  BY DEF Unlinked
<1>3. /\ \A x \in toCreate' : Settled(x)'
      /\ \A x \in Unlinked' : x # cur' /\ ~Gated(x)' => Settled(x)'
      /\ \A x \in wrote' : link'[x] # NoClient
  BY <1>1, <1>2 DEF TypeOK
<1>4. pc' \in {"again", "failed"} => pc = pc' /\ cur \in Leads
  BY DEF TypeOK
<1>5. CASE pc' \in {"again", "failed"}
  <2>1. PICK h \in Leads : h = cur
    BY <1>4, <1>5
  <2>2. Settled(h) => Settled(h)'
    BY <1>1
  <2>3. faulted' = faulted
    BY <1>5
  <2>4. \/ pc' = "again" /\ Settled(h)' /\ got' = NoClient
        \/ pc' = "failed" /\ Settled(h)' /\ (got' = NoClient \/ "patch" \in faulted')
        \/ pc' = "failed" /\ got' = NoClient /\ "patch" \notin faulted'
    BY <1>4, <1>5, <2>1, <2>2, <2>3
  <2>5. cur' = h
    BY <2>1
  <2> QED
    BY <1>1, <1>3, <2>4, <2>5
<1> QED
  BY <1>1, <1>3, <1>5

LEMMA PaidStep == TypeOK /\ TypeOK' /\ OwnInv /\ GateInv /\ PaidInv /\ [Next]_vars => PaidInv'
<1> SUFFICES ASSUME TypeOK, TypeOK', OwnInv, GateInv, PaidInv, [Next]_vars PROVE PaidInv'
  OBVIOUS
<1> USE LeadsAssumption DEF PaidInv
<1>c. cur \in Leads \cup {NoLead} /\ (cur = NoLead) = (pc \in {"idle", "companies", "creates"})
  BY DEF TypeOK
<1>s. ASSUME UNCHANGED <<origin, bySync>>, faulted \subseteq faulted', UNCHANGED rearmed
      PROVE  NoCreation
  BY <1>s, SameOrigin DEF NoCreation, TypeOK
<1>r. ASSUME UNCHANGED rows
      PROVE  \A x \in Leads : Gated(x)' = Gated(x) /\ rowAid'[x] = rowAid[x]
  BY <1>r DEF rows, Gated, Pending
<1>f. ASSUME NEW k, Fault(k) PROVE faulted \subseteq faulted' /\ k \in faulted'
  BY <1>f DEF Fault
<1>1. ASSUME NEW h \in Leads, NEW a \in Client, StaffEnters(h, a) PROVE PaidInv'
  <2>1. a \in Client \ Born /\ origin' = [origin EXCEPT ![a] = h] /\ bySync' = bySync
    BY <1>1 DEF StaffEnters, history
  <2>2. a \notin bySync
    BY <2>1 DEF OwnInv
  <2>3. \A x \in Leads \ {h} : ClientsOf(x)' = ClientsOf(x)
    BY <2>1, OneMore
  <2>4. ClientsOf(h)' = ClientsOf(h) \cup {a}
    BY <2>1, OneMore
  <2>5. \A x \in Leads : (ClientsOf(x) \cap bySync)' = ClientsOf(x) \cap bySync
    BY <2>1, <2>2, <2>3, <2>4
  <2>6. NoCreation
    BY <1>1, <2>5 DEF NoCreation, StaffEnters, history, TypeOK
  <2> QED
    BY <1>1, <1>r, <2>6, QuietPaid DEF StaffEnters, plan, item
<1>2. ASSUME NEW h \in Leads, Approve(h) PROVE PaidInv'
  <2>1. NoCreation
    BY <1>2, <1>s DEF Approve, history
  <2> QED
    BY <1>2, <1>r, <2>1, QuietPaid DEF Approve, plan, item
<1>3. ASSUME NEW h \in Leads, NEW a \in Client, LinkByHand(h, a) PROVE PaidInv'
  <2>1. \A x \in Leads : link'[x] = link[x] \/ link'[x] # NoClient
    BY <1>3 DEF LinkByHand, ClientsOf, Born, Client, NoClient, TypeOK
  <2>2. NoCreation
    BY <1>3, <1>s DEF LinkByHand, history
  <2> QED
    BY <1>3, <1>r, <2>1, <2>2, QuietPaid DEF LinkByHand, plan, item
<1>4. ASSUME NEW h \in Leads, Rearm(h) PROVE PaidInv'
  <2>1. \A x \in Leads : IF x = h THEN rearmed'[x] = rearmed[x] + 1 ELSE rearmed'[x] = rearmed[x]
    BY <1>4 DEF Rearm, TypeOK
  <2>2. NoCreation
    BY <1>4, <2>1, SameOrigin DEF Rearm, world, NoCreation, TypeOK
  <2>3. \A x \in Leads \ {h} : Gated(x)' = Gated(x)
    BY <1>4 DEF Rearm, Gated, Pending, TypeOK
  <2>4. Settled(h)'
    <3>1. rearmed[h] < rearmed'[h]
      BY <2>1 DEF TypeOK
    <3> QED
      BY <2>2, <3>1, StaysSettled
  <2>5. \A x \in Leads : rowAid'[x] # NoClient => rowAid[x] # NoClient
    BY <1>4 DEF Rearm, TypeOK
  <2> QED
    BY <1>4, <2>2, <2>3, <2>4, <2>5, QuietPaid DEF Rearm, world, plan, item
<1>5. ASSUME NEW h \in Leads, HoldRow(h) PROVE PaidInv'
  <2>1. \A x \in Leads : Gated(x)' = Gated(x)
    BY <1>5 DEF HoldRow, Gated, Pending, TypeOK
  <2>2. NoCreation
    BY <1>5, <1>s DEF HoldRow, world, history
  <2> QED
    BY <1>5, <2>1, <2>2, QuietPaid DEF HoldRow, world, plan, item
<1>6. CASE StartSync
  <2>1. UNCHANGED <<world, rows, item, wrote, bySync, rearmed>> /\ pc = "idle" /\ pc' = "companies"
    BY <1>6 DEF StartSync, Begin
  <2>2. faulted \subseteq faulted'
    BY <1>6 DEF StartSync, Fault
  <2>3. NoCreation
    BY <1>s, <2>1, <2>2 DEF world
  <2>4. \A h \in toCreate' : Settled(h)'
    <3>1. CASE Fault("gate")
      <4>1. Cardinality(Paid) + 1 <= Cardinality(Paid')
        BY <3>1, FaultPays
      <4>2. toCreate' \subseteq Leads
        BY DEF TypeOK
      <4> QED
        BY <2>3, <4>1, <4>2, StaysSettled
    <3>2. CASE ~Fault("gate")
      <4>1. \A h \in toCreate' : h \in Unlinked /\ ~Gated(h)
        BY <1>6, <3>2 DEF StartSync, Offered, Unlinked
      <4>2. cur = NoLead /\ \A h \in Unlinked : h \in Leads
        BY <1>c, <2>1 DEF Unlinked
      <4> QED
        BY <2>3, <4>1, <4>2, StaysSettled
    <3> QED
      BY <3>1, <3>2
  <2> QED
    BY <1>c, <2>1, <2>2, <2>3, <2>4, StaysSettled DEF Unlinked, Gated, Pending, world, rows, item
<1>7. ASSUME NEW h \in Leads, StartRetry(h) PROVE PaidInv'
  <2>1. NoCreation
    BY <1>7, <1>s DEF StartRetry, Begin, world
  <2> QED
    BY <1>7, <1>c, <2>1, StaysSettled DEF StartRetry, Begin, Unlinked, Gated, Pending, world, rows, item
<1>8. ASSUME NEW a \in Client, ApplyLink(a) PROVE PaidInv'
  <2>1. NoCreation
    BY <1>8, <1>s, <1>f DEF ApplyLink, history
  <2>2. \A x \in Leads : link'[x] = link[x] \/ link'[x] # NoClient
    BY <1>8 DEF ApplyLink, Client, NoClient, TypeOK
  <2> QED
    BY <1>8, <1>r, <2>1, <2>2, QuietPaid DEF ApplyLink, item
<1>9. ASSUME NEW a \in Client, ApplyMake(a) PROVE PaidInv'
  <2>1. NoCreation
    BY <1>9, <1>s, <1>f DEF ApplyMake, history
  <2> QED
    BY <1>9, <1>r, <2>1, QuietPaid DEF ApplyMake, item
<1>10. CASE CompaniesDone
  <2>1. NoCreation
    BY <1>10, <1>s DEF CompaniesDone, world, history
  <2> QED
    BY <1>10, <1>r, <2>1, QuietPaid DEF CompaniesDone, world, plan, item
<1>11. ASSUME NEW h \in Leads, Post(h) PROVE PaidInv'
  <2>1. /\ UNCHANGED <<link, rows, wrote, rearmed>> /\ cur = NoLead /\ cur' = h
        /\ toCreate' = toCreate \ {h} /\ Settled(h) /\ faulted \subseteq faulted'
        /\ toCreate \subseteq Leads
    BY <1>11, <1>c DEF Post, Fault, TypeOK
  <2>2. /\ \A x \in Leads \ {h} : Settled(x) => Settled(x)'
        /\ CreationsPaid'
        /\ pc' = "again" => Settled(h)' /\ got' = NoClient
    <3>1. ASSUME NEW a \in Client, Commit(h, a, TRUE),
                 pc' = "again" => Fault("lost") /\ got' = NoClient
          PROVE  /\ \A x \in Leads \ {h} : Settled(x) => Settled(x)'
                 /\ CreationsPaid'
                 /\ pc' = "again" => Settled(h)' /\ got' = NoClient
      <4>1. a \in Client \ Born /\ origin' = [origin EXCEPT ![a] = h] /\ bySync' = bySync \cup {a}
        BY <3>1 DEF Commit
      <4>2. pc' = "again" => Cardinality(Paid) + 1 <= Cardinality(Paid')
        BY <3>1, FaultPays
      <4> QED
        BY <2>1, <3>1, <4>1, <4>2, OwesOne
    <3>2. CASE UNCHANGED <<origin, named, bySync>> /\ got' = NoClient
      <4>1. NoCreation
        BY <1>s, <2>1, <3>2
      <4> QED
        BY <2>1, <3>2, <4>1, StaysSettled
    <3> QED
      BY <1>11, <3>1, <3>2 DEF Post
  <2>3. pc' \in {"finish", "again"}
    BY <1>11 DEF Post
  <2>4. \A x \in Leads : Gated(x)' = Gated(x) /\ rowAid'[x] = rowAid[x]
    BY <1>r, <2>1
  <2>5. \A x \in Unlinked' : x \in Unlinked /\ x \in Leads
    BY <2>1 DEF Unlinked
  <2>6. \A x \in toCreate' : Settled(x)'
    BY <2>1, <2>2
  <2>7. \A x \in Unlinked' : x # cur' /\ ~Gated(x)' => Settled(x)'
    BY <2>1, <2>2, <2>4, <2>5
  <2>8. pc' = "again" => Settled(h)' /\ cur' = h /\ got' = NoClient
    BY <2>1, <2>2
  <2> QED
    BY <2>1, <2>2, <2>3, <2>4, <2>6, <2>7, <2>8
<1>12. CASE PostAgain
  <2>1. /\ UNCHANGED <<link, rows, wrote, rearmed, cur, toCreate>>
        /\ cur \in Leads /\ cur \notin toCreate /\ Settled(cur) /\ got = NoClient
        /\ faulted \subseteq faulted' /\ toCreate \subseteq Leads
    BY <1>12, <1>c DEF PostAgain, Fault, plan, GateInv, TypeOK
  <2>2. CASE \E a \in Client : Commit(cur, a, FALSE) /\ got' = a /\ pc' = "finish"
    <3>1. PICK a \in Client : Commit(cur, a, FALSE)
      BY <2>2
    <3>2. a \in Client \ Born /\ origin' = [origin EXCEPT ![a] = cur] /\ bySync' = bySync \cup {a}
      BY <3>1 DEF Commit
    <3>3. CreationsPaid' /\ \A x \in Leads \ {cur} : Settled(x) => Settled(x)'
      BY <2>1, <3>2, OwesOne
    <3> QED
      BY <2>1, <2>2, <3>3 DEF Unlinked, Gated, Pending, rows
  <2>3. CASE UNCHANGED <<origin, bySync, got>> /\ pc' = "failed"
    <3>1. NoCreation
      BY <1>s, <2>1, <2>3
    <3> QED
      BY <2>1, <2>3, <3>1, StaysSettled DEF Unlinked, Gated, Pending, rows
  <2> QED
    BY <1>12, <2>2, <2>3 DEF PostAgain
<1>13. CASE Finish
  <2>1. /\ UNCHANGED <<link, rows, wrote, rearmed, cur, toCreate, origin, bySync>>
        /\ cur \in Leads /\ faulted \subseteq faulted' /\ toCreate \subseteq Leads
    BY <1>13, <1>c DEF Finish, Fault, plan, history, TypeOK
  <2>2. NoCreation
    BY <1>s, <2>1
  <2>3. CASE pc' = "patch"
    BY <2>1, <2>2, <2>3, StaysSettled DEF Unlinked, Gated, Pending, rows
  <2>4. CASE Fault("finish") /\ got' = NoClient /\ pc' = "failed"
    <3>1. Settled(cur)' \/ "patch" \notin faulted'
      <4>1. CASE "patch" \in faulted
        BY <2>1, <2>2, <2>4, <4>1, FaultPays, StaysSettled
      <4>2. CASE "patch" \notin faulted
        BY <2>4, <4>2 DEF Fault
      <4> QED
        BY <4>1, <4>2
    <3> QED
      BY <2>1, <2>2, <2>4, <3>1, StaysSettled DEF Unlinked, Gated, Pending, rows
  <2> QED
    BY <1>13, <2>3, <2>4 DEF Finish
<1>14. CASE Patch
  <2>1. /\ UNCHANGED <<rows, rearmed, toCreate, origin, bySync, made>>
        /\ cur \in Leads /\ got # NoClient /\ faulted \subseteq faulted' /\ toCreate \subseteq Leads
    BY <1>14, <1>c DEF Patch, Fault, plan, history, TypeOK
  <2>2. NoCreation
    BY <1>s, <2>1
  <2>3. CASE link' = (IF got \in Held THEN link ELSE [link EXCEPT ![cur] = got])
             /\ wrote' = wrote \cup {cur} /\ NextItem
    <3>1. got \in Held => link[cur] = got
      <4> SUFFICES ASSUME got \in Held PROVE link[cur] = got
        OBVIOUS
      <4>1. PICK h \in Leads : link[h] = got
        BY <2>1 DEF Held, OwnInv
      <4>2. got \in ClientsOf(h) /\ got \in ClientsOf(cur)
        BY <2>1, <4>1 DEF OwnInv
      <4> QED
        BY <4>1, <4>2 DEF ClientsOf
    <3>2. link'[cur] # NoClient /\ \A x \in Leads \ {cur} : link'[x] = link[x]
      BY <2>1, <2>3, <3>1 DEF TypeOK
    <3> QED
      BY <2>1, <2>2, <2>3, <3>2, StaysSettled DEF NextItem, Unlinked, Gated, Pending, rows
  <2>4. CASE Fault("patch") /\ pc' = "failed" /\ UNCHANGED <<link, wrote, item>>
    <3>1. Cardinality(Paid) + 1 <= Cardinality(Paid')
      BY <2>4, FaultPays
    <3>2. \A x \in Leads : Settled(x)'
      BY <2>2, <3>1, StaysSettled
    <3>3. PICK h \in Leads : h = cur
      BY <2>1
    <3>4. Settled(h)' /\ cur' = h /\ "patch" \in faulted'
      BY <1>f, <2>4, <3>2, <3>3 DEF item
    <3>5. CreationsPaid'
      BY <2>2, StaysSettled
    <3> QED
      BY <2>1, <2>4, <3>2, <3>4, <3>5 DEF item, Unlinked, rows
  <2> QED
    BY <1>14, <2>3, <2>4 DEF Patch
<1>15. CASE Record
  <2>1. /\ UNCHANGED <<link, rearmed, toCreate, origin, bySync, wrote>>
        /\ cur \in Leads /\ pc = "failed" /\ pc' = "creates" /\ cur' = NoLead /\ got' = NoClient
        /\ faulted \subseteq faulted' /\ toCreate \subseteq Leads
    BY <1>15, <1>c DEF Record, NextItem, Fault, world, plan, history, TypeOK
  <2>2. NoCreation
    BY <1>s, <2>1
  <2>3. \A x \in Leads \ {cur} : Gated(x)' = Gated(x)
    BY <1>15 DEF Record, rows, Gated, Pending, TypeOK
  <2>c. PICK h \in Leads : h = cur
    BY <2>1
  <2>4. Settled(h)' \/ Gated(h)'
    <3>1. CASE Settled(h)
      BY <2>2, <3>1, StaysSettled
    <3>2. CASE Fault("record")
      <4>1. Cardinality(Paid) + 1 <= Cardinality(Paid')
        BY <3>2, FaultPays
      <4> QED
        BY <2>2, <4>1, StaysSettled
    <3>3. CASE ~Settled(h) /\ ~Fault("record")
      <4>1. got = NoClient /\ rowAid[h] = NoClient
        BY <2>1, <2>c, <3>3
      <4>2. /\ row' = [row EXCEPT ![h] = IF Pending(h) THEN @ ELSE "open"]
            /\ rowAid' = [rowAid EXCEPT ![h] = IF Pending(h) /\ @ # NoClient THEN @ ELSE got]
        BY <1>15, <2>c, <3>3 DEF Record
      <4>3. rowAid'[h] = NoClient /\ row'[h] \in {"open", "frozen"}
        BY <4>1, <4>2 DEF Pending, TypeOK
      <4> QED
        BY <4>3 DEF Gated, Pending
    <3> QED
      BY <3>1, <3>2, <3>3
  <2>5. \A x \in Leads : rowAid'[x] # NoClient => "patch" \in faulted'
    <3>1. \A x \in Leads : rowAid'[x] = rowAid[x] \/ rowAid'[x] = got
      BY <1>15 DEF Record, rows, TypeOK
    <3> QED
      BY <2>1, <3>1
  <2>6. \A x \in Unlinked' : ~Gated(x)' => Settled(x)'
    <3> SUFFICES ASSUME NEW x \in Leads, link[x] = NoClient, ~Gated(x)' PROVE Settled(x)'
      BY <2>1 DEF Unlinked
    <3>1. CASE x = h
      BY <2>4, <3>1
    <3>2. CASE x # h
      BY <2>2, <2>3, <2>c, <3>2, StaysSettled DEF Unlinked
    <3> QED
      BY <3>1, <3>2
  <2>7. CreationsPaid' /\ \A x \in toCreate' : Settled(x)'
    BY <2>1, <2>2, StaysSettled
  <2> QED
    BY <2>1, <2>5, <2>6, <2>7
<1>16. CASE EndSync
  <2>1. \A x \in Leads : link[x] = NoClient => Gated(x)' = Gated(x)
    BY <1>16 DEF EndSync, Gated, Pending, TypeOK
  <2>2. NoCreation
    BY <1>16, <1>s DEF EndSync, world, history
  <2> QED
    BY <1>16, <1>c, <2>1, <2>2, StaysSettled DEF EndSync, Unlinked, world, plan, item
<1>17. CASE Crash
  <2>1. NoCreation
    BY <1>17, <1>s DEF Crash, Fault, world, history
  <2>2. \A h \in Leads : Settled(h)'
    BY <1>17, <2>1, FaultPays, StaysSettled DEF Crash
  <2> QED
    BY <1>17, <2>1, <2>2, StaysSettled DEF Crash, Unlinked, rows, NoCreation
<1>18. CASE UNCHANGED vars
  <2>1. NoCreation
    BY <1>18, <1>s DEF vars, world, history
  <2> QED
    BY <1>18, <1>r, <2>1, QuietPaid DEF vars, world, plan, item
<1> QED
  BY <1>1, <1>2, <1>3, <1>4, <1>5, <1>6, <1>7, <1>8, <1>9, <1>10, <1>11, <1>12,
     <1>13, <1>14, <1>15, <1>16, <1>17, <1>18 DEF Next, Start, Work, Human

\* Every client a sync creates beyond the first of a lead is paid for, by a
\* Resolved or by a fault that lost something, whatever the pull reads, however
\* many faults meet and whatever humans do meanwhile.
THEOREM CreationsArePaid == Spec => []CreationsPaid
<1>1. Init => PaidInv
  <2> SUFFICES ASSUME Init PROVE PaidInv
    OBVIOUS
  <2>1. \A h \in Leads : ClientsOf(h) \cap bySync = {}
    BY DEF Init
  <2>2. \A h \in Leads : Created(h) = 0 /\ rearmed[h] = 0
    BY <2>1, FS_EmptySet DEF Created, Init
  <2>3. Cardinality(Paid) \in Nat
    BY Counts
  <2>4. \A h \in Leads : Settled(h)
    BY <2>2, <2>3 DEF Settled, Allowed
  <2>5. CreationsPaid
    BY <2>2, <2>3 DEF CreationsPaid, Created
  <2> QED
    BY <2>4, <2>5 DEF Init, PaidInv, Unlinked
<1>2. PaidInv => CreationsPaid
  BY DEF PaidInv
<1> QED
  BY <1>1, <1>2, PaidStep, TypeCorrect, OwnInvariant, GateInvariant, PTL DEF Spec

=============================================================================
