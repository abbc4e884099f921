------------------------ MODULE WebhookIntakeProofs ------------------------
(***************************************************************************)
(* Type correctness of WebhookIntake, that resending a message is          *)
(* harmless, and that an answered message is served, for every number of   *)
(* records, bodies, changes, resends and faults.                           *)
(*                                                                         *)
(* A receipt stands for one job. A job without one, or in spite of one, is *)
(* queued only on the way through an error of the database (Paid). A       *)
(* change that nothing will carry over any more has a fault of its own     *)
(* (LossInv).                                                              *)
(***************************************************************************)
EXTENDS WebhookIntake, FiniteSetTheorems, TLAPS

\* A handler at work has a message.
InHand == handler.at # "idle" => handler.on \in Messages

\* Messages without an id are not counted.
Counted == MessageIds \ {Anonymous}

Paid ==
    /\ \A i \in Counted : queuedFor[i] <= 1 + intakeFaults
    /\ \A i \in Counted \ receipts : queuedFor[i] <= intakeFaults
    /\ handler.at = "mark" => Id \notin receipts
    /\ handler.at = "queue" /\ HasId => queuedFor[Id] <= intakeFaults
    /\ handler.at = "queue" /\ HasId /\ Id \notin receipts => queuedFor[Id] + 1 <= intakeFaults

ResendInv == IntakeTypeOK /\ InHand /\ Paid

-----------------------------------------------------------------------------

LEMMA MessageKinds ==
    \A m \in Messages : /\ From(m) \in Senders /\ Source(m) \in Sources /\ Source(m) \in Jobs
                        /\ m.id \in MessageIds /\ m.of \in Subjects
                        /\ m.about \in 1 .. MaxChanges
<1> SUFFICES ASSUME NEW m \in Messages
             PROVE  /\ From(m) \in Senders /\ Source(m) \in Sources /\ Source(m) \in Jobs
                    /\ m.id \in MessageIds /\ m.of \in Subjects
                    /\ m.about \in 1 .. MaxChanges
  OBVIOUS
<1>1. m.id \in MessageIds /\ m.of \in Subjects /\ m.about \in 1 .. MaxChanges
  BY DEF Messages
<1>2. m.id[1] \in Senders
  BY <1>1 DEF MessageIds, Anonymous, Senders
<1> QED
  BY <1>1, <1>2 DEF From, Source, Sources, Jobs

LEMMA ResendInvInit == IntakeInit => ResendInv
<1> SUFFICES ASSUME IntakeInit PROVE ResendInv
  OBVIOUS
<1>1. IntakeTypeOK
  BY IntakeAssumption DEF IntakeInit, IntakeTypeOK, Jobs, Free, Handler, Idle
<1>2. InHand /\ Paid
  BY IntakeAssumption DEF IntakeInit, InHand, Paid, Counted, Free
<1> QED
  BY <1>1, <1>2 DEF ResendInv

LEMMA IdType == InHand /\ handler.at # "idle" => Id \in MessageIds
BY DEF InHand, Id, Messages

\* A record of the handler in its next stage.
LEMMA ThenType ==
    ASSUME handler \in Handler, InHand, handler.at # "idle", NEW at \in {"mark", "queue", "answer"},
           Then(at)
    PROVE  /\ handler' \in Handler /\ handler'.at = at /\ handler'.on = handler.on
           /\ InHand' /\ Id' = Id
BY DEF Handler, Then, InHand, Id, Now

LEMMA IntakeTypeNext == IntakeTypeOK /\ InHand /\ [IntakeNext]_intakeVars => IntakeTypeOK' /\ InHand'
<1> SUFFICES ASSUME IntakeTypeOK, InHand, [IntakeNext]_intakeVars PROVE IntakeTypeOK' /\ InHand'
  OBVIOUS
<1> USE IntakeAssumption DEF IntakeTypeOK, IntakeFault, IntakeFine, door, worker, Now
<1>0. Free \in Handler /\ Free.at = "idle"
  BY DEF Free, Handler
<1>1. ASSUME NEW s \in Senders, NEW r \in Subjects, NEW id \in MessageIds, Change(s, r, id)
      PROVE  IntakeTypeOK' /\ InHand'
  <2> DEFINE x == <<s, r>>
             new == [id |-> id, of |-> r, about |-> changed'[x]]
  <2>0. x \in Sources
    BY DEF Sources
  <2>1. /\ changes' \in 1 .. MaxChanges /\ changes' = changes + 1
        /\ changed' = [changed EXCEPT ![x] = @ + 1] /\ wire' = wire \cup {new}
    BY <1>1 DEF Change
  <2> HIDE DEF x
  <2>2. changed' \in [Sources -> 0 .. changes'] /\ changed'[x] \in 1 .. changes'
    BY <2>0, <2>1
  <2>3. changed'[x] \in 1 .. MaxChanges
    BY <2>1, <2>2
  <2>4. new \in Messages
    BY <2>3 DEF Messages
  <2> HIDE DEF new
  <2>5. wire' \subseteq Messages
    BY <2>1, <2>4
  <2>6. UNCHANGED <<arrived, answered, receipts, memory, handler, queue, working, queuedFor, resends,
                    intakeFaults>>
    BY <1>1 DEF Change
  <2> HIDE DEF x
  <2> QED
    BY <2>1, <2>2, <2>5, <2>6 DEF InHand
<1>2. ASSUME NEW m \in wire, Receive(m) PROVE IntakeTypeOK' /\ InHand'
  <2>1. handler' \in Handler /\ InHand'
    BY <1>2 DEF Receive, Handler, InHand
  <2> QED
    BY <1>2, <2>1 DEF Receive
<1>3. CASE Duplicate
  <2>1. Id \in MessageIds /\ handler' \in Handler /\ InHand'
    BY <1>3, IdType, ThenType DEF Duplicate
  <2> QED
    BY <1>3, <2>1 DEF Duplicate
<1>4. CASE NotSeen
  <2>1. handler' \in Handler /\ InHand'
    BY <1>4, ThenType DEF NotSeen
  <2> QED
    BY <1>4, <2>1 DEF NotSeen
<1>5. CASE Mark
  <2>1. Id \in MessageIds /\ handler' \in Handler /\ InHand'
    BY <1>5, IdType, ThenType DEF Mark
  <2> QED
    BY <1>5, <2>1 DEF Mark
<1>6. CASE ReceiptFails
  <2>1. Id \in MessageIds /\ handler' \in Handler /\ InHand'
    BY <1>6, IdType, ThenType DEF ReceiptFails
  <2>2. receipts' \subseteq MessageIds
    BY <1>6, <2>1 DEF ReceiptFails
  <2> QED
    BY <1>6, <2>1, <2>2 DEF ReceiptFails
<1>7. CASE QueueJob
  <2>1. Id \in MessageIds /\ handler' \in Handler /\ InHand'
    BY <1>7, IdType, ThenType DEF QueueJob
  <2>2. queue' \in [Jobs -> Nat] /\ queuedFor' \in [MessageIds -> Nat]
    BY <1>7, <2>1 DEF QueueJob, Enqueue
  <2> QED
    BY <1>7, <2>1, <2>2 DEF QueueJob
<1>8. CASE QueueFails
  <2>1. Id \in MessageIds /\ Source(handler.on) \in Jobs
    BY <1>8, IdType, MessageKinds DEF QueueFails, InHand
  <2>2. CASE Enqueue
    <3>1. queue' \in [Jobs -> Nat] /\ queuedFor' \in [MessageIds -> Nat]
      BY <2>1, <2>2 DEF Enqueue
    <3> QED
      BY <1>0, <1>8, <3>1 DEF QueueFails, InHand
  <2>3. CASE UNCHANGED <<queue, queuedFor>>
    BY <1>0, <1>8, <2>3 DEF QueueFails, InHand
  <2> QED
    BY <1>8, <2>2, <2>3 DEF QueueFails
<1>9. CASE Answer
  <2>1. handler.on \in Messages
    BY <1>9 DEF Answer, InHand
  <2> QED
    BY <1>0, <1>9, <2>1 DEF Answer, InHand
<1>10. CASE WebRestarts
  BY <1>0, <1>10 DEF WebRestarts, InHand
<1>11. ASSUME NEW j \in Jobs, Start(j) PROVE IntakeTypeOK' /\ InHand'
  <2>1. queue' \in [Jobs -> Nat]
    BY <1>11 DEF Start
  <2>2. working'.job \in Jobs /\ working'.seen \in [Sources -> 0 .. MaxChanges]
    BY <1>11 DEF Start
  <2> QED
    BY <1>11, <2>1, <2>2 DEF Start, InHand
<1>12. CASE Finish
  <2>1. arrived' \in [Sources -> 0 .. MaxChanges]
    BY <1>12 DEF Finish
  <2> QED
    BY <1>12, <2>1 DEF Finish, Idle, InHand
<1>13. CASE SyncFails
  BY <1>13 DEF SyncFails, Idle, InHand
<1>14. CASE Poll
  BY <1>14 DEF Poll, InHand
<1>15. CASE UNCHANGED intakeVars
  BY <1>15 DEF intakeVars, InHand
<1> QED
  BY <1>1, <1>2, <1>3, <1>4, <1>5, <1>6, <1>7, <1>8, <1>9, <1>10, <1>11, <1>12, <1>13, <1>14, <1>15
  DEF IntakeNext, Work

LEMMA PaidNext == ResendInv /\ [IntakeNext]_intakeVars => Paid'
<1> SUFFICES ASSUME ResendInv, [IntakeNext]_intakeVars PROVE Paid'
  OBVIOUS
<1>0. /\ handler \in Handler /\ InHand /\ intakeFaults \in Nat
      /\ queuedFor \in [MessageIds -> Nat]
  BY DEF ResendInv, IntakeTypeOK
<1>c. \A i \in Counted : i \in MessageIds /\ queuedFor[i] \in Nat
  BY <1>0 DEF Counted
<1>i. handler.at # "idle" => Id \in MessageIds /\ (HasId <=> Id \in Counted)
  BY <1>0, IdType DEF Counted, HasId
<1> USE DEF ResendInv, Paid, IntakeFault, IntakeFine, door, worker, Now
<1>1. ASSUME NEW s \in Senders, NEW r \in Subjects, NEW id \in MessageIds, Change(s, r, id) PROVE Paid'
  BY <1>1 DEF Change, Id, HasId
<1>2. ASSUME NEW m \in wire, Receive(m) PROVE Paid'
  BY <1>2 DEF Receive
<1>3. CASE Duplicate
  <2>1. handler'.at = "answer"
    BY <1>0, <1>3, ThenType DEF Duplicate
  <2> QED
    BY <1>3, <2>1 DEF Duplicate
<1>4. CASE NotSeen
  <2>1. handler'.at = "mark" /\ Id' = Id
    BY <1>0, <1>4, ThenType DEF NotSeen
  <2> QED
    BY <1>4, <2>1 DEF NotSeen
<1>5. CASE Mark
  <2>1. handler'.at = "queue" /\ Id' = Id /\ Id \in MessageIds /\ (HasId' <=> HasId)
    BY <1>0, <1>5, ThenType, IdType DEF Mark, HasId
  <2>2. UNCHANGED <<queuedFor, intakeFaults>> /\ receipts \subseteq receipts' /\ (HasId => Id \in receipts')
    BY <1>5 DEF Mark
  <2>3. HasId => Id \in Counted \ receipts
    BY <1>5, <1>i DEF Mark
  <2> QED
    BY <1>0, <1>c, <2>1, <2>2, <2>3
<1>6. CASE ReceiptFails
  <2>1. handler'.at \in {"answer", "queue"} /\ Id' = Id /\ Id \in MessageIds /\ (HasId' <=> HasId)
    BY <1>0, <1>6, ThenType, IdType DEF ReceiptFails, HasId
  <2>2. receipts \subseteq receipts' /\ UNCHANGED queuedFor /\ intakeFaults' = intakeFaults + 1
    BY <1>6 DEF ReceiptFails
  <2>3. HasId => queuedFor[Id] <= 1 + intakeFaults /\ (Id \notin receipts => queuedFor[Id] <= intakeFaults)
    BY <1>6, <1>i DEF ReceiptFails
  <2>4. HasId /\ handler.at = "check" /\ Id \in receipts => queuedFor[Id] <= 1 + intakeFaults
    BY <2>3
  <2> QED
    BY <1>0, <1>c, <1>i, <2>1, <2>2, <2>3
<1>7. CASE QueueJob
  <2>1. handler'.at = "answer" /\ Id \in MessageIds
    BY <1>0, <1>7, ThenType, IdType DEF QueueJob
  <2>2. UNCHANGED <<receipts, intakeFaults>>
    BY <1>7 DEF QueueJob
  <2>3. CASE UNCHANGED queuedFor
    BY <2>1, <2>2, <2>3
  <2>4. CASE queuedFor' = [queuedFor EXCEPT ![Id] = @ + 1]
    <3>1. \A i \in MessageIds \ {Id} : queuedFor'[i] = queuedFor[i]
      BY <1>0, <2>4
    <3>2. queuedFor'[Id] = queuedFor[Id] + 1
      BY <1>0, <2>1, <2>4
    <3>3. handler.at = "queue"
      BY <1>7 DEF QueueJob
    <3> QED
      BY <1>0, <1>c, <1>i, <2>1, <2>2, <3>1, <3>2, <3>3
  <2> QED
    BY <1>7, <2>3, <2>4 DEF QueueJob, Enqueue
<1>8. CASE QueueFails
  <2>1. handler'.at = "idle" /\ UNCHANGED receipts /\ intakeFaults' = intakeFaults + 1
        /\ handler.at = "queue" /\ Id \in MessageIds
    BY <1>8, <1>i DEF QueueFails, Free
  <2>2. CASE UNCHANGED queuedFor
    BY <1>0, <1>c, <2>1, <2>2
  <2>3. CASE queuedFor' = [queuedFor EXCEPT ![Id] = @ + 1]
    <3>1. \A i \in MessageIds \ {Id} : queuedFor'[i] = queuedFor[i]
      BY <1>0, <2>3
    <3>2. queuedFor'[Id] = queuedFor[Id] + 1
      BY <1>0, <2>1, <2>3
    <3> QED
      BY <1>0, <1>c, <1>i, <2>1, <3>1, <3>2
  <2> QED
    BY <1>8, <2>2, <2>3 DEF QueueFails, Enqueue
<1>9. CASE Answer
  BY <1>9 DEF Answer, Free
<1>10. CASE WebRestarts
  <2>1. handler'.at = "idle" /\ UNCHANGED <<receipts, queuedFor>> /\ intakeFaults' = intakeFaults + 1
    BY <1>10 DEF WebRestarts, Free
  <2> QED
    BY <1>0, <1>c, <2>1
<1>11. ASSUME NEW j \in Jobs, Start(j) PROVE Paid'
  BY <1>11 DEF Start, Id, HasId
<1>12. CASE Finish
  BY <1>12 DEF Finish, Id, HasId
<1>13. CASE SyncFails
  <2>1. UNCHANGED <<handler, receipts, queuedFor>> /\ Id' = Id /\ (HasId' <=> HasId)
        /\ intakeFaults' = intakeFaults + 1
    BY <1>13 DEF SyncFails, Id, HasId
  <2>2. handler.at = "queue" => Id \in MessageIds
    BY <1>0, IdType
  <2> QED
    BY <1>0, <1>c, <2>1, <2>2
<1>14. CASE Poll
  BY <1>14 DEF Poll, Id, HasId
<1>15. CASE UNCHANGED intakeVars
  BY <1>15 DEF intakeVars, Id, HasId
<1> QED
  BY <1>1, <1>2, <1>3, <1>4, <1>5, <1>6, <1>7, <1>8, <1>9, <1>10, <1>11, <1>12, <1>13, <1>14, <1>15
  DEF IntakeNext, Work

LEMMA ResendInvariant == IntakeSpec => []ResendInv
<1>1. ResendInv /\ [IntakeNext]_intakeVars => ResendInv'
  BY IntakeTypeNext, PaidNext DEF ResendInv
<1> QED
  BY <1>1, ResendInvInit, PTL DEF IntakeSpec

\* Every variable of the webhooks keeps its type.
THEOREM IntakeTypeCorrect == IntakeSpec => []IntakeTypeOK
BY ResendInvariant, PTL DEF ResendInv

\* A message with an id queues one job, and one more per database error or
\* restart at most, however often it is sent (webhooks/routes.py).
THEOREM ResendsHarmless == IntakeSpec => []ResendsAreHarmless
<1>1. ResendInv => ResendsAreHarmless
  BY DEF ResendInv, Paid, Counted, ResendsAreHarmless
<1> QED
  BY <1>1, ResendInvariant, PTL

-----------------------------------------------------------------------------
(* What can be lost.  A message is taken when nothing will queue a job for   *)
(* it any more: it is answered, recorded with no job about to be queued, or  *)
(* about to be answered.  A taken message whose change is not carried over   *)
(* is late.  A late message has a job of its record that waits or runs, each *)
(* its own, or belongs to a set L that the faults pay for.                   *)

Mail == answered \cup wire

Taken(x) ==
    {m \in Mail :
        /\ Source(m) = x /\ Names(m) /\ ~Lookalike(m)
        /\ \/ m \in answered
           \/ m.id \in receipts \cup memory /\ ~(handler.at = "queue" /\ Id = m.id)
           \/ handler = [at |-> "answer", on |-> m]}

Late(x) == {m \in Taken(x) : m.about > arrived[x]}
Unread(x) == {m \in Late(x) : m.about > working.seen[x]}
Running(x) == IF working.job = x THEN 1 ELSE 0

MailInv ==
    /\ IsFiniteSet(Mail)
    /\ \A m \in Mail : m.about <= changed[Source(m)] /\ m.id \in Announcing(From(m), m.of, m.about)
    /\ \A i \in receipts \cup memory : i # Anonymous /\ \E m \in Mail : m.id = i
    /\ handler.at # "idle" => handler.on \in Mail
    /\ handler.at \in {"queue", "answer"} /\ HasId => Id \in receipts \cup memory

Charged(L) ==
    /\ Cardinality(L) <= intakeFaults
    /\ \A x \in Sources :
        /\ Cardinality(Late(x) \ L) <= queue[x] + Running(x)
        /\ Serves(working.job, x) => Cardinality(Unread(x) \ L) <= queue[x]

LossInv == \E L \in SUBSET Mail : Charged(L)

\* No message is handled that was not sent, and what is recorded of one stays
\* while a handler goes by it.
LEMMA MailInvariant == IntakeSpec => []MailInv
<1>1. IntakeInit => MailInv
  BY FS_EmptySet DEF IntakeInit, MailInv, Mail, Free
<1>2. ResendInv /\ MailInv /\ [IntakeNext]_intakeVars => MailInv'
  <2> SUFFICES ASSUME ResendInv, MailInv, [IntakeNext]_intakeVars PROVE MailInv'
    OBVIOUS
  <2>0. IntakeTypeOK /\ InHand
    BY DEF ResendInv
  <2>t. handler \in Handler /\ Mail \subseteq Messages /\ changed \in [Sources -> Nat]
    BY <2>0 DEF IntakeTypeOK, Mail
  <2>n. handler.at # "idle" => Id \in MessageIds /\ \E m \in Mail : m.id = Id
    BY <2>0, IdType DEF MailInv, Id
  <2> USE DEF MailInv, IntakeFault, IntakeFine, door, worker, Now
  <2>1. ASSUME NEW s \in Senders, NEW r \in Subjects, NEW id \in MessageIds, Change(s, r, id)
        PROVE  MailInv'
    <3> DEFINE x == <<s, r>>
               new == [id |-> id, of |-> r, about |-> changed'[x]]
    <3>x. x \in Sources
      BY DEF Sources
    <3>1. changed' = [changed EXCEPT ![x] = @ + 1] /\ wire' = wire \cup {new} /\ answered' = answered
          /\ id \in Announcing(s, r, changed'[x])
      BY <2>1 DEF Change
    <3>i. From(new) = s /\ Source(new) = x /\ new.about = changed'[x]
          /\ new.id \in Announcing(From(new), new.of, new.about)
      <4>1. id[1] = s
        BY <3>1 DEF Announcing, Anonymous, Senders
      <4> QED
        BY <3>1, <4>1 DEF From, Source
    <3> HIDE DEF x, new
    <3>2. Mail' = Mail \cup {new}
      BY <3>1 DEF Mail
    <3>3. IsFiniteSet(Mail')
      BY <3>2, FS_AddElement
    <3>4. \A y \in Sources : changed[y] \in Nat /\ changed'[y] >= changed[y]
      BY <2>t, <3>x, <3>1
    <3>5. ASSUME NEW m \in Mail'
          PROVE  m.about <= changed'[Source(m)] /\ m.id \in Announcing(From(m), m.of, m.about)
      <4>1. CASE m \in Mail
        <5>1. Source(m) \in Sources /\ m.about \in Nat
          BY <2>t, <4>1, MessageKinds
        <5>2. m.about <= changed[Source(m)]
          BY <4>1
        <5> QED
          BY <2>t, <3>1, <3>x, <3>4, <4>1, <5>1, <5>2
      <4>2. CASE m = new
        <5>1. changed'[x] \in Nat
          BY <2>t, <3>1, <3>x
        <5> QED
          BY <3>i, <4>2, <5>1
      <4> QED
        BY <3>2, <4>1, <4>2
    <3>6. UNCHANGED <<handler, receipts, memory>> /\ Id' = Id /\ HasId' = HasId
      BY <2>1 DEF Change, Id, HasId
    <3> QED
      BY <3>2, <3>3, <3>5, <3>6
  <2>m. ASSUME Mail' = Mail, changed' = changed,
               receipts' \cup memory' \subseteq receipts \cup memory \cup {Id},
               receipts' \cup memory' \subseteq receipts \cup memory \/ (handler.at # "idle" /\ HasId),
               handler'.at # "idle" => handler'.on \in Mail,
               handler'.at \in {"queue", "answer"} /\ HasId' => Id' \in (receipts \cup memory)'
        PROVE  MailInv'
    BY <2>m, <2>n DEF HasId
  <2>2. ASSUME NEW m \in wire, Receive(m) PROVE MailInv'
    <3>1. handler'.at = "check" /\ handler'.on \in Mail
      BY <2>2 DEF Receive, Mail
    <3> QED
      BY <2>2, <2>m, <3>1 DEF Receive, Mail
  <2>h. ASSUME NEW at \in {"mark", "queue", "answer"}, handler.at # "idle", Then(at)
        PROVE  handler'.at = at /\ handler'.on = handler.on /\ Id' = Id /\ HasId' = HasId
    BY <2>h, <2>t, <2>0, ThenType DEF HasId
  <2>3. CASE Duplicate
    <3>1. handler'.at = "answer" /\ handler'.on = handler.on /\ Id' = Id
      BY <2>3, <2>h DEF Duplicate
    <3>2. Id \in receipts \cup memory
      BY <2>3 DEF Duplicate, KnownInMemory
    <3> QED
      BY <2>3, <2>m, <3>1, <3>2 DEF Duplicate, Mail
  <2>4. CASE NotSeen
    <3>1. handler'.at = "mark" /\ handler'.on = handler.on /\ Id' = Id
      BY <2>4, <2>h DEF NotSeen
    <3> QED
      BY <2>4, <2>m, <3>1 DEF NotSeen, Mail
  <2>5. CASE Mark
    <3>1. handler'.at = "queue" /\ handler'.on = handler.on /\ Id' = Id /\ HasId' = HasId
      BY <2>5, <2>h DEF Mark
    <3> QED
      BY <2>5, <2>m, <3>1 DEF Mark, Mail
  <2>6. CASE ReceiptFails
    <3>1. handler'.on = handler.on /\ Id' = Id /\ HasId' = HasId
      BY <2>6, <2>h DEF ReceiptFails
    <3> QED
      BY <2>6, <2>m, <3>1 DEF ReceiptFails, Mail
  <2>7. CASE QueueJob
    <3>1. handler'.at = "answer" /\ handler'.on = handler.on /\ Id' = Id /\ HasId' = HasId
      BY <2>7, <2>h DEF QueueJob
    <3> QED
      BY <2>7, <2>m, <3>1 DEF QueueJob, Mail
  <2>8. CASE QueueFails
    BY <2>8, <2>m DEF QueueFails, Mail, Free
  <2>9. CASE Answer
    <3>1. Mail' = Mail
      BY <2>9 DEF Answer, Mail
    <3> QED
      BY <2>9, <2>m, <3>1 DEF Answer, Free
  <2>10. CASE WebRestarts
    BY <2>10, <2>m DEF WebRestarts, Mail, Free
  <2>11. CASE (\E j \in Jobs : Start(j)) \/ Finish \/ SyncFails \/ Poll
    <3>1. UNCHANGED <<changed, wire, answered, receipts, memory, handler>> /\ Id' = Id /\ HasId' = HasId
      BY <2>11 DEF Start, Finish, SyncFails, Poll, Id, HasId
    <3> QED
      BY <3>1 DEF Mail
  <2>12. CASE UNCHANGED intakeVars
    BY <2>12 DEF intakeVars, Mail, Id, HasId
  <2> QED
    BY <2>1, <2>2, <2>3, <2>4, <2>5, <2>6, <2>7, <2>8, <2>9, <2>10, <2>11, <2>12
    DEF IntakeNext, Work
<1> QED
  BY <1>1, <1>2, ResendInvariant, PTL DEF IntakeSpec

\* Of the messages that look the same, one is the first.
Firsts == \A x \in Sources : \A m, n \in Taken(x) : m.id = n.id /\ m.id # Anonymous => m = n

LEMMA OneFirst == IntakeTypeOK => Firsts
<1> SUFFICES ASSUME IntakeTypeOK, NEW x \in Sources, NEW m \in Taken(x), NEW n \in Taken(x),
                    m.id = n.id, m.id # Anonymous
             PROVE  m = n
  BY DEF Firsts
<1>1. m \in Messages /\ n \in Messages /\ m \in Mail /\ n \in Mail
  BY DEF Taken, Mail, IntakeTypeOK
<1>2. ~(m.about < n.about) /\ ~(n.about < m.about)
  BY <1>1 DEF Taken, Lookalike, Mail
<1>3. m.about \in Nat /\ n.about \in Nat
  BY <1>1 DEF Messages
<1>4. m.about = n.about
  BY <1>2, <1>3
<1>5. m.of = n.of
  BY DEF Taken, Source
<1> QED
  BY <1>1, <1>4, <1>5 DEF Messages

\* What is on its way can be counted.
LEMMA Counts ==
  ASSUME MailInv
  PROVE  \A S \in SUBSET Mail : /\ IsFiniteSet(S) /\ Cardinality(S) \in Nat
                                /\ \A T \in SUBSET S : Cardinality(T) <= Cardinality(S)
<1> SUFFICES ASSUME NEW S \in SUBSET Mail
             PROVE  /\ IsFiniteSet(S) /\ Cardinality(S) \in Nat
                    /\ \A T \in SUBSET S : Cardinality(T) <= Cardinality(S)
  OBVIOUS
<1>1. IsFiniteSet(S)
  BY FS_Subset DEF MailInv
<1> QED
  BY <1>1, FS_Subset, FS_CardinalityType

LEMMA LateKnown == \A x : Late(x) \in SUBSET Mail /\ Unread(x) \in SUBSET Late(x)
BY DEF Late, Unread, Taken

\* A step after which no more is late needs no fault.
LEMMA NoneLost ==
  ASSUME IntakeTypeOK, IntakeTypeOK', MailInv, LossInv, intakeFaults' >= intakeFaults,
         Mail \subseteq Mail',
         \A x \in Sources :
            /\ Late(x)' \subseteq Late(x)
            /\ Serves(working'.job, x) => Serves(working.job, x) /\ Unread(x)' \subseteq Unread(x)
            /\ queue'[x] >= queue[x] /\ Running(x)' = Running(x)
  PROVE  LossInv'
<1>1. PICK L \in SUBSET Mail : Charged(L)
  BY DEF LossInv
<1>2. intakeFaults \in Nat /\ intakeFaults' \in Nat /\ Cardinality(L) \in Nat
  BY Counts, IntakeAssumption DEF IntakeTypeOK
<1>3. ASSUME NEW x \in Sources
      PROVE  /\ Cardinality(Late(x)' \ L) <= queue'[x] + Running(x)'
             /\ Serves(working'.job, x) => Cardinality(Unread(x)' \ L) <= queue'[x]
  <2>1. queue[x] \in Nat /\ queue'[x] \in Nat /\ Running(x) \in {0, 1}
    BY DEF IntakeTypeOK, Jobs, Running
  <2>2. /\ Late(x) \ L \in SUBSET Mail /\ Unread(x) \ L \in SUBSET Mail
        /\ Late(x)' \ L \in SUBSET (Late(x) \ L)
        /\ Serves(working'.job, x) => Unread(x)' \ L \in SUBSET (Unread(x) \ L)
    BY LateKnown
  <2>3. /\ Cardinality(Late(x) \ L) \in Nat /\ Cardinality(Late(x)' \ L) \in Nat
        /\ Cardinality(Late(x)' \ L) <= Cardinality(Late(x) \ L)
    BY <2>2, Counts
  <2>4. Serves(working'.job, x) =>
          /\ Cardinality(Unread(x) \ L) \in Nat /\ Cardinality(Unread(x)' \ L) \in Nat
          /\ Cardinality(Unread(x)' \ L) <= Cardinality(Unread(x) \ L)
    BY <2>2, Counts
  <2>5. queue'[x] >= queue[x] /\ Running(x)' = Running(x)
        /\ (Serves(working'.job, x) => Serves(working.job, x))
    OBVIOUS
  <2>6. /\ Cardinality(Late(x) \ L) <= queue[x] + Running(x)
        /\ Serves(working.job, x) => Cardinality(Unread(x) \ L) <= queue[x]
    BY <1>1 DEF Charged
  <2> QED
    BY ONLY <2>1, <2>3, <2>4, <2>5, <2>6
<1>4. Cardinality(L) <= intakeFaults'
  BY <1>1, <1>2 DEF Charged
<1>5. Charged(L)'
  BY <1>3, <1>4 DEF Charged
<1> QED
  BY <1>5 DEF LossInv

\* One more message is late: it has its job, or its fault.
LEMMA OneLost ==
  ASSUME IntakeTypeOK, IntakeTypeOK', MailInv, LossInv, NEW r \in Sources, NEW m \in Mail,
         UNCHANGED <<working, arrived>>, Mail' = Mail,
         Taken(r)' \subseteq Taken(r) \cup {m},
         \A x \in Sources \ {r} : Taken(x)' \subseteq Taken(x) /\ queue'[x] = queue[x],
         \/ queue'[r] = queue[r] + 1 /\ intakeFaults' >= intakeFaults
         \/ queue'[r] = queue[r] /\ intakeFaults' = intakeFaults + 1
  PROVE  LossInv'
<1>1. PICK L \in SUBSET Mail : Charged(L)
  BY DEF LossInv
<1>2. /\ intakeFaults \in Nat /\ intakeFaults' \in Nat
      /\ \A x \in Sources : /\ queue[x] \in Nat /\ queue'[x] \in Nat
                            /\ Running(x) \in {0, 1} /\ Running(x)' = Running(x)
  BY IntakeAssumption DEF IntakeTypeOK, Jobs, Running
<1>3. Cardinality(L) \in Nat /\ IsFiniteSet(L)
  BY Counts
<1>s. \A x \in Sources :
        /\ x # r => Late(x)' \subseteq Late(x) /\ Unread(x)' \subseteq Unread(x)
        /\ Late(x)' \subseteq Late(x) \cup {m} /\ Unread(x)' \subseteq Unread(x) \cup {m}
  BY DEF Late, Unread
<1>c. \A x \in Sources :
        /\ Cardinality(Late(x) \ L) \in Nat /\ Cardinality(Unread(x) \ L) \in Nat
        /\ IsFiniteSet(Late(x) \ L) /\ IsFiniteSet(Unread(x) \ L)
        /\ Cardinality(Late(x) \ L) <= queue[x] + Running(x)
        /\ Serves(working.job, x) => Cardinality(Unread(x) \ L) <= queue[x]
  <2>1. \A x : Late(x) \ L \in SUBSET Mail /\ Unread(x) \ L \in SUBSET Mail
    BY LateKnown
  <2> QED
    BY <1>1, <2>1, Counts DEF Charged
<1>w. \A x : Serves(working'.job, x) <=> Serves(working.job, x)
  OBVIOUS
<1>4. CASE queue'[r] = queue[r] + 1 /\ intakeFaults' >= intakeFaults
  <2>1. ASSUME NEW S, IsFiniteSet(S), NEW T \in SUBSET (S \cup {m})
        PROVE  Cardinality(S) \in Nat /\ Cardinality(T) \in Nat /\ Cardinality(T) <= Cardinality(S) + 1
    <3>1. /\ IsFiniteSet(S \cup {m}) /\ Cardinality(S) \in Nat
          /\ Cardinality(S \cup {m}) \in {Cardinality(S), Cardinality(S) + 1}
      BY <2>1, FS_AddElement, FS_CardinalityType
    <3>2. IsFiniteSet(T) /\ Cardinality(T) <= Cardinality(S \cup {m}) /\ Cardinality(T) \in Nat
      BY <2>1, <3>1, FS_Subset, FS_CardinalityType
    <3> QED
      BY <3>1, <3>2
  <2>2. ASSUME NEW x \in Sources
        PROVE  /\ Cardinality(Late(x)' \ L) <= queue'[x] + Running(x)'
               /\ Serves(working'.job, x) => Cardinality(Unread(x)' \ L) <= queue'[x]
    <3> DEFINE lates == Cardinality(Late(x) \ L)
               unread == Cardinality(Unread(x) \ L)
    <3>c. /\ lates \in Nat /\ unread \in Nat /\ lates <= queue[x] + Running(x)
          /\ Serves(working'.job, x) => unread <= queue[x]
      BY <1>c, <1>w
    <3>w. /\ queue[x] \in Nat /\ queue'[x] \in Nat /\ Running(x) \in {0, 1}
          /\ Running(x)' = Running(x)
      BY <1>2
    <3>1. CASE x = r
      <4>1. /\ Late(x)' \ L \in SUBSET ((Late(x) \ L) \cup {m})
            /\ Unread(x)' \ L \in SUBSET ((Unread(x) \ L) \cup {m})
        BY <1>s
      <4>2. /\ Cardinality(Late(x)' \ L) \in Nat /\ Cardinality(Unread(x)' \ L) \in Nat
            /\ Cardinality(Late(x)' \ L) <= Cardinality(Late(x) \ L) + 1
            /\ Cardinality(Unread(x)' \ L) <= Cardinality(Unread(x) \ L) + 1
        BY <1>c, <2>1, <4>1
      <4>3. queue'[x] = queue[x] + 1
        BY <1>4, <3>1
      <4> QED
        BY ONLY <3>c, <3>w, <4>2, <4>3
    <3>2. CASE x # r
      <4>1. /\ Late(x)' \ L \in SUBSET (Late(x) \ L)
            /\ Unread(x)' \ L \in SUBSET (Unread(x) \ L)
        BY <1>s, <3>2
      <4>2. /\ Cardinality(Late(x)' \ L) <= Cardinality(Late(x) \ L)
            /\ Cardinality(Unread(x)' \ L) <= Cardinality(Unread(x) \ L)
            /\ Cardinality(Late(x)' \ L) \in Nat /\ Cardinality(Unread(x)' \ L) \in Nat
        BY <1>c, <4>1, FS_Subset, FS_CardinalityType
      <4>3. queue'[x] = queue[x]
        BY <3>2
      <4> QED
        BY ONLY <3>c, <3>w, <4>2, <4>3
    <3> QED
      BY <3>1, <3>2
  <2>3. Cardinality(L) <= intakeFaults'
    BY <1>1, <1>2, <1>3, <1>4 DEF Charged
  <2>4. Charged(L)'
    BY <2>2, <2>3 DEF Charged
  <2> QED
    BY <2>4 DEF LossInv
<1>5. CASE queue'[r] = queue[r] /\ intakeFaults' = intakeFaults + 1
  <2> DEFINE M == L \cup {m}
  <2>1. M \in SUBSET Mail' /\ Cardinality(M) <= intakeFaults'
    <3>1. Cardinality(M) <= Cardinality(L) + 1 /\ Cardinality(M) \in Nat
      <4>1. /\ Cardinality(M) \in {Cardinality(L), Cardinality(L) + 1}
        BY <1>3, FS_AddElement
      <4> QED
        BY <1>3, <4>1
    <3> HIDE DEF M
    <3>2. Cardinality(M) <= intakeFaults'
      BY <1>1, <1>2, <1>3, <1>5, <3>1 DEF Charged
    <3> QED
      BY <3>2 DEF M
  <2>2. ASSUME NEW x \in Sources
        PROVE  /\ Cardinality(Late(x)' \ M) <= queue'[x] + Running(x)'
               /\ Serves(working'.job, x) => Cardinality(Unread(x)' \ M) <= queue'[x]
    <3>1. Late(x)' \ M \in SUBSET (Late(x) \ L) /\ Unread(x)' \ M \in SUBSET (Unread(x) \ L)
      BY <1>s
    <3> HIDE DEF M
    <3>2. /\ Cardinality(Late(x)' \ M) <= Cardinality(Late(x) \ L)
          /\ Cardinality(Unread(x)' \ M) <= Cardinality(Unread(x) \ L)
          /\ Cardinality(Late(x)' \ M) \in Nat /\ Cardinality(Unread(x)' \ M) \in Nat
      BY <1>c, <3>1, FS_Subset, FS_CardinalityType
    <3>3. queue'[x] = queue[x]
      BY <1>5
    <3> QED
      BY ONLY <1>2, <1>c, <1>w, <3>2, <3>3
  <2> HIDE DEF M
  <2>3. Charged(M)'
    BY <2>1, <2>2 DEF Charged
  <2> QED
    BY <2>1, <2>3 DEF LossInv
<1> QED
  BY <1>4, <1>5

\* A step of the handler takes the message in hand at most, and that only when
\* its job was about to be queued.
InHandOnly(m) == handler.at = "queue" /\ ((m.id = Id /\ HasId) \/ m = handler.on)

LEMMA HandlerTakes ==
  ASSUME IntakeTypeOK, InHand, MailInv, Mail' = Mail,
         answered' \subseteq answered
            \cup {m \in wire : /\ m.id \in receipts \cup memory \/ handler = [at |-> "answer", on |-> m]
                               /\ ~(handler.at = "queue" /\ Id = m.id)},
         \/ receipts' \cup memory' \subseteq receipts \cup memory
         \/ /\ receipts' \cup memory' \subseteq receipts \cup memory \cup {Id}
            /\ handler'.at = "queue" /\ Id' = Id,
         \/ handler'.at # "answer"
         \/ handler'.on = handler.on /\ handler.at = "queue"
         \/ handler'.on = handler.on /\ handler.at # "queue" /\ Id \in receipts \cup memory
  PROVE  /\ \A x \in Sources : \A m \in Taken(x)' : m \in Taken(x) \/ InHandOnly(m)
         /\ \A x \in Sources : \A m \in Taken(x)' : Source(m) = x /\ Names(m)
<1> SUFFICES ASSUME NEW x \in Sources, NEW m \in Taken(x)'
             PROVE  /\ m \in Taken(x) \/ InHandOnly(m)
                    /\ Source(m) = x /\ Names(m)
  OBVIOUS
<1>1. m \in Mail /\ Source(m) = x /\ Names(m)
  BY DEF Taken
<1>2. ~Lookalike(m)
  BY DEF Taken, Lookalike, Mail
<1>3. \/ m \in answered'
      \/ m.id \in (receipts \cup memory)' /\ ~(handler'.at = "queue" /\ Id' = m.id)
      \/ handler' = [at |-> "answer", on |-> m]
  BY DEF Taken
<1>4. ASSUME m.id \in receipts \cup memory PROVE m \in Taken(x) \/ InHandOnly(m)
  <2>1. m.id # Anonymous
    BY <1>4 DEF MailInv
  <2>2. CASE handler.at = "queue" /\ Id = m.id
    BY <2>1, <2>2 DEF InHandOnly, HasId
  <2>3. CASE ~(handler.at = "queue" /\ Id = m.id)
    BY <1>1, <1>2, <1>4, <2>3 DEF Taken
  <2> QED
    BY <2>2, <2>3
<1>5. CASE m \in answered'
  <2>1. CASE m \in answered
    BY <1>1, <1>2, <2>1 DEF Taken
  <2>2. CASE m \notin answered
    BY <1>1, <1>2, <1>4, <1>5, <2>2 DEF Taken
  <2> QED
    BY <2>1, <2>2
<1>6. CASE m.id \in (receipts \cup memory)' /\ ~(handler'.at = "queue" /\ Id' = m.id)
  <2>1. m.id \in receipts \cup memory
    BY <1>6
  <2> QED
    BY <1>1, <1>4, <2>1
<1>7. CASE handler' = [at |-> "answer", on |-> m]
  <2>1. handler'.at = "answer" /\ handler'.on = m
    BY <1>7
  <2>2. CASE handler.at = "queue"
    BY <1>1, <2>1, <2>2 DEF InHandOnly
  <2>3. CASE handler.at # "queue"
    <3>1. m.id \in receipts \cup memory
      BY <2>1, <2>3 DEF Id
    <3> QED
      BY <1>1, <1>4, <3>1
  <2> QED
    BY <2>2, <2>3
<1> QED
  BY <1>1, <1>3, <1>5, <1>6, <1>7

LEMMA LossInvariant == IntakeSpec => []LossInv
<1>1. IntakeInit => LossInv
  <2> SUFFICES ASSUME IntakeInit PROVE LossInv
    OBVIOUS
  <2>1. \A x \in Sources : Late(x) \ {} = {} /\ Unread(x) \ {} = {}
    BY DEF IntakeInit, Late, Unread, Taken, Mail
  <2>2. \A x \in Sources : queue[x] = 0 /\ Running(x) \in {0, 1} /\ queue[x] + Running(x) >= 0
    BY DEF IntakeInit, Jobs, Running
  <2>3. Cardinality({}) = 0 /\ intakeFaults = 0
    BY FS_EmptySet DEF IntakeInit
  <2>4. Charged({})
    BY <2>1, <2>2, <2>3 DEF Charged
  <2> QED
    BY <2>4 DEF LossInv
<1>2. ResendInv /\ ResendInv' /\ MailInv /\ MailInv' /\ LossInv /\ [IntakeNext]_intakeVars => LossInv'
  <2> SUFFICES ASSUME ResendInv, ResendInv', MailInv, MailInv', LossInv, [IntakeNext]_intakeVars
               PROVE  LossInv'
    OBVIOUS
  <2>0. IntakeTypeOK /\ InHand /\ IntakeTypeOK'
    BY DEF ResendInv
  <2>q. /\ \A x \in Sources : queue[x] \in Nat /\ x \in Jobs
        /\ intakeFaults \in Nat
    BY <2>0, IntakeAssumption DEF IntakeTypeOK, Jobs
  <2>a. \A x \in Sources : arrived[x] \in Nat /\ working.seen[x] \in Nat /\ changed[x] \in Nat
    BY <2>0, IntakeAssumption DEF IntakeTypeOK
  <2>m. \A m \in Mail : m \in Messages /\ m.about \in Nat
    <3>1. Mail \subseteq Messages
      BY <2>0 DEF Mail, IntakeTypeOK
    <3> QED
      BY <3>1, MessageKinds
  <2> USE DEF IntakeFault, IntakeFine, door, worker, Now
  \* Without a new job, a new fault or a sync, it is enough that no more is taken.
  <2>k. ASSUME UNCHANGED <<arrived, working>>, intakeFaults' >= intakeFaults, Mail \subseteq Mail',
               \A x \in Sources : queue'[x] >= queue[x],
               \A x \in Sources : Taken(x)' \subseteq Taken(x)
        PROVE  LossInv'
    <3>1. \A x \in Sources : Late(x)' \subseteq Late(x) /\ Unread(x)' \subseteq Unread(x)
      BY <2>k DEF Late, Unread
    <3>2. \A x \in Sources : Running(x)' = Running(x)
      BY <2>k DEF Running
    <3> QED
      BY <2>0, <2>k, <3>1, <3>2, NoneLost
  <2>s. \A x \in Sources : queue'[x] = queue[x] => queue'[x] >= queue[x]
    BY <2>q
  \* A step that takes the message in hand, with its job or with a fault.
  <2>g. ASSUME UNCHANGED <<arrived, working>>, handler.at = "queue", Mail' = Mail,
               \A x \in Sources : \A m \in Taken(x)' : m \in Taken(x) \/ InHandOnly(m),
               \A x \in Sources : \A m \in Taken(x)' : Source(m) = x,
               \A x \in Sources : x # Source(handler.on) => queue'[x] = queue[x],
               \/ queue'[Source(handler.on)] = queue[Source(handler.on)] + 1 /\ intakeFaults' >= intakeFaults
               \/ queue'[Source(handler.on)] = queue[Source(handler.on)] /\ intakeFaults' = intakeFaults + 1
        PROVE  LossInv'
    <3>0. /\ handler.on \in Mail /\ handler.on \in Messages /\ Id = handler.on.id
          /\ Source(handler.on) \in Sources
      BY <2>0, <2>g, MessageKinds DEF MailInv, InHand, Id
    <3>r. PICK r \in Sources : r = Source(handler.on)
      BY <3>0
    <3>f. Firsts /\ Firsts'
      <4>1. IntakeTypeOK' => Firsts'
        BY OneFirst, PTL
      <4> QED
        BY <2>0, <4>1, OneFirst
    \* A look-alike of the message in hand is of its record, or has a look-alike.
    <3>1. ASSUME NEW x \in Sources, NEW m \in Taken(x)', InHandOnly(m)
          PROVE  x = r
      <4>1. CASE m = handler.on
        BY <2>g, <3>r, <4>1
      <4>2. CASE m.id = Id /\ HasId
        <5>1. m \in Mail /\ Source(m) = x /\ Names(m)
          BY <2>g DEF Taken
        <5>2. m \in Messages /\ From(m) = From(handler.on) /\ Names(handler.on)
          BY <2>0, <3>0, <4>2, <5>1 DEF From, Names, Mail, IntakeTypeOK
        <5>3. /\ m.id \in Announcing(From(m), m.of, m.about)
              /\ m.id \in Announcing(From(m), handler.on.of, handler.on.about)
          BY <3>0, <4>2, <5>1, <5>2 DEF MailInv
        <5>4. m.of = handler.on.of
          <6>1. CASE From(m) = "hubspot"
            <7>1. /\ m.id = <<"hubspot", m.of, m.about>>
                  /\ m.id = <<"hubspot", handler.on.of, handler.on.about>>
              BY <4>2, <5>3, <6>1 DEF Announcing, HasId
            <7> QED
              BY <7>1
          <6>2. CASE From(m) # "hubspot"
            <7>1. /\ \E b \in Bodies : m.id = <<"aquira", b>> /\ (b \in Nameless \/ SubjectOf[b] = m.of)
                  /\ \E b \in Bodies : /\ m.id = <<"aquira", b>>
                                       /\ b \in Nameless \/ SubjectOf[b] = handler.on.of
              BY <5>3, <6>2 DEF Announcing
            <7> QED
              BY <5>1, <7>1 DEF Names
          <6> QED
            BY <6>1, <6>2
        <5> QED
          BY <3>r, <5>1, <5>2, <5>4 DEF Source
      <4> QED
        BY <3>1, <4>1, <4>2 DEF InHandOnly
    <3>2. \E m \in Mail : Taken(r)' \subseteq Taken(r) \cup {m}
      <4>0. \A m, n \in Taken(r)' : m.id = n.id /\ m.id # Anonymous => m = n
        BY <3>0, <3>f DEF Firsts
      <4>1. CASE \E m \in Taken(r)' : m.id = Id
        <5>1. PICK m \in Taken(r)' : m.id = Id
          BY <4>1
        <5>2. CASE HasId
          <6>1. Taken(r)' \subseteq Taken(r) \cup {m}
            BY <2>g, <3>0, <4>0, <5>1, <5>2 DEF InHandOnly, HasId
          <6>2. m \in Mail
            BY <2>g DEF Taken
          <6> QED
            BY <6>1, <6>2
        <5>3. CASE ~HasId
          BY <2>g, <3>0, <5>3 DEF InHandOnly
        <5> QED
          BY <5>2, <5>3
      <4>2. CASE ~ \E m \in Taken(r)' : m.id = Id
        BY <2>g, <3>0, <4>2 DEF InHandOnly
      <4> QED
        BY <4>1, <4>2
    <3>3. \A x \in Sources \ {r} : Taken(x)' \subseteq Taken(x) /\ queue'[x] = queue[x]
      <4>1. \A x \in Sources \ {r} : \A m \in Taken(x)' : m \in Taken(x)
        BY <2>g, <3>1
      <4> QED
        BY <2>g, <3>r, <4>1
    <3>4. \/ queue'[r] = queue[r] + 1 /\ intakeFaults' >= intakeFaults
          \/ queue'[r] = queue[r] /\ intakeFaults' = intakeFaults + 1
      BY <2>g, <3>r
    <3> QED
      BY <2>0, <2>g, <3>0, <3>2, <3>3, <3>4, OneLost
  <2>1. ASSUME NEW s \in Senders, NEW r \in Subjects, NEW id \in MessageIds, Change(s, r, id)
        PROVE  LossInv'
    <3> DEFINE x == <<s, r>>
               new == [id |-> id, of |-> r, about |-> changed'[x]]
    <3>1. /\ x \in Sources /\ changed' = [changed EXCEPT ![x] = @ + 1]
          /\ id \in Announcing(s, r, changed'[x])
      BY <2>1 DEF Change, Sources
    <3>i. new.id = id /\ new.of = r /\ new.about = changed'[x]
      OBVIOUS
    <3>2. Mail' = Mail \cup {new} /\ answered' = answered
      BY <2>1 DEF Change, Mail
    <3> HIDE DEF x, new
    <3>a. changed[x] \in Nat /\ changed'[x] = changed[x] + 1
      BY <2>0, <3>1 DEF IntakeTypeOK
    <3>3. UNCHANGED <<handler, receipts, memory>> /\ Id' = Id
      BY <2>1 DEF Change, Id
    <3>4. ASSUME NEW y \in Sources, NEW n \in Taken(y)' PROVE n \in Taken(y)
      <4>1. CASE n \in Mail
        <5>1. ~Lookalike(n)
          BY <3>2 DEF Taken, Lookalike, Mail
        <5> QED
          BY <3>2, <3>3, <4>1, <5>1 DEF Taken
      <4>2. CASE n \notin Mail
        <5>1. n = new /\ Names(n)
          BY <3>2, <4>2 DEF Taken
        <5>h. handler # [at |-> "answer", on |-> n]
          BY <4>2 DEF MailInv
        <5>2. n.id \in receipts \cup memory
          BY <3>2, <3>3, <4>2, <5>h DEF Taken, Mail
        <5>3. PICK m \in Mail : m.id = id /\ id # Anonymous
          BY <3>i, <5>1, <5>2 DEF MailInv
        <5>4. m \in Messages /\ From(m) = s
          <6>1. id[1] = s
            BY <3>1 DEF Announcing, Anonymous, Senders
          <6> QED
            BY <2>0, <5>3, <6>1 DEF Mail, IntakeTypeOK, From
        <5>5. id \in Announcing(s, m.of, m.about)
          BY <5>3, <5>4 DEF MailInv
        <5>6. m.of = r
          <6>1. CASE s = "hubspot"
            BY <3>1, <5>3, <5>5, <6>1 DEF Announcing
          <6>2. CASE s # "hubspot"
            <7>1. /\ \E b \in Bodies : id = <<"aquira", b>> /\ (b \in Nameless \/ SubjectOf[b] = m.of)
                  /\ \E b \in Bodies : id = <<"aquira", b>> /\ (b \in Nameless \/ SubjectOf[b] = r)
              BY <3>1, <5>5, <6>2 DEF Announcing
            <7> QED
              BY <3>i, <5>1, <7>1 DEF Names
          <6> QED
            BY <6>1, <6>2
        <5>7. m.about \in Nat /\ m.about <= changed[x]
          BY <5>4, <5>6, MessageKinds DEF MailInv, Source, x
        <5>8. m.about < n.about /\ m.id = n.id
          BY <3>a, <3>i, <5>1, <5>3, <5>7
        <5>9. Lookalike(n)'
          BY <3>2, <5>3, <5>4, <5>8 DEF Lookalike, Mail
        <5> QED
          BY <5>9 DEF Taken
      <4> QED
        BY <4>1, <4>2
    <3>5. UNCHANGED <<arrived, working, queue, intakeFaults>>
      BY <2>1 DEF Change
    <3> QED
      BY <2>q, <2>s, <2>k, <3>2, <3>4, <3>5
  <2>2. ASSUME NEW m \in wire, Receive(m) PROVE LossInv'
    <3>1. /\ handler.at # "queue" /\ UNCHANGED <<answered, receipts, memory>> /\ Mail' = Mail
          /\ handler'.at # "answer"
      BY <2>2 DEF Receive, Mail
    <3>2. \A x \in Sources : Taken(x)' \subseteq Taken(x)
      BY <2>0, <3>1, HandlerTakes DEF InHandOnly
    <3> QED
      BY <2>2, <2>q, <2>s, <2>k, <3>1, <3>2 DEF Receive
  <2>h. ASSUME NEW at \in {"mark", "queue", "answer"}, handler.at # "idle", Then(at)
        PROVE  handler'.at = at /\ handler'.on = handler.on /\ Id' = Id
    BY <2>h, <2>0, ThenType DEF IntakeTypeOK
  <2>3. CASE Duplicate \/ NotSeen
    <3>1. handler.at # "queue" /\ UNCHANGED <<answered, receipts>> /\ Mail' = Mail
      BY <2>3 DEF Duplicate, NotSeen, Mail
    <3>2. receipts' \cup memory' \subseteq receipts \cup memory
      BY <2>3 DEF Duplicate, NotSeen, KnownInMemory
    <3>3. UNCHANGED <<arrived, working, queue, intakeFaults>>
      BY <2>3 DEF Duplicate, NotSeen
    <3>4. handler'.at # "answer" \/ (handler'.on = handler.on /\ Id \in receipts \cup memory)
      <4>1. CASE Duplicate
        BY <2>h, <4>1 DEF Duplicate, KnownInMemory
      <4>2. CASE NotSeen
        <5>1. handler'.at = "mark"
          BY <2>h, <4>2 DEF NotSeen
        <5> QED
          BY <5>1
      <4> QED
        BY <2>3, <4>1, <4>2
    <3>5. \A x \in Sources : Taken(x)' \subseteq Taken(x)
      BY <2>0, <3>1, <3>2, <3>4, HandlerTakes DEF InHandOnly
    <3> QED
      BY <2>q, <2>s, <2>k, <3>1, <3>3, <3>5
  <2>4. CASE Mark
    <3>1. handler.at # "queue" /\ answered' = answered /\ Mail' = Mail
      BY <2>4 DEF Mark, Mail
    <3>2. /\ receipts' \cup memory' \subseteq receipts \cup memory \cup {Id}
          /\ handler'.at = "queue" /\ Id' = Id
      BY <2>4, <2>h DEF Mark
    <3>3. \A x \in Sources : Taken(x)' \subseteq Taken(x)
      BY <2>0, <3>1, <3>2, HandlerTakes DEF InHandOnly
    <3>4. UNCHANGED <<arrived, working, queue, intakeFaults>>
      BY <2>4 DEF Mark
    <3> QED
      BY <2>q, <2>s, <2>k, <3>1, <3>3, <3>4
  <2>5. CASE ReceiptFails
    <3>1. handler.at # "queue" /\ answered' = answered /\ Mail' = Mail
      BY <2>5 DEF ReceiptFails, Mail
    <3>2. /\ receipts' \cup memory' \subseteq receipts \cup memory \cup {Id}
          /\ Id' = Id /\ handler'.on = handler.on
          /\ handler'.at = "queue" \/ Id \in memory
      BY <2>5, <2>h DEF ReceiptFails
    <3>3. \/ receipts' \cup memory' \subseteq receipts \cup memory
          \/ handler'.at = "queue"
      BY <3>2
    <3>4. \/ handler'.at # "answer" \/ Id \in receipts \cup memory
      BY <3>2
    <3>5. \A x \in Sources : Taken(x)' \subseteq Taken(x)
      BY <2>0, <3>1, <3>2, <3>3, <3>4, HandlerTakes DEF InHandOnly
    <3>6. UNCHANGED <<arrived, working, queue>> /\ intakeFaults' = intakeFaults + 1
      BY <2>5 DEF ReceiptFails
    <3> QED
      BY <2>q, <2>s, <2>k, <3>1, <3>5, <3>6
  <2>6. CASE QueueJob
    <3>1. handler.at = "queue" /\ UNCHANGED <<answered, receipts, memory, arrived, working, intakeFaults>>
          /\ Mail' = Mail
      BY <2>6 DEF QueueJob, Mail
    <3>h. handler'.on = handler.on
      BY <2>6, <2>h DEF QueueJob
    <3>2. /\ \A x \in Sources : \A m \in Taken(x)' : m \in Taken(x) \/ InHandOnly(m)
          /\ \A x \in Sources : \A m \in Taken(x)' : Source(m) = x /\ Names(m)
      BY <2>0, <3>1, <3>h, HandlerTakes
    <3>3. CASE Names(handler.on)
      <4>1. Source(handler.on) \in Sources /\ Source(handler.on) \in Jobs
        BY <2>0, <3>1, MessageKinds DEF InHand
      <4>2. queue' = [queue EXCEPT ![Source(handler.on)] = @ + 1]
        BY <2>6, <3>3 DEF QueueJob, Enqueue
      <4>3. /\ queue'[Source(handler.on)] = queue[Source(handler.on)] + 1
            /\ \A x \in Sources : x # Source(handler.on) => queue'[x] = queue[x]
        BY <2>0, <4>1, <4>2 DEF IntakeTypeOK, Jobs
      <4>4. intakeFaults' >= intakeFaults
        BY <2>q, <3>1
      <4> QED
        BY <2>g, <3>1, <3>2, <4>3, <4>4
    <3>4. CASE ~Names(handler.on)
      <4>1. \A m : InHandOnly(m) => ~Names(m)
        BY <3>4 DEF Names, Id, InHandOnly
      <4>2. queue' = queue
        BY <2>6, <3>4 DEF QueueJob
      <4>3. \A x \in Sources : Taken(x)' \subseteq Taken(x)
        BY <3>2, <4>1
      <4> QED
        BY <2>q, <2>s, <2>k, <3>1, <4>2, <4>3
    <3> QED
      BY <3>3, <3>4
  <2>7. CASE QueueFails \/ WebRestarts
    <3>1. /\ UNCHANGED <<answered, receipts, arrived, working>> /\ Mail' = Mail
          /\ receipts' \cup memory' \subseteq receipts \cup memory
          /\ intakeFaults' = intakeFaults + 1 /\ handler'.at = "idle"
      BY <2>7 DEF QueueFails, WebRestarts, Mail, Free
    <3>2. /\ \A x \in Sources : \A m \in Taken(x)' : m \in Taken(x) \/ InHandOnly(m)
          /\ \A x \in Sources : \A m \in Taken(x)' : Source(m) = x /\ Names(m)
      BY <2>0, <3>1, HandlerTakes
    <3>3. CASE handler.at = "queue"
      <4>1. Source(handler.on) \in Sources /\ Source(handler.on) \in Jobs
        BY <2>0, <3>3, MessageKinds DEF InHand
      <4>2. \/ queue' = queue
            \/ queue' = [queue EXCEPT ![Source(handler.on)] = @ + 1]
        BY <2>7 DEF QueueFails, WebRestarts, Enqueue
      <4>3. /\ \/ queue'[Source(handler.on)] = queue[Source(handler.on)] + 1
               \/ queue'[Source(handler.on)] = queue[Source(handler.on)]
            /\ \A x \in Sources : x # Source(handler.on) => queue'[x] = queue[x]
        BY <2>0, <4>1, <4>2 DEF IntakeTypeOK, Jobs
      <4>4. intakeFaults' >= intakeFaults
        BY <2>q, <3>1
      <4> QED
        BY <2>g, <3>1, <3>2, <3>3, <4>3, <4>4
    <3>4. CASE handler.at # "queue"
      <4>1. queue' = queue
        BY <2>7, <3>4 DEF QueueFails, WebRestarts
      <4>2. \A x \in Sources : Taken(x)' \subseteq Taken(x)
        BY <3>2, <3>4 DEF InHandOnly
      <4> QED
        BY <2>q, <2>s, <2>k, <3>1, <4>1, <4>2
    <3> QED
      BY <3>3, <3>4
  <2>8. CASE Answer
    <3>1. handler.at = "answer" /\ handler.on \in Mail /\ handler'.at = "idle"
      BY <2>8 DEF Answer, MailInv, Free
    <3>h. handler = [at |-> "answer", on |-> handler.on]
      BY <2>0, <3>1 DEF IntakeTypeOK, Handler
    <3>2. Mail' = Mail /\ UNCHANGED <<receipts, memory, arrived, working, queue, intakeFaults>>
      BY <2>8, <3>1 DEF Answer, Mail
    <3>3. answered' \subseteq answered \cup {handler.on}
      BY <2>8 DEF Answer
    <3>4. answered' \subseteq answered
            \cup {m \in wire : /\ m.id \in receipts \cup memory \/ handler = [at |-> "answer", on |-> m]
                               /\ ~(handler.at = "queue" /\ Id = m.id)}
      BY <3>1, <3>3, <3>h DEF Mail
    <3>5. \A x \in Sources : Taken(x)' \subseteq Taken(x)
      BY <2>0, <3>1, <3>2, <3>4, HandlerTakes DEF InHandOnly
    <3> QED
      BY <2>q, <2>s, <2>k, <3>2, <3>5
  <2>w. ASSUME UNCHANGED <<wire, answered, receipts, memory, handler>>
        PROVE  \A x \in Sources : Taken(x)' = Taken(x)
    BY <2>w DEF Taken, Mail, Lookalike, Id
  <2>i. /\ \A x \in Sources : Running(x) \in {0, 1}
        /\ working = Idle => \A x \in Sources : Running(x) = 0 /\ ~Serves(working.job, x)
        /\ working' = Idle => \A x \in Sources : Running(x)' = 0 /\ ~Serves(working'.job, x)
    BY DEF Running, Idle, Sources, Serves, EveryRecord
  <2>9. ASSUME NEW j \in Jobs, Start(j) PROVE LossInv'
    <3>1. UNCHANGED <<wire, answered, receipts, memory, handler, changed, arrived, intakeFaults>>
          /\ Mail' = Mail
      BY <2>9 DEF Start, Mail
    <3>2. \A x \in Sources : Taken(x)' = Taken(x) /\ Late(x)' = Late(x)
      BY <2>w, <3>1 DEF Late
    <3>3. PICK L \in SUBSET Mail : Charged(L)
      BY DEF LossInv
    <3>4. working = Idle /\ queue' = [queue EXCEPT ![j] = @ - 1] /\ queue[j] > 0
          /\ working' = [job |-> j, seen |-> [x \in Sources |-> IF Serves(j, x) THEN changed[x] ELSE 0]]
      BY <2>9 DEF Start
    <3>5. ASSUME NEW x \in Sources
          PROVE  /\ Cardinality(Late(x)' \ L) <= queue'[x] + Running(x)'
                 /\ Serves(working'.job, x) => Cardinality(Unread(x)' \ L) <= queue'[x]
      <4>1. queue[x] \in Nat /\ queue'[x] \in Nat
        BY <2>0 DEF IntakeTypeOK, Jobs
      <4>2. Late(x) \ L \in SUBSET Mail
        BY LateKnown
      <4>3. /\ Cardinality(Late(x) \ L) \in Nat /\ Cardinality(Late(x) \ L) <= queue[x]
            /\ Late(x)' \ L = Late(x) \ L
        <5>1. Cardinality(Late(x) \ L) <= queue[x] + Running(x)
          BY <3>3 DEF Charged
        <5>2. Running(x) = 0
          BY <2>i, <3>4
        <5>3. Cardinality(Late(x) \ L) \in Nat
          BY <4>2, Counts
        <5> QED
          BY <3>2, <4>1, <5>1, <5>2, <5>3
      <4>4. Cardinality(Late(x)' \ L) <= queue'[x] + Running(x)'
        <5>1. CASE x = j
          <6>1. Running(x)' = 1 /\ queue'[x] = queue[x] - 1
            BY <2>0, <3>4, <5>1 DEF Running, IntakeTypeOK
          <6>2. Cardinality(Late(x)' \ L) = Cardinality(Late(x) \ L)
            BY <4>3
          <6> QED
            BY <4>1, <4>3, <6>1, <6>2
        <5>2. CASE x # j
          <6>1. Running(x)' = 0 /\ queue'[x] = queue[x]
            BY <2>0, <3>4, <5>2 DEF Running, IntakeTypeOK, Jobs
          <6>2. Cardinality(Late(x)' \ L) = Cardinality(Late(x) \ L)
            BY <4>3
          <6> QED
            BY <4>1, <4>3, <6>1, <6>2
        <5> QED
          BY <5>1, <5>2
      <4>5. ASSUME Serves(working'.job, x) PROVE Unread(x)' \ L = {}
        <5>1. working'.seen[x] = changed[x]
          BY <3>4, <4>5
        <5>2. \A m \in Mail : Source(m) = x => ~(m.about > changed[x])
          <6>1. \A m \in Mail : m.about <= changed[Source(m)]
            BY DEF MailInv
          <6> QED
            BY <2>a, <2>m, <6>1
        <5> QED
          BY <3>2, <5>1, <5>2 DEF Unread, Late, Taken
      <4> QED
        BY <4>1, <4>4, <4>5, FS_EmptySet
    <3>6. Charged(L)'
      BY <3>1, <3>3, <3>5 DEF Charged
    <3> QED
      BY <3>1, <3>6 DEF LossInv
  <2>10. CASE Finish
    <3>1. UNCHANGED <<wire, answered, receipts, memory, handler, queue, intakeFaults>> /\ working' = Idle
          /\ Mail' = Mail
      BY <2>10 DEF Finish, Mail
    <3>2. \A x \in Sources : Taken(x)' = Taken(x)
      BY <2>w, <3>1
    <3>3. PICK L \in SUBSET Mail : Charged(L)
      BY DEF LossInv
    <3>4. ASSUME NEW x \in Sources
          PROVE  Cardinality(Late(x)' \ L) <= queue'[x] + Running(x)'
      <4>1. queue[x] \in Nat /\ queue'[x] = queue[x] /\ Running(x)' = 0
        BY <2>i, <2>q, <3>1
      <4>2. arrived'[x] = IF working.seen[x] > arrived[x] THEN working.seen[x] ELSE arrived[x]
        BY <2>10 DEF Finish
      <4>3. /\ \A m \in Mail : m.about \in Nat
            /\ working.seen[x] \in Nat /\ arrived[x] \in Nat
        BY <2>a, <2>m
      <4>4. Late(x)' \in SUBSET Unread(x) /\ Unread(x) \in SUBSET Late(x) /\ Late(x) \in SUBSET Mail
        BY <3>2, <4>2, <4>3 DEF Late, Unread, Taken
      <4>5. /\ Unread(x) \ L \in SUBSET Mail /\ Late(x)' \ L \in SUBSET (Unread(x) \ L)
            /\ Late(x) \ L \in SUBSET Mail /\ Unread(x) \ L \in SUBSET (Late(x) \ L)
        BY <4>4
      <4> DEFINE late1 == Cardinality(Late(x)' \ L)
                 unread == Cardinality(Unread(x) \ L)
                 lates == Cardinality(Late(x) \ L)
      <4>6. late1 \in Nat /\ unread \in Nat /\ lates \in Nat /\ late1 <= unread /\ unread <= lates
        BY <4>5, Counts
      <4>7. lates <= queue[x] + Running(x) /\ (Serves(working.job, x) => unread <= queue[x])
        BY <3>3 DEF Charged
      <4>8. ~Serves(working.job, x) => Running(x) = 0
        BY DEF Serves, Running
      <4> HIDE DEF late1, unread, lates
      <4>9. late1 <= queue'[x] + Running(x)'
        BY <4>1, <4>6, <4>7, <4>8
      <4> QED
        BY <4>9 DEF late1
    <3>5. Charged(L)'
      BY <2>i, <3>1, <3>3, <3>4 DEF Charged
    <3> QED
      BY <3>1, <3>5 DEF LossInv
  <2>11. CASE SyncFails
    <3>1. /\ UNCHANGED <<wire, answered, receipts, memory, handler, queue, arrived>>
          /\ working' = Idle /\ intakeFaults' = intakeFaults + 1 /\ Mail' = Mail
      BY <2>11 DEF SyncFails, Mail
    <3>2. \A x \in Sources : Late(x)' = Late(x)
      BY <2>w, <3>1 DEF Late
    <3>3. PICK L \in SUBSET Mail : Charged(L)
      BY DEF LossInv
    \* The job that failed was to carry one message over.
    <3>4. PICK M \in SUBSET Mail :
            /\ Cardinality(M) <= intakeFaults'
            /\ \A x \in Sources : Cardinality(Late(x) \ M) <= queue[x]
      <4>0. IsFiniteSet(L) /\ Cardinality(L) \in Nat /\ Cardinality(L) <= intakeFaults
        BY <3>3, Counts DEF Charged
      <4>l. \A x \in Sources : /\ Late(x) \ L \in SUBSET Mail
                               /\ IsFiniteSet(Late(x) \ L) /\ Cardinality(Late(x) \ L) \in Nat
                               /\ Cardinality(Late(x) \ L) <= queue[x] + Running(x)
        BY <3>3, LateKnown, Counts DEF Charged
      <4>1. CASE \E x \in Sources : working.job = x /\ Late(x) \ L # {}
        <5>0. PICK x \in Sources : working.job = x /\ Late(x) \ L # {}
          BY <4>1
        <5>1. working.job = x
          BY <5>0
        <5>m. PICK m \in Late(x) \ L : TRUE
          BY <5>0
        <5> DEFINE M == L \cup {m}
        <5>2. Cardinality(M) <= intakeFaults' /\ M \in SUBSET Mail
          <6>1. Cardinality(M) \in {Cardinality(L), Cardinality(L) + 1}
            BY <4>0, FS_AddElement
          <6>2. M \in SUBSET Mail
            BY <4>l
          <6> HIDE DEF M
          <6>3. Cardinality(M) <= intakeFaults'
            BY <2>q, <3>1, <4>0, <6>1
          <6> QED
            BY <6>2, <6>3
        <5>3. ASSUME NEW y \in Sources PROVE Cardinality(Late(y) \ M) <= queue[y]
          <6>1. CASE y = x
            <7>1. Late(y) \ M = (Late(y) \ L) \ {m} /\ m \in Late(y) \ L
              BY <6>1
            <7>2. Cardinality((Late(y) \ L) \ {m}) = Cardinality(Late(y) \ L) - 1
              BY <4>l, <7>1, FS_RemoveElement
            <7>3. Running(y) = 1
              BY <5>1, <6>1 DEF Running
            <7>4. /\ Cardinality(Late(y) \ L) \in Nat /\ queue[y] \in Nat
                  /\ Cardinality(Late(y) \ L) <= queue[y] + 1
              BY <2>q, <4>l, <7>3
            <7>5. Cardinality(Late(y) \ M) = Cardinality(Late(y) \ L) - 1
              BY <7>1, <7>2
            <7> HIDE DEF M
            <7> QED
              BY <7>4, <7>5
          <6>2. CASE y # x
            <7>1. Running(y) = 0
              BY <5>1, <6>2 DEF Running
            <7>2. Late(y) \ M \in SUBSET (Late(y) \ L)
              OBVIOUS
            <7> HIDE DEF M
            <7>3. Cardinality(Late(y) \ M) \in Nat /\ Cardinality(Late(y) \ M) <= Cardinality(Late(y) \ L)
              BY <4>l, <7>2, FS_Subset, FS_CardinalityType
            <7> QED
              BY <2>q, <4>l, <7>1, <7>3
          <6> QED
            BY <6>1, <6>2
        <5> QED
          BY <5>2, <5>3
      <4>2. CASE ~ \E x \in Sources : working.job = x /\ Late(x) \ L # {}
        <5>1. ASSUME NEW x \in Sources PROVE Cardinality(Late(x) \ L) <= queue[x]
          <6>1. CASE working.job = x
            BY <2>q, <4>2, <6>1, FS_EmptySet
          <6>2. CASE working.job # x
            <7>1. Running(x) = 0
              BY <6>2 DEF Running
            <7> QED
              BY <2>q, <4>l, <7>1
          <6> QED
            BY <6>1, <6>2
        <5>2. Cardinality(L) <= intakeFaults'
          BY <2>q, <3>1, <4>0
        <5> QED
          BY <5>1, <5>2
      <4> QED
        BY <4>1, <4>2
    <3>5. \A x \in Sources : Cardinality(Late(x)' \ M) <= queue'[x] + Running(x)'
      <4>1. \A x \in Sources : queue'[x] = queue[x] /\ Running(x)' = 0 /\ queue[x] \in Nat
        BY <2>i, <2>q, <3>1
      <4>2. \A x \in Sources : queue'[x] + Running(x)' = queue[x]
        BY <4>1
      <4> QED
        BY <3>2, <3>4, <4>2
    <3>6. Charged(M)'
      BY <2>i, <3>1, <3>4, <3>5 DEF Charged
    <3> QED
      BY <3>1, <3>6 DEF LossInv
  <2>12. CASE Poll
    <3>1. /\ UNCHANGED <<wire, answered, receipts, memory, handler, arrived, working, intakeFaults>>
          /\ \A x \in Sources : queue'[x] = queue[x]
          /\ Mail' = Mail
      <4>1. \A x \in Sources : x # EveryRecord
        BY DEF Sources, EveryRecord
      <4>2. queue' = [queue EXCEPT ![EveryRecord] = 1]
        BY <2>12 DEF Poll
      <4>3. \A x \in Sources : queue'[x] = queue[x]
        BY <2>0, <4>1, <4>2 DEF IntakeTypeOK, Jobs
      <4> QED
        BY <2>12, <4>3 DEF Poll, Mail
    <3> QED
      BY <2>q, <2>s, <2>k, <2>w, <3>1
  <2>13. CASE UNCHANGED intakeVars
    <3>1. UNCHANGED <<wire, answered, receipts, memory, handler, arrived, working, queue, intakeFaults>>
          /\ Mail' = Mail
      BY <2>13 DEF intakeVars, Mail
    <3> QED
      BY <2>q, <2>s, <2>k, <2>w, <3>1
  <2> QED
    BY <2>1, <2>2, <2>3, <2>4, <2>5, <2>6, <2>7, <2>8, <2>9, <2>10, <2>11, <2>12, <2>13
    DEF IntakeNext, Work
<1> QED
  BY <1>1, <1>2, ResendInvariant, MailInvariant, PTL DEF IntakeSpec

\* Answering a message promises that its change will be carried over: of the
\* messages that name a record and do not look like an earlier one, at most
\* one per database error, failed sync or restart is answered and forgotten,
\* however they are resent, reordered and mixed.
THEOREM AnsweredServed == IntakeSpec => []AnsweredIsServed
<1>1. IntakeTypeOK /\ MailInv /\ LossInv => AnsweredIsServed
  <2> SUFFICES ASSUME IntakeTypeOK, MailInv, LossInv PROVE AnsweredIsServed
    OBVIOUS
  <2> DEFINE Forgotten == {m \in answered : Names(m) /\ ~Served(m) /\ ~Lookalike(m)}
  <2>1. PICK L \in SUBSET Mail : Charged(L)
    BY DEF LossInv
  <2>2. ASSUME NEW m \in Forgotten PROVE m \in L
    <3> DEFINE x == Source(m)
    <3>1. m \in answered /\ m \in Messages /\ m \in Mail /\ x \in Sources /\ x \in Jobs /\ m.about \in Nat
      BY MessageKinds DEF IntakeTypeOK, Mail
    <3>2. arrived[x] \in Nat /\ working.seen[x] \in Nat /\ queue[x] \in Nat
      BY <3>1 DEF IntakeTypeOK
    <3>3. m \in Late(x) /\ ~(queue[x] > 0)
      BY <3>1, <3>2 DEF Late, Taken, Served, Serves
    <3>4. Serves(working.job, x) => m \in Unread(x)
      BY <3>2, <3>1, <3>3 DEF Unread, Served
    <3>5. ~Serves(working.job, x) => Running(x) = 0
      BY DEF Serves, Running
    <3> HIDE DEF x
    <3>6. Late(x) \ L \in SUBSET Mail /\ Unread(x) \ L \in SUBSET Mail
      BY LateKnown
    <3>7. \A S \in SUBSET Mail : Cardinality(S) <= 0 => S = {}
      <4>1. \A S \in SUBSET Mail : IsFiniteSet(S) /\ Cardinality(S) \in Nat
        BY Counts
      <4> QED
        BY <4>1, FS_EmptySet
    <3>8. /\ Cardinality(Late(x) \ L) <= queue[x] + Running(x)
          /\ Serves(working.job, x) => Cardinality(Unread(x) \ L) <= queue[x]
      BY <2>1, <3>1 DEF Charged
    <3>9. queue[x] = 0
      BY <3>2, <3>3
    <3> QED
      BY <3>3, <3>4, <3>5, <3>6, <3>7, <3>8, <3>9
  <2>3. Forgotten \in SUBSET L
    BY <2>2
  <2> HIDE DEF Forgotten
  <2>4. /\ IsFiniteSet(L) /\ Cardinality(Forgotten) \in Nat
        /\ Cardinality(Forgotten) <= Cardinality(L) /\ Cardinality(L) \in Nat
    BY <2>1, <2>3, Counts
  <2>5. Cardinality(L) <= intakeFaults /\ intakeFaults \in Nat
    BY <2>1, IntakeAssumption DEF Charged, IntakeTypeOK
  <2>6. Cardinality(Forgotten) <= intakeFaults
    BY <2>4, <2>5
  <2> QED
    BY <2>6 DEF AnsweredIsServed, Forgotten
<1> QED
  BY <1>1, IntakeTypeCorrect, MailInvariant, LossInvariant, PTL

=============================================================================
