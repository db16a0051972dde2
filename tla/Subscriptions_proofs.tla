------------------------ MODULE Subscriptions_proofs ------------------------
(***************************************************************************)
(* Proofs about Subscriptions, for every set of rows and handlers and      *)
(* every bound.                                                            *)
(***************************************************************************)
EXTENDS Subscriptions, TLAPS

USE SubscriptionsAssumption

\* Every record a task holds is one of Working, and what it says it read
\* matches the stage it is at.
LookedFor ==
    \A t \in Tasks :
        /\ At(t, "RENEWED") => /\ task[t].snap.status \in {"active", "past_due"}
                               /\ task[t].snap.end < task[t].end
        /\ At(t, "BILLING_FAILED") => task[t].snap.status = "active"
        /\ \A s \in Stages \ {"insert"} : At(t, s) => sub[task[t].row].status # "none"

\* A row that is about to be inserted is not there and nobody else inserts it.
FreshInsert ==
    /\ \A t \in Tasks : At(t, "insert") =>
         /\ sub[task[t].row].status = "none"
         /\ \A u \in Tasks : At(u, "insert") /\ task[u].row = task[t].row => u = t
    /\ \A r \in Rows : sub[r].status = "none" => sub[r].end = 0

\* No event, task or row names a period end that Toss has not billed.
Billed ==
    /\ NoUnbilledPeriod
    /\ \A e \in events : e.end <= billedTo
    /\ \A t \in Tasks : At(t, "RENEWED") => task[t].end <= billedTo

Inv == SubsTypeOK /\ OneActivePerUser /\ Billed /\ LookedFor /\ FreshInsert

-----------------------------------------------------------------------------
(* What a commit does *)

LEMMA AtIsWorking ==
    ASSUME SubsTypeOK, NEW t \in Tasks, NEW s, At(t, s)
    PROVE  /\ task[t] \in Working
           /\ task[t].stage = s
           /\ task[t].row \in Rows
           /\ task[t].snap \in Row
           /\ task[t].end \in Nat
           /\ sub[task[t].row] \in Row
BY DEF SubsTypeOK, At, Working

\* A commit leaves the rows well typed and at most one of them active.
LEMMA CommitRows ==
    ASSUME SubsTypeOK, OneActivePerUser, NEW t \in Tasks, NEW s \in Stages, At(t, s),
           NEW row \in Row, Commit(t, row)
    PROVE  /\ sub' \in [Rows -> Row]
           /\ failed' \subseteq Stages
           /\ OneActivePerUser'
<1>1. task[t].row \in Rows /\ task[t].stage = s
  BY AtIsWorking
<1>2. CASE ActiveTaken(task[t].row, row)
  BY <1>1, <1>2 DEF Commit, SubsTypeOK, OneActivePerUser
<1>3. CASE ~ActiveTaken(task[t].row, row)
  <2>1. sub' = [sub EXCEPT ![task[t].row] = row] /\ failed' = failed
    BY <1>3 DEF Commit
  <2> QED
    BY <1>1, <1>3, <2>1 DEF ActiveTaken, SubsTypeOK, OneActivePerUser
<1> QED
  BY <1>2, <1>3

\* Only the task's own row is touched.
LEMMA CommitElsewhere ==
    ASSUME SubsTypeOK, NEW t \in Tasks, NEW s, At(t, s), NEW row, Commit(t, row),
           NEW r \in Rows
    PROVE  sub'[r] = sub[r] \/ (r = task[t].row /\ sub'[r] = row)
BY AtIsWorking DEF Commit, SubsTypeOK

LEMMA FinishTasks ==
    ASSUME SubsTypeOK, NEW t \in Tasks, Finish(t)
    PROVE  /\ task' \in [Tasks -> Working \cup {NoTask}]
           /\ \A u \in Tasks : \A s : At(u, s)' => u # t /\ At(u, s) /\ task'[u] = task[u]
BY DEF SubsTypeOK, Finish, At, NoTask

LEMMA BeginTasks ==
    ASSUME SubsTypeOK, NEW t \in Tasks, NEW s \in Stages, NEW r \in Rows,
           NEW row \in Row, NEW end \in Nat, Begin(t, s, r, row, end)
    PROVE  /\ task' \in [Tasks -> Working \cup {NoTask}]
           /\ task'[t] = [stage |-> s, row |-> r, snap |-> row, end |-> end]
           /\ \A u \in Tasks \ {t} : task'[u] = task[u]
BY DEF SubsTypeOK, Begin, Working

-----------------------------------------------------------------------------

LEMMA InvInit == SubsInit => Inv
<1> SUFFICES ASSUME SubsInit PROVE Inv
  OBVIOUS
<1>1. \A t \in Tasks : \A s : ~At(t, s)
  BY DEF SubsInit, At
<1>2. SubsTypeOK
  BY DEF SubsInit, SubsTypeOK, NoRow, Row, Statuses
<1>3. \A r \in Rows : sub[r].status = "none" /\ sub[r].end = 0
  BY DEF SubsInit, NoRow
<1> QED
  BY <1>1, <1>2, <1>3 DEF SubsInit, Inv, OneActivePerUser, Billed, NoUnbilledPeriod,
                          LookedFor, FreshInsert

\* Steps of Toss and of time.
LEMMA InvToss == Inv /\ (Tick \/ TossRenews \/ TossFails \/ TossStops) => Inv'
<1> SUFFICES ASSUME Inv, Tick \/ TossRenews \/ TossFails \/ TossStops PROVE Inv'
  OBVIOUS
<1>1. sub' = sub /\ task' = task /\ failed' = failed /\ deliveries' = deliveries
  BY DEF Tick, TossRenews, TossFails, TossStops, toss
<1>2. SubsTypeOK'
  <2>1. now' \in Nat /\ billedTo' \in Nat
    BY DEF Inv, SubsTypeOK, Tick, TossRenews, TossFails, TossStops, toss
  <2>3. billing' \in BOOLEAN
    <3>1. billing' = billing \/ billing' = FALSE
      BY DEF Tick, TossRenews, TossFails, TossStops, toss
    <3> QED
      BY <3>1 DEF Inv, SubsTypeOK
  <2>2. events' \subseteq Event
    BY DEF Inv, SubsTypeOK, Tick, TossRenews, TossFails, TossStops, toss, Event, Types
  <2> QED
    BY <1>1, <2>1, <2>2, <2>3 DEF Inv, SubsTypeOK
<1>3. billedTo' \in Nat /\ billedTo <= billedTo' /\ \A e \in events' : e.end <= billedTo'
  BY DEF Inv, SubsTypeOK, Billed, Tick, TossRenews, TossFails, TossStops, toss, Event
<1>4. Billed'
  <2>1. NoUnbilledPeriod'
    BY <1>1, <1>3 DEF Inv, SubsTypeOK, Billed, NoUnbilledPeriod, Row
  <2>2. ASSUME NEW t \in Tasks, At(t, "RENEWED")' PROVE task'[t].end <= billedTo'
    <3>1. At(t, "RENEWED") /\ task'[t].end = task[t].end
      BY <1>1, <2>2 DEF At
    <3>2. task[t].end \in Nat /\ task[t].end <= billedTo
      BY <3>1, AtIsWorking DEF Inv, Billed
    <3> QED
      BY <1>3, <3>1, <3>2 DEF Inv, SubsTypeOK
  <2> QED
    BY <1>3, <2>1, <2>2 DEF Billed
<1> QED
  BY <1>1, <1>2, <1>4 DEF Inv, OneActivePerUser, LookedFor, FreshInsert, At

\* A handler has loaded a row, or chosen the id of the row it will insert.
LEMMA InvBegin ==
    ASSUME Inv, NEW t \in Tasks, NEW s \in Stages, NEW r \in Rows, NEW row \in Row,
           NEW end \in Nat, Begin(t, s, r, row, end), UNCHANGED <<sub, now, events, billedTo, billing, failed>>,
           deliveries' \in Nat,
           s = "insert" => /\ sub[r].status = "none"
                           /\ \A u \in Tasks : At(u, "insert") => task[u].row # r,
           s = "RENEWED" => /\ end <= billedTo
                            /\ row.status \in {"active", "past_due"}
                            /\ row.end < end,
           s = "BILLING_FAILED" => row.status = "active",
           s # "insert" => sub[r].status # "none"
    PROVE  Inv'
<1> DEFINE w == [stage |-> s, row |-> r, snap |-> row, end |-> end]
<1>1. /\ task' \in [Tasks -> Working \cup {NoTask}]
      /\ task'[t] = w
      /\ \A u \in Tasks \ {t} : task'[u] = task[u]
  BY BeginTasks DEF Inv
<1>2. \A u \in Tasks \ {t} : \A q : At(u, q)' => At(u, q)
  BY <1>1 DEF At
<1>3. \A q : At(t, q)' => q = s
  BY <1>1 DEF At
<1>4. SubsTypeOK' /\ OneActivePerUser'
  BY <1>1 DEF Inv, SubsTypeOK, OneActivePerUser, toss
<1>5. Billed'
  BY <1>1, <1>2, <1>3 DEF Inv, Billed, NoUnbilledPeriod, toss
<1>6. LookedFor'
  BY <1>1, <1>2, <1>3 DEF Inv, LookedFor, toss
<1>7. FreshInsert'
  BY <1>1, <1>2, <1>3 DEF Inv, FreshInsert
<1> QED
  BY <1>4, <1>5, <1>6, <1>7 DEF Inv

\* A handler commits a row and ends.
LEMMA InvCommit ==
    ASSUME Inv, NEW t \in Tasks, NEW s \in Stages, At(t, s), NEW row \in Row,
           Commit(t, row), Finish(t), UNCHANGED <<now, events, deliveries>>,
           billing' \in BOOLEAN, billedTo' \in Nat, billedTo <= billedTo',
           sub' # sub => row.end <= billedTo',
           row.status # "none"
    PROVE  Inv'
<1>1. SubsTypeOK /\ OneActivePerUser /\ task[t].row \in Rows /\ task[t].stage = s
  BY AtIsWorking DEF Inv
<1>2. sub' \in [Rows -> Row] /\ failed' \subseteq Stages /\ OneActivePerUser'
  BY <1>1, CommitRows
<1>3. \A r \in Rows : sub'[r] = sub[r] \/ (r = task[t].row /\ sub'[r] = row)
  BY <1>1, CommitElsewhere
<1>4. /\ task' \in [Tasks -> Working \cup {NoTask}]
      /\ \A u \in Tasks : \A q : At(u, q)' => u # t /\ At(u, q) /\ task'[u] = task[u]
  BY <1>1, FinishTasks
<1>5. SubsTypeOK'
  BY <1>2, <1>4 DEF Inv, SubsTypeOK
<1>6. Billed'
  <2>1. ASSUME NEW r \in Rows PROVE sub'[r].end <= billedTo'
    <3>1. CASE sub'[r] = sub[r]
      BY <3>1 DEF Inv, Billed, NoUnbilledPeriod, SubsTypeOK, Row
    <3>2. CASE sub'[r] # sub[r]
      BY <1>3, <3>2
    <3> QED
      BY <3>1, <3>2
  <2>2. ASSUME NEW u \in Tasks, At(u, "RENEWED")' PROVE task'[u].end <= billedTo'
    <3>1. At(u, "RENEWED") /\ task'[u] = task[u]
      BY <1>4, <2>2
    <3>2. task[u].end \in Nat /\ task[u].end <= billedTo
      BY <1>1, <3>1, AtIsWorking DEF Inv, Billed
    <3> QED
      BY <3>1, <3>2 DEF Inv, SubsTypeOK
  <2>3. \A e \in events' : e.end <= billedTo'
    BY DEF Inv, Billed, SubsTypeOK, Event
  <2> QED
    BY <2>1, <2>2, <2>3 DEF Billed, NoUnbilledPeriod
<1>7. LookedFor'
  <2>1. ASSUME NEW u \in Tasks, NEW q \in Stages \ {"insert"}, At(u, q)'
        PROVE sub'[task'[u].row].status # "none"
    BY <1>1, <1>3, <1>4, <2>1, AtIsWorking DEF Inv, LookedFor
  <2> QED
    BY <1>4, <2>1 DEF Inv, LookedFor
<1>8. ASSUME NEW u \in Tasks, At(u, "insert")'
      PROVE  /\ sub'[task'[u].row].status = "none"
             /\ \A v \in Tasks :
                  At(v, "insert")' /\ task'[v].row = task'[u].row => v = u
  <2>1. u # t /\ At(u, "insert") /\ task'[u] = task[u] /\ task[u].row \in Rows
    BY <1>1, <1>4, <1>8, AtIsWorking
  <2>2. sub[task[u].row].status = "none"
    BY <2>1 DEF Inv, FreshInsert
  <2>3. sub'[task[u].row].status = "none"
    <3>1. CASE s = "insert"
      <4>1. task[t].row # task[u].row
        BY <2>1, <3>1 DEF Inv, FreshInsert
      <4> QED
        BY <1>3, <2>1, <2>2, <4>1
    <3>2. CASE s # "insert"
      <4>1. sub[task[t].row].status # "none"
        BY <3>2 DEF Inv, LookedFor
      <4> QED
        BY <1>3, <2>1, <2>2, <4>1
    <3> QED
      BY <3>1, <3>2
  <2> QED
    BY <1>4, <2>1, <2>3 DEF Inv, FreshInsert
<1>9. FreshInsert'
  <2>1. \A r \in Rows : sub'[r].status = "none" => sub'[r].end = 0
    BY <1>3 DEF Inv, FreshInsert
  <2> QED
    BY <1>8, <2>1 DEF FreshInsert
<1> QED
  BY <1>2, <1>5, <1>6, <1>7, <1>9 DEF Inv

LEMMA InvStep == Inv /\ [SubsNext]_subscriptions => Inv'
<1> SUFFICES ASSUME Inv, [SubsNext]_subscriptions PROVE Inv'
  OBVIOUS
<1> USE DEF toss
<1> SubsTypeOK
  BY DEF Inv
<1>1. CASE UNCHANGED subscriptions
  BY <1>1 DEF subscriptions, Inv, SubsTypeOK, OneActivePerUser, Billed, NoUnbilledPeriod, LookedFor,
              FreshInsert, At
<1>2. CASE Tick \/ TossRenews \/ TossFails \/ TossStops
  BY <1>2, InvToss
<1>3. ASSUME NEW t \in Tasks, NEW r \in Rows, CreateLookup(t, r) PROVE Inv'
  <2>1. /\ Begin(t, "insert", r, NoRow, now + 1)
        /\ UNCHANGED <<sub, now, events, billedTo, billing, failed>>
        /\ deliveries' \in Nat
        /\ sub[r].status = "none"
        /\ \A u \in Tasks : At(u, "insert") => task[u].row # r
    BY <1>3 DEF CreateLookup, SubsTypeOK
  <2>2. NoRow \in Row /\ now + 1 \in Nat /\ "insert" \in Stages
    BY DEF NoRow, Row, Statuses, SubsTypeOK, Stages
  <2> QED
    BY <2>1, <2>2, InvBegin
<1>4. ASSUME NEW t \in Tasks, NEW r \in Rows, CancelLoad(t, r) PROVE Inv'
  <2>1. /\ Begin(t, "cancel", r, sub[r], 0)
        /\ UNCHANGED <<sub, now, events, billedTo, billing, failed>>
        /\ deliveries' \in Nat
        /\ sub[r].status = "active"
    BY <1>4 DEF CancelLoad, SubsTypeOK
  <2>2. sub[r] \in Row /\ "cancel" \in Stages
    BY DEF SubsTypeOK, Stages
  <2> QED
    BY <2>1, <2>2, InvBegin
<1>5. ASSUME NEW t \in Tasks, NEW e \in events, WebhookLoad(t, e) PROVE Inv'
  <2>1. PICK r \in Rows : /\ WithStatus(Wanted(e.type)) = {r}
                          /\ Begin(t, e.type, r, sub[r], e.end)
    BY <1>5 DEF WebhookLoad
  <2>2. e \in Event /\ e.type \in Stages \ {"insert"} /\ sub[r] \in Row
    BY DEF SubsTypeOK, Event, Stages, Types
  <2>3. sub[r].status \in Wanted(e.type)
    BY <2>1 DEF WithStatus
  <2>4. /\ e.type = "RENEWED" => sub[r].status \in {"active", "past_due"}
        /\ e.type = "BILLING_FAILED" => sub[r].status = "active"
        /\ sub[r].status # "none"
    BY <2>2, <2>3 DEF Wanted
  <2>5. e.end \in Nat /\ e.end <= billedTo /\ (e.type = "RENEWED" => sub[r].end < e.end)
    BY <1>5, <2>1, <2>2 DEF Inv, Billed, Event, WebhookLoad, Advances, Row
  <2>6. UNCHANGED <<sub, now, events, billedTo, billing, failed>> /\ deliveries' \in Nat
    BY <1>5 DEF WebhookLoad, SubsTypeOK
  <2> QED
    BY <2>1, <2>2, <2>4, <2>5, <2>6, InvBegin
<1>6. ASSUME NEW t \in Tasks, NEW e \in events, WebhookAmbiguous(t, e) PROVE Inv'
  <2>1. e.type \in Stages /\ deliveries' \in Nat
    BY <1>6 DEF WebhookAmbiguous, SubsTypeOK, Event, Stages, Types
  <2>2. UNCHANGED <<sub, task, now, events, billedTo, billing>> /\ failed' = failed \cup {e.type}
    BY <1>6 DEF WebhookAmbiguous
  <2> QED
    BY <2>1, <2>2 DEF Inv, SubsTypeOK, OneActivePerUser, Billed, NoUnbilledPeriod,
                      LookedFor, FreshInsert, At
<1>7. ASSUME NEW t \in Tasks, CreateInsert(t) PROVE Inv'
  <2> DEFINE row == [NoRow EXCEPT !.status = "active", !.end = task[t].end]
  <2>1. At(t, "insert") /\ task[t].end \in Nat
    BY <1>7, AtIsWorking DEF CreateInsert
  <2>2. row \in Row /\ row.status # "none" /\ row.end = task[t].end
    BY <2>1 DEF NoRow, Row, Statuses
  <2>3. Commit(t, row) /\ Finish(t) /\ UNCHANGED <<now, events, deliveries>>
    BY <1>7 DEF CreateInsert
  <2> HIDE DEF row
  <2>4. billing' \in BOOLEAN /\ billedTo' \in Nat /\ billedTo <= billedTo'
    <3>1. CASE UNCHANGED sub
      BY <1>7, <3>1 DEF CreateInsert, SubsTypeOK
    <3>2. CASE ~UNCHANGED sub
      BY <1>7, <2>1, <3>2 DEF CreateInsert, SubsTypeOK
    <3> QED
      BY <3>1, <3>2
  <2>5. sub' # sub => row.end <= billedTo'
    BY <1>7, <2>1, <2>2, <2>3 DEF CreateInsert, Commit, SubsTypeOK
  <2> QED
    BY <2>1, <2>2, <2>3, <2>4, <2>5, InvCommit DEF Stages
<1>8. ASSUME NEW t \in Tasks, CancelWrite(t) PROVE Inv'
  <2> DEFINE row == [sub[task[t].row] EXCEPT !.status = "cancel_at_period_end",
                                             !.requested = TRUE]
  <2>1. At(t, "cancel") /\ sub[task[t].row] \in Row /\ task[t].row \in Rows
    BY <1>8, AtIsWorking DEF CancelWrite
  <2>2. row \in Row /\ row.status # "none" /\ row.end = sub[task[t].row].end
    BY <2>1 DEF Row, Statuses
  <2>3. Commit(t, row) /\ Finish(t) /\ UNCHANGED <<now, toss, deliveries>>
    BY <1>8 DEF CancelWrite
  <2> HIDE DEF row
  <2> QED
    BY <2>1, <2>2, <2>3, InvCommit DEF Stages, Inv, SubsTypeOK, Billed, NoUnbilledPeriod
<1>9. ASSUME NEW t \in Tasks, RenewedWrite(t) PROVE Inv'
  <2> DEFINE row == [sub[task[t].row] EXCEPT
                       !.end = task[t].end,
                       !.status = IF task[t].snap.status = "active" THEN @ ELSE "active"]
  <2>1. /\ At(t, "RENEWED") /\ sub[task[t].row] \in Row /\ task[t].row \in Rows
        /\ task[t].end \in Nat
    BY <1>9, AtIsWorking DEF RenewedWrite
  <2>2. sub[task[t].row].status # "none" /\ task[t].end <= billedTo
    BY <2>1 DEF Inv, LookedFor, Stages, Types, Billed
  <2>3. row \in Row /\ row.status # "none" /\ row.end = task[t].end
    BY <2>1, <2>2 DEF Row, Statuses
  <2>4. Commit(t, row) /\ Finish(t) /\ UNCHANGED <<now, toss, deliveries>>
    BY <1>9 DEF RenewedWrite
  <2> HIDE DEF row
  <2> QED
    BY <2>1, <2>2, <2>3, <2>4, InvCommit DEF Stages, Types, SubsTypeOK
<1>10. ASSUME NEW t \in Tasks, CanceledWrite(t) PROVE Inv'
  <2> DEFINE row == [sub[task[t].row] EXCEPT
                       !.canceled = TRUE,
                       !.status = IF task[t].snap.status \in {"canceled", "cancel_at_period_end"}
                                  THEN @ ELSE "cancel_at_period_end"]
  <2>1. At(t, "CANCELED") /\ sub[task[t].row] \in Row /\ task[t].row \in Rows
    BY <1>10, AtIsWorking DEF CanceledWrite
  <2>2. sub[task[t].row].status # "none"
    BY <2>1 DEF Inv, LookedFor, Stages, Types
  <2>3. row \in Row /\ row.status # "none" /\ row.end = sub[task[t].row].end
    BY <2>1, <2>2 DEF Row, Statuses
  <2>4. Commit(t, row) /\ Finish(t) /\ UNCHANGED <<now, toss, deliveries>>
    BY <1>10 DEF CanceledWrite
  <2> HIDE DEF row
  <2> QED
    BY <2>1, <2>3, <2>4, InvCommit DEF Stages, Types, Inv, SubsTypeOK, Billed, NoUnbilledPeriod
<1>11. ASSUME NEW t \in Tasks, BillingFailedWrite(t) PROVE Inv'
  <2> DEFINE row == [sub[task[t].row] EXCEPT !.status = "past_due"]
  <2>1. At(t, "BILLING_FAILED") /\ sub[task[t].row] \in Row /\ task[t].row \in Rows
    BY <1>11, AtIsWorking DEF BillingFailedWrite
  <2>2. row \in Row /\ row.status # "none" /\ row.end = sub[task[t].row].end
    BY <2>1 DEF Row, Statuses
  <2>3. Commit(t, row) /\ Finish(t) /\ UNCHANGED <<now, toss, deliveries>>
    BY <1>11 DEF BillingFailedWrite
  <2> HIDE DEF row
  <2> QED
    BY <2>1, <2>2, <2>3, InvCommit DEF Stages, Types, Inv, SubsTypeOK, Billed, NoUnbilledPeriod
<1> QED
  BY <1>1, <1>2, <1>3, <1>4, <1>5, <1>6, <1>7, <1>8, <1>9, <1>10, <1>11
     DEF SubsNext, HandlerStep
-----------------------------------------------------------------------------

\* Every variable keeps its type in every behaviour.
THEOREM TypeCorrect == SubsSpec => []SubsTypeOK
<1>1. Inv => SubsTypeOK
  BY DEF Inv
<1> QED
  BY <1>1, InvInit, InvStep, PTL DEF SubsSpec

\* However creates, renewals, cancellations and failed billings of one user
\* interleave, two rows are never active together.
THEOREM OneActive == SubsSpec => []OneActivePerUser
<1>1. Inv => OneActivePerUser
  BY DEF Inv
<1> QED
  BY <1>1, InvInit, InvStep, PTL DEF SubsSpec

\* No row ever grants a period that Toss has not billed.
THEOREM NoFreePeriod == SubsSpec => []NoUnbilledPeriod
<1>1. Inv => NoUnbilledPeriod
  BY DEF Inv, Billed
<1> QED
  BY <1>1, InvInit, InvStep, PTL DEF SubsSpec

-----------------------------------------------------------------------------
(* Stale reads *)

\* What a handler writes is right for the row it has read: it never reopens
\* a cancelled row or moves a period back.
Sound(old, new) ==
    /\ old.status = "cancel_at_period_end" => new.status = "cancel_at_period_end"
    /\ old.end <= new.end

\* So an unsound write is the end of a task whose read is out of date.
LEMMA UnsoundOnlyByStaleRead ==
    ASSUME Inv, SubsNext, NEW r \in Rows, ~Sound(sub[r], sub'[r])
    PROVE  \E t \in Tasks : Stale(t, r) /\ task'[t] = NoTask
<1> SubsTypeOK /\ sub[r] \in Row
  BY DEF Inv, SubsTypeOK
<1>1. sub' # sub
  BY DEF Sound, Row
<1>2. PICK t \in Tasks : HandlerStep(t)
  BY <1>1 DEF SubsNext, Tick, TossRenews, TossFails, TossStops, CreateLookup, CancelLoad,
              WebhookLoad, WebhookAmbiguous
<1>3. ASSUME NEW s \in Stages, At(t, s), NEW row, Commit(t, row), Finish(t),
             task[t].snap = sub[task[t].row] => Sound(sub[task[t].row], row)
      PROVE  Stale(t, r) /\ task'[t] = NoTask
  <2>1. task[t] # NoTask /\ task'[t] = NoTask
    BY <1>3 DEF At, Finish, SubsTypeOK
  <2>2. r = task[t].row /\ sub'[r] = row
    BY <1>3, CommitElsewhere DEF Sound, Row
  <2> QED
    BY <1>3, <2>1, <2>2 DEF Stale
<1> HIDE DEF Stale
<1>4. CASE CreateInsert(t)
  <2> DEFINE row == [NoRow EXCEPT !.status = "active", !.end = task[t].end]
  <2>1. /\ At(t, "insert") /\ task[t].row \in Rows
        /\ sub[task[t].row] \in Row /\ task[t].end \in Nat
    BY <1>4, AtIsWorking DEF CreateInsert
  <2>2. sub[task[t].row].status = "none" /\ sub[task[t].row].end = 0
    BY <2>1 DEF Inv, FreshInsert
  <2>3. task[t].snap = sub[task[t].row] => Sound(sub[task[t].row], row)
    BY <2>1, <2>2 DEF Sound, Row, NoRow
  <2>4. Commit(t, row) /\ Finish(t)
    BY <1>4 DEF CreateInsert
  <2> HIDE DEF row
  <2> QED
    BY <1>3, <2>1, <2>3, <2>4 DEF Stages, Types
<1>5. CASE CancelWrite(t)
  <2> DEFINE row == [sub[task[t].row] EXCEPT !.status = "cancel_at_period_end",
                                             !.requested = TRUE]
  <2>1. /\ At(t, "cancel") /\ task[t].row \in Rows
        /\ sub[task[t].row] \in Row /\ task[t].end \in Nat
    BY <1>5, AtIsWorking DEF CancelWrite
  <2>3. task[t].snap = sub[task[t].row] => Sound(sub[task[t].row], row)
    BY <2>1 DEF Sound, Row
  <2>4. Commit(t, row) /\ Finish(t)
    BY <1>5 DEF CancelWrite
  <2> HIDE DEF row
  <2> QED
    BY <1>3, <2>1, <2>3, <2>4 DEF Stages, Types
<1>6. CASE RenewedWrite(t)
  <2> DEFINE row == [sub[task[t].row] EXCEPT
                       !.end = task[t].end,
                       !.status = IF task[t].snap.status = "active" THEN @ ELSE "active"]
  <2>1. /\ At(t, "RENEWED") /\ task[t].row \in Rows
        /\ sub[task[t].row] \in Row /\ task[t].end \in Nat
    BY <1>6, AtIsWorking DEF RenewedWrite
  <2>2. task[t].snap.status \in {"active", "past_due"} /\ task[t].snap.end < task[t].end
    BY <2>1 DEF Inv, LookedFor
  <2>3. task[t].snap = sub[task[t].row] => Sound(sub[task[t].row], row)
    BY <2>1, <2>2 DEF Sound, Row
  <2>4. Commit(t, row) /\ Finish(t)
    BY <1>6 DEF RenewedWrite
  <2> HIDE DEF row
  <2> QED
    BY <1>3, <2>1, <2>3, <2>4 DEF Stages, Types
<1>7. CASE CanceledWrite(t)
  <2> DEFINE row == [sub[task[t].row] EXCEPT
                       !.canceled = TRUE,
                       !.status = IF task[t].snap.status \in {"canceled", "cancel_at_period_end"}
                                  THEN @ ELSE "cancel_at_period_end"]
  <2>1. /\ At(t, "CANCELED") /\ task[t].row \in Rows
        /\ sub[task[t].row] \in Row /\ task[t].end \in Nat
    BY <1>7, AtIsWorking DEF CanceledWrite
  <2>3. task[t].snap = sub[task[t].row] => Sound(sub[task[t].row], row)
    BY <2>1 DEF Sound, Row
  <2>4. Commit(t, row) /\ Finish(t)
    BY <1>7 DEF CanceledWrite
  <2> HIDE DEF row
  <2> QED
    BY <1>3, <2>1, <2>3, <2>4 DEF Stages, Types
<1>8. CASE BillingFailedWrite(t)
  <2> DEFINE row == [sub[task[t].row] EXCEPT !.status = "past_due"]
  <2>1. /\ At(t, "BILLING_FAILED") /\ task[t].row \in Rows
        /\ sub[task[t].row] \in Row /\ task[t].end \in Nat
    BY <1>8, AtIsWorking DEF BillingFailedWrite
  <2>2. task[t].snap.status = "active"
    BY <2>1 DEF Inv, LookedFor
  <2>3. task[t].snap = sub[task[t].row] => Sound(sub[task[t].row], row)
    BY <2>1, <2>2 DEF Sound, Row
  <2>4. Commit(t, row) /\ Finish(t)
    BY <1>8 DEF BillingFailedWrite
  <2> HIDE DEF row
  <2> QED
    BY <1>3, <2>1, <2>3, <2>4 DEF Stages, Types
<1> QED
  BY <1>2, <1>4, <1>5, <1>6, <1>7, <1>8 DEF HandlerStep

\* A cancellation is undone only by a webhook handler that had read the row
\* before it was cancelled, in every behaviour.
THEOREM CancelUndone == SubsSpec => CancelUndoneOnlyByStaleRead
<1>1. Inv /\ [SubsNext]_subscriptions =>
        [\A r \in Rows :
           sub[r].status = "cancel_at_period_end"
           /\ sub'[r].status # "cancel_at_period_end"
               => \E t \in Tasks : Stale(t, r) /\ task'[t] = NoTask]_subscriptions
  BY UnsoundOnlyByStaleRead DEF Sound
<1> QED
  BY <1>1, InvInit, InvStep, PTL DEF SubsSpec, CancelUndoneOnlyByStaleRead

\* A period end moves back only by a handler that had read the row before a
\* later period was written, in every behaviour.
THEOREM PeriodLost == SubsSpec => PeriodLostOnlyToStaleRead
<1>1. Inv /\ [SubsNext]_subscriptions =>
        [\A r \in Rows : sub'[r].end < sub[r].end
           => \E t \in Tasks : Stale(t, r) /\ task'[t] = NoTask]_subscriptions
  <2> SUFFICES ASSUME Inv, SubsNext, sub' \in [Rows -> Row], NEW r \in Rows,
                      sub'[r].end < sub[r].end
               PROVE  \E t \in Tasks : Stale(t, r) /\ task'[t] = NoTask
    BY InvStep DEF Inv, SubsTypeOK
  <2>1. ~(sub[r].end <= sub'[r].end)
    BY DEF Inv, SubsTypeOK, Row
  <2> QED
    BY <2>1, UnsoundOnlyByStaleRead DEF Sound
<1> QED
  BY <1>1, InvInit, InvStep, PTL DEF SubsSpec, PeriodLostOnlyToStaleRead

-----------------------------------------------------------------------------
(* The promise *)

Plan(row) == [status |-> row.status, end |-> row.end]
Plans     == [r \in Rows |-> Plan(sub[r])]

\* A commit changes the plan of the task's row, or no plan; it makes a plan
\* active only beside none that is.
LEMMA CommitPlans ==
    ASSUME SubsTypeOK, NEW t \in Tasks, NEW s, At(t, s), NEW row, Commit(t, row), sub' # sub
    PROVE  /\ task[t].row \in Rows
           /\ Plans' = [Plans EXCEPT ![task[t].row] = Plan(row)]
           /\ row.status = "active" => \A q \in Rows \ {task[t].row} : sub[q].status # "active"
<1>1. task[t].row \in Rows
  BY AtIsWorking
<1>2. sub' = [sub EXCEPT ![task[t].row] = row] /\ ~ActiveTaken(task[t].row, row)
  BY DEF Commit
<1>. QED BY <1>1, <1>2 DEF Plans, ActiveTaken, SubsTypeOK

\* Each step does to the plans what the promise allows.
LEMMA StepPromise == Inv /\ [SubsNext]_subscriptions => [Promise!Next]_(Promise!vars)
<1>. SUFFICES ASSUME Inv, [SubsNext]_subscriptions PROVE [Promise!Next]_(Promise!vars)
  OBVIOUS
<1>. USE DEF toss
<1>0. SubsTypeOK /\ billedTo \in Nat /\ \A r \in Rows : sub[r] \in Row /\ sub[r].end \in 0 .. billedTo
  BY DEF Inv, SubsTypeOK, Billed, NoUnbilledPeriod, Row
<1>1. CASE sub' = sub /\ billedTo' = billedTo
  BY <1>1 DEF Promise!vars
<1>2. CASE TossRenews
  <2>1. sub' = sub /\ billedTo' > billedTo
    BY <1>2 DEF TossRenews, Inv, SubsTypeOK
  <2>. QED BY <2>1 DEF Promise!Next, Promise!Bill
<1>. DEFINE marked == {"cancel_at_period_end", "past_due"}
<1>3. ASSUME NEW t \in Tasks, NEW s \in Stages \ {"insert"}, At(t, s),
             NEW row \in Row, Commit(t, row), sub' # sub, billedTo' = billedTo,
             \/ row.end = sub[task[t].row].end /\ row.status \in marked
             \/ row.end \in 0 .. billedTo /\ row.status \in {"active", sub[task[t].row].status}
             \/ row.end = sub[task[t].row].end /\ row.status = sub[task[t].row].status
      PROVE  Promise!Next
  <2>. DEFINE r == task[t].row
  <2>1. /\ r \in Rows /\ Plans' = [Plans EXCEPT ![r] = Plan(row)]
        /\ row.status = "active" => \A q \in Rows \ {r} : sub[q].status # "active"
    BY <1>0, <1>3, CommitPlans
  <2>2. sub[r].status # "none" /\ sub[r].end \in 0 .. billedTo
    BY <1>0, <1>3, <2>1 DEF Inv, LookedFor
  <2>. HIDE DEF r
  <2>3. Plans[r].status = sub[r].status /\ Plans[r].end = sub[r].end
    BY <2>1 DEF Plans, Plan
  <2>4. CASE row.end = sub[r].end /\ row.status \in marked
    <3>1. Plans' = [Plans EXCEPT ![r].status = row.status]
      BY <2>1, <2>3, <2>4 DEF Plans, Plan
    <3>. QED BY <1>3, <2>1, <2>2, <2>3, <2>4, <3>1 DEF Promise!Next, Promise!Mark, Plans, Plan
  <2>5. CASE row.end \in 0 .. billedTo /\ row.status \in {"active", sub[r].status}
    <3>1. CASE row.status = "active"
      <4>1. \A q \in Rows \ {r} : Plans[q].status # "active"
        BY <2>1, <3>1 DEF Plans, Plan
      <4>2. Plans' = [Plans EXCEPT ![r] = [status |-> "active", end |-> row.end]]
        BY <2>1, <3>1 DEF Plan
      <4>. QED BY <1>3, <2>1, <2>2, <2>3, <2>5, <4>1, <4>2
               DEF Promise!Next, Promise!Renew, Promise!NoOtherActive, Plans, Plan
    <3>2. CASE row.status = sub[r].status
      <4>1. Plans' = [Plans EXCEPT ![r].end = row.end]
        BY <2>1, <2>3, <3>2 DEF Plans, Plan
      <4>. QED BY <1>3, <2>1, <2>2, <2>3, <2>5, <4>1 DEF Promise!Next, Promise!Renew, Plans, Plan
    <3>. QED BY <2>5, <3>1, <3>2
  <2>. QED BY <1>3, <2>2, <2>4, <2>5 DEF r
<1>4. ASSUME NEW t \in Tasks, CreateInsert(t), ~(sub' = sub /\ billedTo' = billedTo)
      PROVE  Promise!Next
  <2>. DEFINE row == [NoRow EXCEPT !.status = "active", !.end = task[t].end]
              r   == task[t].row
  <2>1. At(t, "insert") /\ Commit(t, row) /\ task[t].end \in Nat /\ sub' # sub
    BY <1>0, <1>4, AtIsWorking DEF CreateInsert
  <2>2. billedTo' = IF task[t].end > billedTo THEN task[t].end ELSE billedTo
    BY <1>4, <2>1 DEF CreateInsert
  <2>3. row.status = "active" /\ row.end = task[t].end
    BY DEF NoRow
  <2>4. sub[r].status = "none"
    BY <2>1 DEF Inv, FreshInsert
  <2>. HIDE DEF row
  <2>5. /\ r \in Rows /\ Plans' = [Plans EXCEPT ![r] = Plan(row)]
        /\ \A q \in Rows \ {r} : sub[q].status # "active"
    BY <1>0, <2>1, <2>3, CommitPlans
  <2>6. task[t].end \in 0 .. billedTo' /\ billedTo' >= billedTo /\ billedTo' \in {billedTo, task[t].end}
    BY <1>0, <2>1, <2>2
  <2>. QED BY <2>3, <2>4, <2>5, <2>6
           DEF Promise!Next, Promise!Subscribe, Promise!NoOtherActive, Plans, Plan
<1>5. ASSUME NEW t \in Tasks, CancelWrite(t), sub' # sub PROVE Promise!Next
  <2>. DEFINE row == [sub[task[t].row] EXCEPT !.status = "cancel_at_period_end",
                                              !.requested = TRUE]
  <2>1. At(t, "cancel") /\ sub[task[t].row] \in Row
    BY <1>0, <1>5, AtIsWorking DEF CancelWrite
  <2>2. row \in Row /\ row.end = sub[task[t].row].end /\ row.status \in marked
    BY <2>1 DEF Row, Statuses
  <2>3. Commit(t, row) /\ billedTo' = billedTo
    BY <1>5 DEF CancelWrite
  <2>. HIDE DEF row
  <2>. QED BY <1>3, <1>5, <2>1, <2>2, <2>3 DEF Stages
<1>6. ASSUME NEW t \in Tasks, RenewedWrite(t), sub' # sub PROVE Promise!Next
  <2>. DEFINE row == [sub[task[t].row] EXCEPT
                        !.end = task[t].end,
                        !.status = IF task[t].snap.status = "active" THEN @ ELSE "active"]
  <2>1. /\ At(t, "RENEWED") /\ sub[task[t].row] \in Row
        /\ task[t].end \in Nat /\ task[t].end <= billedTo
    BY <1>0, <1>6, AtIsWorking DEF RenewedWrite, Inv, Billed
  <2>2. /\ row \in Row /\ row.end \in 0 .. billedTo
        /\ row.status \in {"active", sub[task[t].row].status}
    <3>1. row \in Row /\ row.end = task[t].end
      BY <2>1 DEF Row, Statuses
    <3>2. row.status \in {"active", sub[task[t].row].status}
      BY <2>1 DEF Row
    <3>. HIDE DEF row
    <3>. QED BY <1>0, <2>1, <3>1, <3>2
  <2>3. Commit(t, row) /\ billedTo' = billedTo
    BY <1>6 DEF RenewedWrite
  <2>. HIDE DEF row
  <2>. QED BY <1>3, <1>6, <2>1, <2>2, <2>3 DEF Stages, Types
<1>7. ASSUME NEW t \in Tasks, CanceledWrite(t), sub' # sub PROVE Promise!Next
  <2>. DEFINE row == [sub[task[t].row] EXCEPT
                        !.canceled = TRUE,
                        !.status = IF task[t].snap.status \in {"canceled", "cancel_at_period_end"}
                                   THEN @ ELSE "cancel_at_period_end"]
  <2>1. At(t, "CANCELED") /\ sub[task[t].row] \in Row
    BY <1>0, <1>7, AtIsWorking DEF CanceledWrite
  <2>2. /\ row \in Row /\ row.end = sub[task[t].row].end
        /\ row.status \in marked \/ row.status = sub[task[t].row].status
    BY <2>1 DEF Row, Statuses
  <2>3. Commit(t, row) /\ billedTo' = billedTo
    BY <1>7 DEF CanceledWrite
  <2>. HIDE DEF row
  <2>. QED BY <1>3, <1>7, <2>1, <2>2, <2>3 DEF Stages, Types
<1>8. ASSUME NEW t \in Tasks, BillingFailedWrite(t), sub' # sub PROVE Promise!Next
  <2>. DEFINE row == [sub[task[t].row] EXCEPT !.status = "past_due"]
  <2>1. At(t, "BILLING_FAILED") /\ sub[task[t].row] \in Row
    BY <1>0, <1>8, AtIsWorking DEF BillingFailedWrite
  <2>2. row \in Row /\ row.end = sub[task[t].row].end /\ row.status \in marked
    BY <2>1 DEF Row, Statuses
  <2>3. Commit(t, row) /\ billedTo' = billedTo
    BY <1>8 DEF BillingFailedWrite
  <2>. HIDE DEF row
  <2>. QED BY <1>3, <1>8, <2>1, <2>2, <2>3 DEF Stages, Types
<1>9. CASE ~(sub' = sub /\ billedTo' = billedTo) /\ ~TossRenews
  <2>1. PICK t \in Tasks : HandlerStep(t)
    BY <1>9 DEF SubsNext, subscriptions, Tick, TossFails, TossStops, CreateLookup, CancelLoad,
                WebhookLoad, WebhookAmbiguous
  <2>2. sub' # sub \/ CreateInsert(t)
    BY <1>9, <2>1 DEF HandlerStep, CancelWrite, RenewedWrite, CanceledWrite, BillingFailedWrite
  <2>. QED BY <1>4, <1>5, <1>6, <1>7, <1>8, <1>9, <2>1, <2>2 DEF HandlerStep
<1>. QED BY <1>1, <1>2, <1>9

\* Whatever the handlers and Toss do, in whatever order, the rows keep the
\* promise of SubscriptionPromise.
THEOREM KeepsPromise == SubsSpec => PromiseKept
<1>1. SubsInit => Promise!Init
  BY DEF SubsInit, NoRow, Promise!Init, Promise!Unsubscribed
<1>. QED BY <1>1, InvInit, InvStep, StepPromise, PTL DEF SubsSpec, Promise!Spec, PromiseKept

\* No step of any handler takes away an entitlement, in every behaviour: a
\* cancelled row is not cut off early, and goes on entitling when its period is
\* over.
THEOREM AccessIsKept == SubsSpec => AccessKept
<1>1. Inv /\ [SubsNext]_subscriptions =>
        [\A r \in Rows : sub[r].status \in Entitling => sub'[r].status \in Entitling]_subscriptions
  <2>. SUFFICES ASSUME Inv, SubsNext, NEW r \in Rows, sub[r].status \in Entitling
                PROVE  sub'[r].status \in Entitling
    OBVIOUS
  <2>1. /\ Plans[r].status = sub[r].status /\ Plans'[r].status = sub'[r].status
        /\ Plans \in [Rows -> [status : Statuses, end : Nat]]
    BY DEF Plans, Plan, Inv, SubsTypeOK, Row
  <2>2. \/ Plans' = Plans
        \/ \E q \in Rows : \/ \E e : Plans' = [Plans EXCEPT ![q] = [status |-> "active", end |-> e]]
                          \/ \E e : Plans' = [Plans EXCEPT ![q].end = e]
                          \/ \E m \in Entitling : Plans' = [Plans EXCEPT ![q].status = m]
    BY StepPromise
       DEF Promise!vars, Promise!Next, Promise!Bill, Promise!Subscribe, Promise!Renew,
           Promise!Mark, Plans, Plan, Entitling
  <2>. QED BY <2>1, <2>2 DEF Entitling
<1>. QED BY <1>1, InvInit, InvStep, PTL DEF SubsSpec, AccessKept
=============================================================================
