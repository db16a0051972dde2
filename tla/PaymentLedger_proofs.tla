------------------------ MODULE PaymentLedger_proofs ------------------------
(***************************************************************************)
(* Proofs about PaymentLedger, for every set of orders, keys, handlers and *)
(* workers and every bound.                                                *)
(***************************************************************************)
EXTENDS PaymentLedger, FiniteSetTheorems, TLAPS

USE LedgerAssumption

-----------------------------------------------------------------------------
(* Type correctness *)

\* What TypeOK says of the tasks.
TaskOK == /\ task \in [Tasks -> Working \cup {Idle}]
          /\ \A t \in Tasks :
               /\ task[t].stage = "confirm" => task[t].key \in Keys
               /\ task[t].stage = "refund" => task[t].tries < MAX_REFUND_ATTEMPTS

\* A task that is at a stage holds a Working record.
LEMMA AtIsWorking ==
    ASSUME TypeOK, NEW t \in Tasks, NEW s, At(t, s)
    PROVE  task[t] \in Working /\ task[t].stage = s
BY DEF TypeOK, At

LEMMA BeginType ==
    ASSUME TypeOK, NEW t \in Tasks, NEW s \in Stages, NEW o \in Orders,
           NEW k \in AnyKey, s = "confirm" => k \in Keys, Begin(t, s, o, k)
    PROVE  TaskOK'
BY DEF TypeOK, TaskOK, Begin, Working

LEMMA GotoType ==
    ASSUME TypeOK, NEW t \in Tasks, NEW s \in Stages \ {"confirm", "refund"}, NEW r,
           At(t, r), Goto(t, s)
    PROVE  TaskOK'
<1>1. task[t] \in Working
  BY AtIsWorking
<1>2. [task[t] EXCEPT !.stage = s] \in Working /\ [task[t] EXCEPT !.stage = s].stage = s
  BY <1>1 DEF Working
<1> QED
  BY <1>2 DEF TypeOK, TaskOK, Goto

LEMMA FinishType ==
    ASSUME TypeOK, NEW t \in Tasks, Finish(t)
    PROVE  TaskOK'
BY DEF TypeOK, TaskOK, Finish, Idle

LEMMA FlushedType ==
    ASSUME NEW row \in Row, NEW snap \in Row, NEW s \in Statuses, NEW k \in AnyKey
    PROVE  Flushed(row, snap, s, k) \in Row
BY DEF Flushed, Row

LEMMA ApproveType ==
    ASSUME TypeOK, NEW k \in Keys, Approve(k)
    PROVE  attempt' \in [Keys -> Attempt \cup {NoAttempt}] /\ events' \subseteq Event
BY DEF Approve, TypeOK, Attempt, NoAttempt, Event, AnyKey

LEMMA TypeInit == Init => TypeOK
BY DEF Init, TypeOK, Row, NoRow, Statuses, AnyKey, Tasks, Idle

LEMMA TypeStep == TypeOK /\ [Next]_vars => TypeOK'
<1> SUFFICES ASSUME TypeOK, [Next]_vars PROVE TypeOK'
  OBVIOUS
<1> USE DEF db, queue, toss
<1>1. CASE UNCHANGED vars
  BY <1>1 DEF vars, TypeOK
<1>2. ASSUME NEW o \in Orders, NEW k \in Keys, TossOpen(o, k) PROVE TypeOK'
  BY <1>2 DEF TossOpen, TypeOK, Attempt
<1>3. ASSUME NEW k \in Keys, TossDone(k) PROVE TypeOK'
  BY <1>3, ApproveType DEF TossDone, TypeOK
<1>4. ASSUME NEW k \in Keys, TossDecline(k) PROVE TypeOK'
  BY <1>4 DEF TossDecline, TypeOK, Attempt, NoAttempt, Event, AnyKey
<1>5. ASSUME NEW t \in Tasks, NEW o \in Orders, NEW i \in IdemKeys \cup {NoIdem},
             CheckoutLookup(t, o, i)
      PROVE TypeOK'
  BY <1>5 DEF CheckoutLookup, TypeOK, Working, Stages, AnyKey, Row, Statuses
<1>6. ASSUME NEW t \in Tasks, CheckoutInsert(t) PROVE TypeOK'
  <2>1. TaskOK' /\ task[t] \in Working
    BY <1>6, AtIsWorking, FinishType DEF CheckoutInsert
  <2>2. pay' \in [Orders -> Row]
    BY <1>6, <2>1 DEF CheckoutInsert, TypeOK, Working
  <2> QED
    BY <1>6, <2>1, <2>2 DEF CheckoutInsert, TypeOK, TaskOK
<1>7. ASSUME NEW t \in Tasks, NEW o \in Orders, NEW k \in Keys, ConfirmLoad(t, o, k)
      PROVE TypeOK'
  <2>1. TaskOK'
    BY <1>7, BeginType DEF ConfirmLoad, Stages, AnyKey
  <2> QED
    BY <1>7, <2>1 DEF ConfirmLoad, TypeOK, TaskOK
<1>8. ASSUME NEW t \in Tasks, ConfirmDone(t) PROVE TypeOK'
  <2>1. TaskOK' /\ task[t].key \in Keys
    BY <1>8, GotoType, AtIsWorking DEF ConfirmDone, Stages, TypeOK
  <2>2. attempt' \in [Keys -> Attempt \cup {NoAttempt}] /\ events' \subseteq Event
    BY <1>8, <2>1, ApproveType DEF ConfirmDone, TypeOK
  <2> QED
    BY <1>8, <2>1, <2>2 DEF ConfirmDone, TypeOK, TaskOK
<1>9. ASSUME NEW t \in Tasks, ConfirmNotDone(t) PROVE TypeOK'
  BY <1>9, FinishType DEF ConfirmNotDone, TypeOK, TaskOK
<1>10. ASSUME NEW t \in Tasks, ConfirmWrite(t) PROVE TypeOK'
  <2>1. TaskOK' /\ task[t] \in Working
    BY <1>10, AtIsWorking, FinishType DEF ConfirmWrite
  <2>2. pay' \in [Orders -> Row]
    BY <1>10, <2>1 DEF ConfirmWrite, TypeOK, Working, Row, Statuses
  <2> QED
    BY <1>10, <2>1, <2>2 DEF ConfirmWrite, TypeOK, TaskOK
<1>11. ASSUME NEW t \in Tasks, NEW e \in Event, NEW s \in Stages \ {"confirm"},
              Deliver(t, e, s)
       PROVE TypeOK'
  <2>1. TaskOK'
    BY <1>11, BeginType DEF Deliver, Event
  <2> QED
    BY <1>11, <2>1 DEF Deliver, TypeOK, TaskOK
<1>12. ASSUME NEW t \in Tasks, NEW e \in events, DoneLoad(t, e) \/ FailedLoad(t, e)
       PROVE TypeOK'
  BY <1>12, <1>11 DEF DoneLoad, FailedLoad, Stages, TypeOK
<1>13. ASSUME NEW t \in Tasks, DoneWrite(t) PROVE TypeOK'
  <2>1. TaskOK' /\ task[t] \in Working
    BY <1>13, AtIsWorking, GotoType DEF DoneWrite, Stages
  <2>2. pay' \in [Orders -> Row]
    BY <1>13, <2>1, FlushedType DEF DoneWrite, TypeOK, Working, Statuses
  <2> QED
    BY <1>13, <2>1, <2>2 DEF DoneWrite, TypeOK, TaskOK
<1>14. ASSUME NEW t \in Tasks, DoneEmit(t) PROVE TypeOK'
  <2>1. TaskOK' /\ task[t] \in Working
    BY <1>14, AtIsWorking, FinishType DEF DoneEmit
  <2>2. emitted' \in [Orders -> Nat]
    BY <1>14, <2>1 DEF DoneEmit, TypeOK, Working
  <2> QED
    BY <1>14, <2>1, <2>2 DEF DoneEmit, TypeOK, TaskOK
<1>15. ASSUME NEW t \in Tasks, FailedWrite(t) PROVE TypeOK'
  <2>1. TaskOK' /\ task[t] \in Working
    BY <1>15, AtIsWorking, FinishType DEF FailedWrite
  <2>2. pay' \in [Orders -> Row]
    BY <1>15, <2>1, FlushedType DEF FailedWrite, TypeOK, Working, Statuses, Row
  <2> QED
    BY <1>15, <2>1, <2>2 DEF FailedWrite, TypeOK, TaskOK
<1>16. ASSUME NEW o \in Orders, ReadingFails(o) \/ Redeliver(o) PROVE TypeOK'
  BY <1>16 DEF ReadingFails, Redeliver, TypeOK
<1>17. ASSUME NEW t \in Tasks, NEW o \in Orders, RefundLoad(t, o) PROVE TypeOK'
  <2>1. TaskOK'
    BY <1>17, BeginType DEF RefundLoad, Stages, TypeOK, Row
  <2> QED
    BY <1>17, <2>1 DEF RefundLoad, TypeOK, TaskOK
<1>18. ASSUME NEW t \in Tasks, RefundAccepted(t) PROVE TypeOK'
  <2>1. TaskOK' /\ task[t] \in Working
    BY <1>18, AtIsWorking, GotoType DEF RefundAccepted, Stages
  <2> QED
    BY <1>18, <2>1 DEF RefundAccepted, TypeOK, TaskOK, Working
<1>19. ASSUME NEW t \in Tasks, RefundAttemptFails(t) PROVE TypeOK'
  <2> DEFINE n == task[t].tries + 1
  <2> DEFINE s == AfterFailure(n)
  <2>1. task[t] \in Working /\ task[t].tries \in 0..MAX_REFUND_ATTEMPTS
    BY <1>19, AtIsWorking DEF RefundAttemptFails, Working
  <2>2. n \in 0..MAX_REFUND_ATTEMPTS
    BY <1>19, <2>1, AtIsWorking DEF RefundAttemptFails, TypeOK
  <2>3. s \in Stages \ {"confirm"} /\ (s = "refund" => n < MAX_REFUND_ATTEMPTS)
    BY <2>2 DEF AfterFailure, Exhausted, Stages
  <2>4. LET w == [task[t] EXCEPT !.tries = n, !.stage = s]
        IN  w \in Working /\ w.stage = s /\ w.tries = n
    BY <2>1, <2>2, <2>3 DEF Working
  <2>5. task' = [task EXCEPT ![t] = [task[t] EXCEPT !.tries = n, !.stage = s]]
    BY <1>19 DEF RefundAttemptFails
  <2> HIDE DEF n, s
  <2>6. TaskOK'
    BY <2>3, <2>4, <2>5 DEF TaskOK, TypeOK
  <2> QED
    BY <1>19, <2>1, <2>6 DEF RefundAttemptFails, TypeOK, TaskOK, Working
<1>20. ASSUME NEW t \in Tasks, RefundWrite(t) PROVE TypeOK'
  <2>1. TaskOK' /\ task[t] \in Working
    BY <1>20, AtIsWorking, FinishType DEF RefundWrite
  <2>2. /\ task[t].order \in Orders
        /\ task[t].key \in AnyKey
        /\ task[t].snap \in Row
        /\ task[t].snap.key \in AnyKey
    BY <2>1 DEF Working, Row
  <2>3. pay' \in [Orders -> Row]
    <3>1. Flushed(pay[task[t].order], task[t].snap, "refunded", task[t].snap.key) \in Row
      BY <2>2, FlushedType DEF TypeOK, Statuses
    <3>2. CASE RefundIdTaken(task[t].key)
      BY <1>20, <3>2 DEF RefundWrite, TypeOK
    <3>3. CASE ~RefundIdTaken(task[t].key)
      BY <1>20, <3>1, <3>3 DEF RefundWrite, TypeOK
    <3> QED
      BY <3>2, <3>3
  <2>4. refunds' \subseteq [order : Orders, id : AnyKey]
    BY <1>20, <2>2 DEF RefundWrite, TypeOK
  <2>5. job' \in [Orders -> {"none", "queued", "running", "done", "raised"}]
    BY <1>20 DEF RefundWrite, TypeOK
  <2> QED
    BY <1>20, <2>1, <2>3, <2>4, <2>5 DEF RefundWrite, TypeOK, TaskOK
<1>21. ASSUME NEW t \in Tasks, CreditWrite(t) PROVE TypeOK'
  <2>1. TaskOK' /\ task[t] \in Working
    BY <1>21, AtIsWorking, FinishType DEF CreditWrite
  <2>2. credits' \in [Orders -> Nat]
    BY <1>21, <2>1 DEF CreditWrite, TypeOK, Working
  <2>3. job' \in [Orders -> {"none", "queued", "running", "done", "raised"}]
    BY <1>21 DEF CreditWrite, TypeOK
  <2> QED
    BY <1>21, <2>1, <2>2, <2>3 DEF CreditWrite, TypeOK, TaskOK
<1>22. ASSUME NEW t \in Tasks, RefundRaises(t) \/ HandlerDies(t) \/ WorkerDies(t)
       PROVE TypeOK'
  <2>1. TaskOK'
    BY <1>22, FinishType DEF RefundRaises, HandlerDies, WorkerDies
  <2> QED
    BY <1>22, <2>1 DEF RefundRaises, HandlerDies, WorkerDies, TypeOK, TaskOK
<1> QED
  BY <1>1, <1>2, <1>3, <1>4, <1>5, <1>6, <1>7, <1>8, <1>9, <1>10, <1>12, <1>13,
     <1>14, <1>15, <1>16, <1>17, <1>18, <1>19, <1>20, <1>21, <1>22
     DEF Next, Toss, Request, HandlerStep, WorkerStep, Tasks

\* Every variable keeps its type in every behaviour.
THEOREM TypeCorrect == Spec => []TypeOK
BY TypeInit, TypeStep, PTL DEF Spec

-----------------------------------------------------------------------------
(* The inductive invariant of the ledger.  The properties do not carry      *)
(* themselves: a row becomes "paid" by the word of a task that read Toss's  *)
(* answer or an event some steps ago, so the invariant says what every task *)
(* and every event in flight stands for.                                    *)

\* A payment key, if it is one, was used for order o.
Own(o, k) == k # NoKey => k \in Keys /\ attempt[k] # NoAttempt /\ attempt[k].order = o

\* Attempts and events are about orders that have a row, and PAYMENT_DONE is
\* sent about a done attempt.
TossTrue ==
    /\ \A k \in Keys : attempt[k] # NoAttempt => Exists(attempt[k].order)
    /\ \A e \in events : /\ Exists(e.order)
                         /\ Own(e.order, e.key)
                         /\ e.type = "PAYMENT_DONE" => Charged(e.order)

\* What a task that holds record w stands for.
ChargedStages == {"set_paid", "apply_done", "emit", "refund", "set_refunded", "credit"}

Standing(w) ==
    /\ w.stage = "insert" => w.snap.status = "pending" /\ w.snap.key = NoKey
    /\ w.stage # "insert" => /\ Exists(w.order)
                             /\ Own(w.order, w.key)
                             /\ Own(w.order, w.snap.key)
    /\ w.stage \in ChargedStages => Charged(w.order)
    /\ w.stage = "set_refunded" => w.order \in returned

TasksTrue == \A t \in Tasks : task[t] # Idle => Standing(task[t])

\* Worker tasks run refund jobs only.
WorkersRefund ==
    \A t \in Workers : task[t] # Idle =>
        task[t].stage \in {"refund", "set_refunded", "credit"}

\* An order about to be inserted has no row, and no other task inserts it.
FreshInsert ==
    \A t \in Tasks : At(t, "insert") =>
        /\ ~Exists(task[t].order)
        /\ \A u \in Tasks : At(u, "insert") /\ task[u].order = task[t].order => u = t

Settled(o) == job[o] # "none" \/ o \in returned \/ credits[o] > 0 \/ emitted[o] > 0

LedgerTrue ==
    /\ PaidOnlyIfCharged
    /\ KeyOfOwnOrder
    /\ RefundedHasRow
    /\ RefundRowBacked
    /\ DoneJobCompensated
    /\ \A o \in Orders : Settled(o) => Charged(o)

Inv == TypeOK /\ TossTrue /\ TasksTrue /\ WorkersRefund /\ FreshInsert /\ LedgerTrue

-----------------------------------------------------------------------------
(* What no step takes back *)

\* Only these steps write a payments row.
LEMMA PayWriters ==
    ASSUME Next, pay' # pay
    PROVE  \E t \in Tasks : \/ CheckoutInsert(t) \/ ConfirmWrite(t) \/ DoneWrite(t)
                            \/ FailedWrite(t) \/ RefundWrite(t)
BY DEF Next, Toss, Request, HandlerStep, WorkerStep, Tasks, TossOpen, TossDone, TossDecline,
       CheckoutLookup, ConfirmLoad, ConfirmDone, ConfirmNotDone, Deliver, DoneLoad, DoneEmit,
       FailedLoad, ReadingFails, RefundLoad, RefundAccepted, RefundAttemptFails, CreditWrite,
       RefundRaises, Redeliver, HandlerDies, WorkerDies, db

\* What a flushed row may hold.
LEMMA FlushedValues ==
    ASSUME NEW row \in Row, NEW snap \in Row, NEW s \in Statuses, NEW k \in AnyKey
    PROVE  LET new == Flushed(row, snap, s, k) IN
             /\ new.status \in {row.status, s}
             /\ new.key = row.key \/ (new.key = k /\ k # snap.key)
             /\ new.idem = row.idem
BY DEF Flushed, Row

\* Everything a step may do to the row of an order.
RowStep(o) ==
    \/ pay'[o] = pay[o]
    \/ \E t \in Tasks : /\ At(t, "insert") /\ task[t].order = o /\ task'[t] = Idle
                        /\ pay'[o] = task[t].snap /\ ~IdemTaken(task[t].snap.idem)
    \/ /\ Exists(o)
       /\ pay'[o].idem = pay[o].idem
       /\ pay'[o].key = pay[o].key \/ Own(o, pay'[o].key)
       /\ \/ pay'[o].status = pay[o].status
          \/ pay'[o].status = "failed"
          \/ pay'[o].status = "paid" /\ Charged(o)
          \/ pay'[o].status = "refunded" /\ o \in returned /\ RefundRows(o)' # {}

LEMMA RowSteps == ASSUME Inv, Next, NEW o \in Orders PROVE RowStep(o)
<1> TypeOK /\ TasksTrue /\ pay[o] \in Row
  BY DEF Inv, TypeOK
<1>1. CASE pay' = pay
  BY <1>1 DEF RowStep
<1>2. CASE pay' # pay
  <2>1. PICK t \in Tasks : \/ CheckoutInsert(t) \/ ConfirmWrite(t) \/ DoneWrite(t)
                           \/ FailedWrite(t) \/ RefundWrite(t)
    BY <1>2, PayWriters
  <2>2. task[t] \in Working /\ task[t] # Idle
    BY <2>1, AtIsWorking DEF CheckoutInsert, ConfirmWrite, DoneWrite, FailedWrite,
                             RefundWrite, At
  <2>3. /\ task[t].order \in Orders /\ task[t].key \in AnyKey /\ task[t].snap \in Row
        /\ task[t].snap.key \in AnyKey
    BY <2>2 DEF Working, Row
  <2>4. Standing(task[t])
    BY <2>2 DEF TasksTrue
  <2>5. CASE o # task[t].order
    <3>1. pay'[o] = pay[o]
      BY <2>1, <2>3, <2>5 DEF TypeOK, CheckoutInsert, ConfirmWrite, DoneWrite, FailedWrite,
                              RefundWrite
    <3> QED
      BY <3>1 DEF RowStep
  <2>6. CASE o = task[t].order /\ CheckoutInsert(t)
    <3>1. At(t, "insert") /\ task'[t] = Idle
      BY <2>6 DEF CheckoutInsert, Finish, TypeOK
    <3>2. pay'[o] = pay[o] \/ (pay'[o] = task[t].snap /\ ~IdemTaken(task[t].snap.idem))
      BY <2>3, <2>6 DEF CheckoutInsert, IdemConflict, TypeOK
    <3> QED
      BY <2>6, <3>1, <3>2 DEF RowStep
  <2>7. CASE o = task[t].order /\ ~CheckoutInsert(t)
    <3>1. /\ Exists(o)
          /\ Own(o, task[t].key)
          /\ Own(o, task[t].snap.key)
      BY <2>1, <2>4, <2>7 DEF Standing, At, ConfirmWrite, DoneWrite, FailedWrite, RefundWrite
    <3>2. CASE ConfirmWrite(t)
      <4>1. pay'[o] = [pay[o] EXCEPT !.status = "paid"]
        BY <2>7, <3>2 DEF ConfirmWrite, TypeOK
      <4>2. pay'[o].status = "paid" /\ pay'[o].key = pay[o].key /\ pay'[o].idem = pay[o].idem
        BY <4>1 DEF Row
      <4>3. Charged(o)
        BY <2>4, <2>7, <3>2 DEF ConfirmWrite, At, Standing, ChargedStages
      <4> QED
        BY <3>1, <4>2, <4>3 DEF RowStep
    <3>3. CASE DoneWrite(t)
      <4>1. pay'[o] = Flushed(pay[o], task[t].snap, "paid", task[t].key)
        BY <2>7, <3>3 DEF DoneWrite, TypeOK
      <4>2. /\ pay'[o].status \in {pay[o].status, "paid"}
            /\ pay'[o].key = pay[o].key \/ pay'[o].key = task[t].key
            /\ pay'[o].idem = pay[o].idem
        BY <2>3, <4>1, FlushedValues DEF Statuses
      <4>3. Charged(o)
        BY <2>4, <2>7, <3>3 DEF DoneWrite, At, Standing, ChargedStages
      <4> QED
        BY <3>1, <4>2, <4>3 DEF RowStep
    <3>4. CASE FailedWrite(t)
      <4> DEFINE key == IF task[t].key = NoKey THEN task[t].snap.key ELSE task[t].key
      <4>1. pay'[o] = Flushed(pay[o], task[t].snap, "failed", key)
        BY <2>7, <3>4 DEF FailedWrite, TypeOK
      <4>2. key \in AnyKey /\ Own(o, key)
        BY <2>3, <3>1
      <4> HIDE DEF key
      <4>3. /\ pay'[o].status \in {pay[o].status, "failed"}
            /\ pay'[o].key = pay[o].key \/ pay'[o].key = key
            /\ pay'[o].idem = pay[o].idem
        BY <2>3, <4>1, <4>2, FlushedValues DEF Statuses
      <4> QED
        BY <3>1, <4>2, <4>3 DEF RowStep
    <3>5. CASE RefundWrite(t) /\ pay'[o] # pay[o]
      <4>1. ~RefundIdTaken(task[t].key)
        BY <3>5 DEF RefundWrite
      <4>2. /\ pay'[o] = Flushed(pay[o], task[t].snap, "refunded", task[t].snap.key)
            /\ refunds' = refunds \cup {[order |-> o, id |-> task[t].key]}
        BY <2>7, <3>5, <4>1 DEF RefundWrite, TypeOK
      <4>3. /\ pay'[o].status \in {pay[o].status, "refunded"}
            /\ pay'[o].key = pay[o].key
            /\ pay'[o].idem = pay[o].idem
        BY <2>3, <4>2, FlushedValues DEF Statuses
      <4>4. RefundRows(o)' # {}
        <5> DEFINE new == [order |-> o, id |-> task[t].key]
        <5>1. new \in refunds' /\ new.order = o
          BY <4>2
        <5> HIDE DEF new
        <5> QED
          BY <5>1 DEF RefundRows
      <4>5. o \in returned
        BY <2>4, <2>7, <3>5 DEF RefundWrite, At, Standing
      <4> QED
        BY <3>1, <4>3, <4>4, <4>5 DEF RowStep
    <3> QED
      BY <2>1, <2>7, <3>2, <3>3, <3>4, <3>5 DEF RowStep
  <2> QED
    BY <2>5, <2>6, <2>7
<1> QED
  BY <1>1, <1>2

LEMMA RefundWriteStep ==
    ASSUME TypeOK, NEW t \in Tasks, RefundWrite(t), NEW o \in Orders, o = task[t].order
    PROVE  /\ refunds \subseteq refunds'
           /\ \A r \in refunds' \ refunds : r.order = o
           /\ job'[o] = "done" => RefundRows(o)' # {}
           /\ \A p \in Orders \ {o} : job'[p] = job[p]
<1>1. CASE RefundIdTaken(task[t].key)
  BY <1>1 DEF RefundWrite, TypeOK
<1>2. CASE ~RefundIdTaken(task[t].key)
  <2> DEFINE new == [order |-> o, id |-> task[t].key]
  <2>1. refunds' = refunds \cup {new} /\ job' = [job EXCEPT ![o] = "done"]
    BY <1>2 DEF RefundWrite
  <2>2. new.order = o
    OBVIOUS
  <2> HIDE DEF new
  <2>3. RefundRows(o)' # {}
    BY <2>1, <2>2 DEF RefundRows
  <2> QED
    BY <2>1, <2>2, <2>3 DEF TypeOK
<1> QED
  BY <1>1, <1>2

\* Rows, attempts that are done, refunds and tallies stay.
Grows ==
    /\ \A o \in Orders : Exists(o) => Exists(o)'
    /\ \A o \in Orders : Charged(o) => Charged(o)'
    /\ \A o \in Orders : \A k \in AnyKey : Own(o, k) => Own(o, k)'
    /\ returned \subseteq returned'
    /\ refunds \subseteq refunds'
    /\ \A o \in Orders : credits[o] <= credits'[o]

\* What a step may do to an attempt.
LEMMA AttemptSteps ==
    ASSUME TypeOK, Next, NEW k \in Keys, attempt[k] # NoAttempt
    PROVE  \/ attempt'[k] = attempt[k]
           \/ /\ attempt[k].state = "open" /\ attempt'[k] # NoAttempt
              /\ attempt'[k].order = attempt[k].order
              /\ attempt'[k].state = "failed" \/ ~Charged(attempt[k].order)
<1>1. attempt[k] \in Attempt
  BY DEF TypeOK
<1>2. CASE \E o \in Orders, q \in Keys : TossOpen(o, q)
  BY <1>2 DEF TossOpen, TypeOK
<1>3. ASSUME NEW q \in Keys, Approve(q) \/ TossDecline(q)
      PROVE \/ attempt'[k] = attempt[k]
            \/ /\ attempt[k].state = "open" /\ attempt'[k] # NoAttempt
               /\ attempt'[k].order = attempt[k].order
               /\ attempt'[k].state = "failed" \/ ~Charged(attempt[k].order)
  <2>1. CASE q # k
    BY <1>3, <2>1 DEF Approve, TossDecline, TypeOK
  <2>2. CASE q = k
    <3>1. PICK s \in {"done", "failed"} :
             /\ attempt' = [attempt EXCEPT ![k].state = s]
             /\ attempt[k].state = "open"
             /\ s = "failed" \/ ~Charged(attempt[k].order)
      BY <1>3, <2>2 DEF Approve, TossDecline
    <3>2. attempt'[k] = [attempt[k] EXCEPT !.state = s]
      BY <3>1 DEF TypeOK
    <3>3. attempt'[k] \in Attempt /\ attempt'[k].state = s
          /\ attempt'[k].order = attempt[k].order
      BY <1>1, <3>2 DEF Attempt
    <3>4. attempt'[k] # NoAttempt
      BY <3>3 DEF NoAttempt
    <3> QED
      BY <3>1, <3>3, <3>4
  <2> QED
    BY <2>1, <2>2
<1>4. CASE \E t \in Handlers : ConfirmDone(t)
  <2>1. PICK t \in Handlers : ConfirmDone(t)
    BY <1>4
  <2>2. task[t].key \in Keys
    BY <2>1, AtIsWorking DEF ConfirmDone, TypeOK, Tasks
  <2> QED
    BY <1>3, <2>1, <2>2 DEF ConfirmDone
<1>5. attempt' = attempt \/ (\E o \in Orders, q \in Keys : TossOpen(o, q))
      \/ (\E q \in Keys : Approve(q) \/ TossDecline(q)) \/ (\E t \in Handlers : ConfirmDone(t))
  BY DEF Next, Toss, Request, HandlerStep, WorkerStep, TossDone,
       CheckoutLookup, CheckoutInsert, ConfirmLoad, ConfirmNotDone, ConfirmWrite, Deliver,
       DoneLoad, DoneWrite, DoneEmit, FailedLoad, FailedWrite, ReadingFails, RefundLoad,
       RefundAccepted, RefundAttemptFails, RefundWrite, CreditWrite, RefundRaises, Redeliver,
       HandlerDies, WorkerDies, toss
<1> QED
  BY <1>2, <1>3, <1>4, <1>5

LEMMA StepGrows == ASSUME Inv, Next PROVE Grows
<1> TypeOK
  BY DEF Inv
<1>1. \A o \in Orders : Exists(o) => Exists(o)'
  <2> SUFFICES ASSUME NEW o \in Orders, Exists(o) PROVE pay'[o].status # "none"
    BY DEF Exists
  <2>1. RowStep(o)
    BY RowSteps
  <2>2. ASSUME NEW t \in Tasks, At(t, "insert"), pay'[o] = task[t].snap
        PROVE pay'[o].status = "pending"
    BY <2>2 DEF Inv, TasksTrue, Standing, At
  <2> QED
    BY <2>1, <2>2 DEF RowStep, Exists
<1>2. ASSUME NEW o \in Orders, Charged(o) PROVE Charged(o)'
  <2>1. PICK k \in Keys : attempt[k] = [state |-> "done", order |-> o]
    BY <1>2 DEF Charged, DoneWith
  <2>2. attempt'[k] = attempt[k]
    BY <2>1, AttemptSteps DEF NoAttempt
  <2> QED
    BY <2>1, <2>2 DEF Charged, DoneWith
<1>3. ASSUME NEW o \in Orders, NEW k \in AnyKey, Own(o, k) PROVE Own(o, k)'
  BY <1>3, AttemptSteps DEF Own
<1>4. returned \subseteq returned'
  BY DEF Next, Toss, Request, HandlerStep, WorkerStep, TossOpen, TossDone, TossDecline,
       CheckoutLookup, CheckoutInsert, ConfirmLoad, ConfirmDone, ConfirmNotDone, ConfirmWrite,
       Deliver, DoneLoad, DoneWrite, DoneEmit, FailedLoad, FailedWrite, ReadingFails, RefundLoad,
       RefundAccepted, RefundAttemptFails, RefundWrite, CreditWrite, RefundRaises, Redeliver,
       HandlerDies, WorkerDies, toss, Approve
<1>5. refunds \subseteq refunds'
  BY DEF RefundWrite, Next, Toss, Request, HandlerStep, WorkerStep, TossOpen, TossDone,
       TossDecline, CheckoutLookup, CheckoutInsert, ConfirmLoad, ConfirmDone, ConfirmNotDone,
       ConfirmWrite, Deliver, DoneLoad, DoneWrite, DoneEmit, FailedLoad, FailedWrite,
       ReadingFails, RefundLoad, RefundAccepted, RefundAttemptFails, CreditWrite,
       RefundRaises, Redeliver, HandlerDies, WorkerDies, db, Tasks
<1>6. ASSUME NEW o \in Orders PROVE credits[o] <= credits'[o]
  <2>1. credits' = credits \/ \E t \in Workers : CreditWrite(t)
    BY DEF Next, Toss, Request, HandlerStep, WorkerStep, TossOpen, TossDone,
       TossDecline, CheckoutLookup, CheckoutInsert, ConfirmLoad, ConfirmDone, ConfirmNotDone,
       ConfirmWrite, Deliver, DoneLoad, DoneWrite, DoneEmit, FailedLoad, FailedWrite,
       ReadingFails, RefundLoad, RefundAccepted, RefundAttemptFails, RefundWrite,
       RefundRaises, Redeliver, HandlerDies, WorkerDies, db
  <2> QED
    BY <2>1 DEF CreditWrite, TypeOK
<1> QED
  BY <1>1, <1>2, <1>3, <1>4, <1>5, <1>6 DEF Grows
-----------------------------------------------------------------------------
(* The invariant is inductive *)

LEMMA TossTrueStep == ASSUME Inv, Next PROVE TossTrue'
<1> TypeOK /\ TossTrue /\ Grows
  BY StepGrows DEF Inv
<1> DEFINE Fact(e) == /\ Exists(e.order)
                      /\ Own(e.order, e.key)
                      /\ e.type = "PAYMENT_DONE" => Charged(e.order)
<1>1. ASSUME NEW e \in events PROVE Fact(e)'
  <2>1. e.order \in Orders /\ e.key \in AnyKey
    BY DEF TypeOK, Event
  <2> QED
    BY <2>1 DEF TossTrue, Grows
<1>2. ASSUME NEW q \in Keys, Approve(q), NEW e \in events' \ events PROVE Fact(e)'
  <2>1. PICK o \in Orders : o = attempt[q].order
    BY <1>2 DEF Approve, TypeOK, Attempt, NoAttempt
  <2>2. attempt[q] \in Attempt
    BY <1>2 DEF Approve, TypeOK, NoAttempt
  <2>3. attempt'[q] = [attempt[q] EXCEPT !.state = "done"]
    BY <1>2 DEF Approve, TypeOK
  <2>4. attempt'[q] = [state |-> "done", order |-> o]
    BY <2>1, <2>2, <2>3 DEF Attempt
  <2>5. e.order = o /\ e.key = q
    BY <1>2, <2>1 DEF Approve
  <2>6. Exists(o)'
    BY <2>1, <2>2 DEF TossTrue, Grows, Attempt, NoAttempt
  <2> QED
    BY <2>4, <2>5, <2>6 DEF Own, Charged, DoneWith, NoAttempt
<1>3. ASSUME NEW q \in Keys, TossDecline(q), NEW e \in events' \ events PROVE Fact(e)'
  <2>1. attempt[q] \in Attempt
    BY <1>3 DEF TossDecline, TypeOK, NoAttempt
  <2>2. PICK o \in Orders : o = attempt[q].order
    BY <2>1 DEF Attempt
  <2>3. e.order = o /\ e.key \in {q, NoKey} /\ e.type = "PAYMENT_FAILED"
    BY <1>3, <2>2 DEF TossDecline
  <2>4. Own(o, q) /\ Exists(o)
    BY <2>1, <2>2 DEF Own, TossTrue, Attempt, NoAttempt
  <2> QED
    BY <2>3, <2>4 DEF Grows, Own, AnyKey
<1>4. events' \subseteq events \/ \E q \in Keys : Approve(q) \/ TossDecline(q)
  <2>1. ASSUME NEW t \in Handlers, ConfirmDone(t) PROVE task[t].key \in Keys
    BY <2>1, AtIsWorking DEF ConfirmDone, TypeOK, Tasks
  <2> QED
    BY <2>1 DEF Next, Toss, Request, HandlerStep, WorkerStep, TossOpen, TossDone,
       CheckoutLookup, CheckoutInsert, ConfirmLoad, ConfirmDone, ConfirmNotDone, ConfirmWrite,
       Deliver, DoneLoad, DoneWrite, DoneEmit, FailedLoad, FailedWrite, ReadingFails, RefundLoad,
       RefundAccepted, RefundAttemptFails, RefundWrite, CreditWrite, RefundRaises, Redeliver,
       HandlerDies, WorkerDies, toss
<1>5. ASSUME NEW k \in Keys, attempt'[k] # NoAttempt PROVE Exists(attempt[k].order)'
  <2>1. CASE attempt[k] # NoAttempt
    <3>1. attempt[k].order \in Orders /\ Exists(attempt[k].order)
      BY <2>1 DEF TypeOK, Attempt, TossTrue
    <3>2. attempt'[k].order = attempt[k].order
      BY <2>1, AttemptSteps
    <3>3. PICK o \in Orders : o = attempt[k].order /\ Exists(o)
      BY <3>1
    <3>4. Exists(o)'
      BY <3>3 DEF Grows
    <3> QED
      BY <3>2, <3>3, <3>4 DEF Exists
  <2>2. CASE attempt[k] = NoAttempt
    <3>1. attempt'[k] = attempt[k] \/ \E o \in Orders : TossOpen(o, k)
      <4>1. ASSUME NEW q \in Keys, Approve(q) \/ TossDecline(q) PROVE attempt'[k] = attempt[k]
        BY <2>2, <4>1 DEF Approve, TossDecline, TypeOK, NoAttempt
      <4>2. ASSUME NEW o \in Orders, NEW q \in Keys, TossOpen(o, q), q # k
            PROVE attempt'[k] = attempt[k]
        BY <4>2 DEF TossOpen, TypeOK
      <4>3. ASSUME NEW t \in Handlers, ConfirmDone(t) PROVE attempt'[k] = attempt[k]
        <5>1. task[t].key \in Keys
          BY <4>3, AtIsWorking DEF ConfirmDone, TypeOK, Tasks
        <5> QED
          BY <4>1, <4>3, <5>1 DEF ConfirmDone
      <4> QED
        BY <4>1, <4>2, <4>3 DEF Next, Toss, Request, HandlerStep, WorkerStep, TossDone,
           CheckoutLookup, CheckoutInsert, ConfirmLoad, ConfirmNotDone, ConfirmWrite,
           Deliver, DoneLoad, DoneWrite, DoneEmit, FailedLoad, FailedWrite, ReadingFails,
           RefundLoad, RefundAccepted, RefundAttemptFails, RefundWrite, CreditWrite,
           RefundRaises, Redeliver, HandlerDies, WorkerDies, toss
    <3>2. PICK o \in Orders : TossOpen(o, k)
      BY <1>5, <2>2, <3>1
    <3>3. attempt'[k].order = o /\ Exists(o)
      BY <3>2 DEF TossOpen, TypeOK
    <3>4. Exists(o)'
      BY <3>3 DEF Grows
    <3> QED
      BY <3>3, <3>4 DEF Exists
  <2> QED
    BY <2>1, <2>2
<1>6. \A e \in events' : Fact(e)'
  BY <1>1, <1>2, <1>3, <1>4
<1> QED
  BY <1>5, <1>6 DEF TossTrue

LEMMA StandingStays ==
    ASSUME Grows, NEW w \in Working, Standing(w)
    PROVE  Standing(w)'
<1>1. w.order \in Orders /\ w.key \in AnyKey /\ w.snap.key \in AnyKey
  BY DEF Working, Row
<1> QED
  BY <1>1 DEF Standing, Grows

\* An order that is about to be inserted still has no row after a step,
\* unless it is that insert.
LEMMA FreshStays ==
    ASSUME Inv, Next, NEW u \in Tasks, At(u, "insert"), task'[u] = task[u],
           NEW o \in Orders, o = task[u].order
    PROVE  ~Exists(o)'
<1>1. ~Exists(o) /\ task'[u] # Idle
  BY DEF Inv, FreshInsert, At
<1>2. RowStep(o)
  BY RowSteps
<1>3. ASSUME NEW t \in Tasks, At(t, "insert"), task[t].order = o, task'[t] = Idle PROVE FALSE
  BY <1>1, <1>3 DEF Inv, FreshInsert
<1> QED
  BY <1>1, <1>2, <1>3 DEF RowStep, Exists

\* One task moves on, to a record that stands.
LEMMA TaskMoves ==
    ASSUME Inv, Next, NEW t \in Tasks, NEW w \in Working \cup {Idle},
           task' = [task EXCEPT ![t] = w],
           w # Idle => w.stage # "insert" /\ Standing(w)'
    PROVE  TasksTrue' /\ FreshInsert'
<1> TypeOK /\ TasksTrue /\ FreshInsert /\ Grows
  BY StepGrows DEF Inv
<1>1. task'[t] = w /\ \A u \in Tasks \ {t} : task'[u] = task[u]
  BY DEF TypeOK
<1>2. ASSUME NEW u \in Tasks, task'[u] # Idle PROVE Standing(task[u])'
  <2>1. CASE u = t
    BY <1>1, <1>2, <2>1 DEF Standing, Exists, Own, Charged, DoneWith
  <2>2. CASE u # t
    <3>1. task[u] \in Working /\ Standing(task[u]) /\ task'[u] = task[u]
      BY <1>1, <1>2, <2>2 DEF TypeOK, TasksTrue
    <3>2. PICK v \in Working : v = task[u] /\ Standing(v)
      BY <3>1
    <3>3. Standing(v)' /\ task'[u] = v
      BY <3>1, <3>2, StandingStays
    <3> QED
      BY <3>3 DEF Standing, Exists, Own, Charged, DoneWith
  <2> QED
    BY <2>1, <2>2
<1>3. ASSUME NEW u \in Tasks, At(u, "insert")'
      PROVE  u # t /\ At(u, "insert") /\ task'[u] = task[u]
  BY <1>1, <1>3 DEF At
<1>4. ASSUME NEW u \in Tasks, At(u, "insert")' PROVE ~Exists(task[u].order)'
  <2>1. At(u, "insert") /\ task'[u] = task[u]
    BY <1>3, <1>4
  <2>2. PICK o \in Orders : o = task[u].order
    BY <2>1, AtIsWorking DEF Working
  <2>3. ~Exists(o)'
    BY <2>1, <2>2, FreshStays
  <2> QED
    BY <2>1, <2>2, <2>3 DEF Exists
<1>5. TasksTrue'
  BY <1>2 DEF TasksTrue
<1>6. FreshInsert'
  BY <1>3, <1>4 DEF FreshInsert, Exists
<1> QED
  BY <1>5, <1>6

LEMMA FinishMoves ==
    ASSUME Inv, Next, NEW t \in Tasks, Finish(t)
    PROVE  TasksTrue' /\ FreshInsert'
BY TaskMoves DEF Finish

LEMMA BeginMoves ==
    ASSUME Inv, Next, NEW t \in Tasks, NEW s \in Stages \ {"insert", "set_refunded"},
           NEW o \in Orders, NEW k \in AnyKey, Begin(t, s, o, k), Exists(o), Own(o, k),
           s \in ChargedStages => Charged(o)
    PROVE  TasksTrue' /\ FreshInsert'
<1> DEFINE r == [stage |-> s, order |-> o, key |-> k, snap |-> pay[o], tries |-> 0]
<1>1. r \in Working /\ r.stage = s /\ r.order = o /\ r.key = k /\ r.snap.key = pay[o].key
  BY DEF Inv, TypeOK, Working
<1>2. task' = [task EXCEPT ![t] = r]
  BY DEF Begin
<1>3. Own(o, pay[o].key)
  BY DEF Inv, TypeOK, LedgerTrue, KeyOfOwnOrder, Own, AnyKey, Row
<1> HIDE DEF r
<1>4. Standing(r)
  BY <1>1, <1>3 DEF Standing
<1>5. PICK w \in Working : w = r /\ w.stage = s /\ Standing(w)
  BY <1>1, <1>4
<1>6. Standing(w)'
  BY <1>5, StandingStays, StepGrows
<1> QED
  BY <1>2, <1>5, <1>6, TaskMoves

LEMMA RetryMoves ==
    ASSUME Inv, Next, NEW t \in Tasks, NEW q \in Stages \ {"insert"},
           NEW s \in Stages \ {"insert"}, At(t, q), NEW n \in 0..MAX_REFUND_ATTEMPTS,
           \/ task' = [task EXCEPT ![t] = [task[t] EXCEPT !.tries = n, !.stage = s]]
           \/ Goto(t, s),
           NEW o \in Orders, o = task[t].order,
           s \in ChargedStages => Charged(o)', s = "set_refunded" => o \in returned'
    PROVE  TasksTrue' /\ FreshInsert'
<1> TypeOK /\ TasksTrue /\ Grows
  BY StepGrows DEF Inv
<1>1. task[t] \in Working /\ task[t].stage = q /\ Standing(task[t])
  BY AtIsWorking DEF TasksTrue, At
<1> DEFINE r1 == [task[t] EXCEPT !.tries = n, !.stage = s]
<1> DEFINE r2 == [task[t] EXCEPT !.stage = s]
<1>2. /\ r1 \in Working /\ r1.stage = s /\ r1.order = o /\ r1.key = task[t].key
      /\ r1.snap = task[t].snap
  BY <1>1 DEF Working
<1>3. /\ r2 \in Working /\ r2.stage = s /\ r2.order = o /\ r2.key = task[t].key
      /\ r2.snap = task[t].snap
  BY <1>1 DEF Working
<1>4. task' = [task EXCEPT ![t] = r1] \/ task' = [task EXCEPT ![t] = r2]
  BY DEF Goto
<1> HIDE DEF r1, r2
<1>5. PICK w \in Working : /\ task' = [task EXCEPT ![t] = w]
                           /\ w.stage = s /\ w.order = o /\ w.key = task[t].key
                           /\ w.snap = task[t].snap
  BY <1>2, <1>3, <1>4
<1>6. Exists(o) /\ Own(o, w.key) /\ Own(o, w.snap.key)
  BY <1>1, <1>5 DEF Standing
<1>7. w.key \in AnyKey /\ w.snap.key \in AnyKey
  BY <1>5 DEF Working, Row
<1>8. Exists(o)' /\ Own(o, w.key)' /\ Own(o, w.snap.key)'
  BY <1>6, <1>7 DEF Grows
<1>9. Standing(w)'
  BY <1>5, <1>8 DEF Standing
<1> QED
  BY <1>5, <1>9, TaskMoves
LEMMA GotoMoves ==
    ASSUME Inv, Next, NEW t \in Tasks, NEW q \in Stages \ {"insert"},
           NEW s \in Stages \ {"insert"}, At(t, q), Goto(t, s),
           NEW o \in Orders, o = task[t].order,
           s \in ChargedStages => Charged(o)', s = "set_refunded" => o \in returned'
    PROVE  TasksTrue' /\ FreshInsert'
<1>1. 0 \in 0..MAX_REFUND_ATTEMPTS
  OBVIOUS
<1> QED
  BY <1>1, RetryMoves

LEMMA TasksStep == ASSUME Inv, Next PROVE TasksTrue' /\ FreshInsert'
<1> TypeOK /\ TossTrue /\ TasksTrue /\ FreshInsert /\ Grows
  BY StepGrows DEF Inv
<1>1. CASE task' = task
  <2>1. ASSUME NEW t \in Tasks, task[t] # Idle PROVE Standing(task[t])'
    <3>1. PICK w \in Working : w = task[t] /\ Standing(w)
      BY <2>1 DEF TypeOK, TasksTrue
    <3>2. Standing(w)'
      BY <3>1, StandingStays
    <3> QED
      BY <1>1, <3>1, <3>2 DEF Standing, Exists, Own, Charged, DoneWith
  <2>2. ASSUME NEW t \in Tasks, At(t, "insert") PROVE ~Exists(task[t].order)'
    <3>1. PICK o \in Orders : o = task[t].order
      BY <2>2, AtIsWorking DEF Working
    <3>2. ~Exists(o)'
      BY <1>1, <2>2, <3>1, FreshStays
    <3> QED
      BY <1>1, <3>1, <3>2 DEF Exists
  <2>3. TasksTrue'
    BY <1>1, <2>1 DEF TasksTrue
  <2>4. FreshInsert'
    BY <1>1, <2>2 DEF FreshInsert, At, Exists
  <2> QED
    BY <2>3, <2>4
<1>2. ASSUME NEW t \in Handlers, NEW o \in Orders, NEW i \in IdemKeys \cup {NoIdem},
             CheckoutLookup(t, o, i)
      PROVE TasksTrue' /\ FreshInsert'
  <2> t \in Tasks
    BY DEF Tasks
  <2> DEFINE new == [stage |-> "insert", order |-> o, key |-> NoKey, tries |-> 0,
                     snap |-> [status |-> "pending", key |-> NoKey, idem |-> i]]
  <2>1. task' = [task EXCEPT ![t] = new] /\ UNCHANGED <<pay, attempt, returned>>
        /\ ~Exists(o) /\ \A u \in Tasks : At(u, "insert") => task[u].order # o
    BY <1>2 DEF CheckoutLookup, db, toss
  <2>2. /\ new.stage = "insert" /\ new.order = o
        /\ new.snap.status = "pending" /\ new.snap.key = NoKey
    OBVIOUS
  <2> HIDE DEF new
  <2>3. task'[t] = new /\ \A u \in Tasks \ {t} : task'[u] = task[u]
    BY <2>1 DEF TypeOK
  <2>4. TasksTrue'
    <3> SUFFICES ASSUME NEW u \in Tasks, task'[u] # Idle PROVE Standing(task[u])'
      BY DEF TasksTrue
    <3>1. CASE u = t
      BY <2>2, <2>3, <3>1 DEF Standing, ChargedStages
    <3>2. CASE u # t
      BY <2>1, <2>3, <3>2 DEF TasksTrue, Standing, Exists, Own, Charged, DoneWith
    <3> QED
      BY <3>1, <3>2
  <2>5. FreshInsert'
    BY <2>1, <2>2, <2>3 DEF FreshInsert, At, Exists
  <2> QED
    BY <2>4, <2>5
<1>3. ASSUME NEW t \in Tasks, Finish(t) PROVE TasksTrue' /\ FreshInsert'
  BY <1>3, FinishMoves
<1>4. ASSUME NEW t \in Handlers, NEW o \in Orders, NEW k \in Keys, ConfirmLoad(t, o, k)
      PROVE TasksTrue' /\ FreshInsert'
  BY <1>4, BeginMoves DEF ConfirmLoad, Stages, ChargedStages, AnyKey, Own, Tasks
<1>5. ASSUME NEW t \in Handlers, ConfirmDone(t) PROVE TasksTrue' /\ FreshInsert'
  <2>1. task[t] \in Working /\ At(t, "confirm") /\ task[t].key \in Keys /\ t \in Tasks
    BY <1>5, AtIsWorking DEF ConfirmDone, TypeOK, Tasks
  <2>2. PICK o \in Orders, k \in Keys : o = task[t].order /\ k = task[t].key
    BY <2>1 DEF Working
  <2>3. Own(o, k)
    BY <2>1, <2>2 DEF TasksTrue, Standing, At
  <2>4. attempt[k] \in Attempt /\ attempt[k].order = o
    BY <2>3 DEF Own, TypeOK
  <2>5. attempt'[k] = [state |-> "done", order |-> o]
    <3>1. CASE attempt[k].state = "done" /\ attempt' = attempt
      BY <2>4, <3>1 DEF Attempt
    <3>2. CASE Approve(k)
      <4>1. attempt'[k] = [attempt[k] EXCEPT !.state = "done"]
        BY <3>2 DEF Approve, TypeOK
      <4> QED
        BY <2>4, <4>1 DEF Attempt
    <3> QED
      BY <1>5, <2>2, <3>1, <3>2 DEF ConfirmDone
  <2>6. Charged(o)'
    BY <2>5 DEF Charged, DoneWith
  <2>7. Goto(t, "set_paid")
    BY <1>5 DEF ConfirmDone
  <2> QED
    BY <2>1, <2>2, <2>6, <2>7, GotoMoves DEF Stages
<1>6. ASSUME NEW t \in Handlers, NEW e \in events, DoneLoad(t, e) \/ FailedLoad(t, e)
      PROVE TasksTrue' /\ FreshInsert'
  <2>1. /\ e.order \in Orders /\ e.key \in AnyKey
        /\ Exists(e.order) /\ Own(e.order, e.key)
        /\ e.type = "PAYMENT_DONE" => Charged(e.order)
    BY DEF TypeOK, Event, TossTrue
  <2>2. \/ e.type = "PAYMENT_DONE" /\ Begin(t, "apply_done", e.order, e.key)
        \/ Begin(t, "apply_failed", e.order, e.key)
    BY <1>6 DEF DoneLoad, FailedLoad, Deliver
  <2> QED
    BY <2>1, <2>2, BeginMoves DEF Stages, ChargedStages, Tasks
<1>7. ASSUME NEW t \in Handlers, DoneWrite(t) PROVE TasksTrue' /\ FreshInsert'
  <2>1. task[t] \in Working /\ At(t, "apply_done") /\ Goto(t, "emit") /\ t \in Tasks
    BY <1>7, AtIsWorking DEF DoneWrite, Tasks
  <2>2. PICK o \in Orders : o = task[t].order
    BY <2>1 DEF Working
  <2>3. Charged(o)'
    BY <2>1, <2>2 DEF TasksTrue, Standing, At, ChargedStages, Grows
  <2> QED
    BY <2>1, <2>2, <2>3, GotoMoves DEF Stages
<1>8. ASSUME NEW t \in Workers, NEW o \in Orders, RefundLoad(t, o)
      PROVE TasksTrue' /\ FreshInsert'
  <2>1. Charged(o) /\ Exists(o)
    <3>1. Charged(o)
      BY <1>8 DEF RefundLoad, Inv, LedgerTrue, Settled
    <3>2. PICK k \in Keys : attempt[k] = [state |-> "done", order |-> o]
      BY <3>1 DEF Charged, DoneWith
    <3> QED
      BY <3>1, <3>2 DEF TossTrue, NoAttempt
  <2>2. pay[o].key \in AnyKey /\ Own(o, pay[o].key)
    BY DEF Inv, TypeOK, Row, LedgerTrue, KeyOfOwnOrder, Own, AnyKey
  <2> QED
    BY <1>8, <2>1, <2>2, BeginMoves DEF RefundLoad, Stages, ChargedStages, Tasks
<1>9. ASSUME NEW t \in Workers, RefundAccepted(t) \/ RefundAttemptFails(t)
      PROVE TasksTrue' /\ FreshInsert'
  <2>1. task[t] \in Working /\ At(t, "refund") /\ t \in Tasks
    BY <1>9, AtIsWorking DEF RefundAccepted, RefundAttemptFails, Tasks
  <2>2. PICK o \in Orders : o = task[t].order
    BY <2>1 DEF Working
  <2>3. Charged(o)'
    BY <2>1, <2>2 DEF TasksTrue, Standing, At, ChargedStages, Grows
  <2>4. CASE RefundAccepted(t)
    <3>1. Goto(t, "set_refunded") /\ o \in returned'
      BY <2>2, <2>4 DEF RefundAccepted
    <3> QED
      BY <2>1, <2>2, <2>3, <3>1, GotoMoves DEF Stages
  <2>5. CASE RefundAttemptFails(t)
    <3>1. task[t].tries \in 0..MAX_REFUND_ATTEMPTS /\ task[t].tries < MAX_REFUND_ATTEMPTS
      BY <2>1, AtIsWorking DEF TypeOK, Working
    <3>2. PICK n \in 0..MAX_REFUND_ATTEMPTS : n = task[t].tries + 1
      BY <3>1
    <3>3. PICK s \in {"credit", "refund"} : s = AfterFailure(n)
      BY DEF AfterFailure
    <3>4. task' = [task EXCEPT ![t] = [task[t] EXCEPT !.tries = n, !.stage = s]]
      BY <2>5, <3>2, <3>3 DEF RefundAttemptFails
    <3> QED
      BY <2>1, <2>2, <2>3, <3>3, <3>4, RetryMoves DEF Stages
  <2> QED
    BY <1>9, <2>4, <2>5
<1> QED
  <2>1. ASSUME NEW t \in Handlers, Request(t) PROVE TasksTrue' /\ FreshInsert'
    BY <1>2, <1>4, <1>6, <2>1 DEF Request
  <2>2. ASSUME NEW t \in Handlers, HandlerStep(t) \/ HandlerDies(t)
        PROVE TasksTrue' /\ FreshInsert'
    BY <1>3, <1>5, <1>7, <2>2 DEF HandlerStep, HandlerDies, CheckoutInsert, ConfirmNotDone,
                                  ConfirmWrite, DoneEmit, FailedWrite, Tasks
  <2>3. ASSUME NEW t \in Workers, WorkerStep(t) \/ WorkerDies(t)
        PROVE TasksTrue' /\ FreshInsert'
    BY <1>3, <1>8, <1>9, <2>3 DEF WorkerStep, WorkerDies, RefundRaises, RefundWrite,
                                  CreditWrite, Tasks
  <2>4. ASSUME Toss \/ \E o \in Orders : ReadingFails(o) \/ Redeliver(o)
        PROVE task' = task
    BY <2>4 DEF Toss, TossOpen, TossDone, TossDecline, ReadingFails, Redeliver
  <2> QED
    BY <1>1, <2>1, <2>2, <2>3, <2>4 DEF Next

LEMMA LedgerStep == ASSUME Inv, Next PROVE LedgerTrue'
<1> TypeOK /\ TasksTrue /\ LedgerTrue /\ Grows
  BY StepGrows DEF Inv
<1> TypeOK'
  BY TypeStep
<1>1. ASSUME NEW o \in Orders
      PROVE /\ pay'[o].status = "paid" => Charged(o)'
            /\ pay'[o].key # NoKey => Own(o, pay'[o].key)
            /\ pay'[o].status = "refunded" => RefundRows(o)' # {}
  <2>1. RowStep(o)
    BY RowSteps
  <2>2. /\ pay[o].status = "paid" => Charged(o)
        /\ pay[o].key # NoKey => Own(o, pay[o].key)
        /\ pay[o].status = "refunded" => RefundRows(o)' # {}
    BY DEF LedgerTrue, PaidOnlyIfCharged, KeyOfOwnOrder, RefundedHasRow, RefundRows, Grows,
           Own, TypeOK, Row, AnyKey
  <2>3. ASSUME NEW t \in Tasks, At(t, "insert")
        PROVE task[t].snap.status = "pending" /\ task[t].snap.key = NoKey
    BY <2>3 DEF TasksTrue, Standing, At
  <2> QED
    BY <2>1, <2>2, <2>3 DEF RowStep, Grows
<1>2. PaidOnlyIfCharged'
  BY <1>1 DEF PaidOnlyIfCharged
<1>3. KeyOfOwnOrder'
  <2> SUFFICES ASSUME NEW o \in Orders, pay'[o].key # NoKey
               PROVE attempt'[pay'[o].key] # NoAttempt /\ attempt'[pay'[o].key].order = o
    BY DEF KeyOfOwnOrder
  <2>1. PICK k \in AnyKey : k = pay'[o].key
    BY DEF TypeOK, Row
  <2>2. Own(o, k)'
    BY <1>1, <2>1 DEF Grows
  <2> QED
    BY <2>1, <2>2 DEF Own
<1>4. RefundedHasRow'
  BY <1>1 DEF RefundedHasRow
<1>5. ASSUME NEW t \in Tasks, NEW s \in ChargedStages, At(t, s)
      PROVE task[t].order \in Orders /\ Charged(task[t].order)
  BY <1>5, AtIsWorking DEF TasksTrue, Standing, At, Working, ChargedStages
<1>6. ASSUME NEW o \in Orders, Settled(o)' PROVE Charged(o)'
  <2>1. Settled(o) => Charged(o)
    BY DEF LedgerTrue
  <2>2. ASSUME NEW t \in Workers, NEW p \in Orders, RefundLoad(t, p) PROVE Settled(o)
    BY <1>6, <2>2 DEF RefundLoad, Settled, db, toss, TypeOK
  <2>3. ASSUME ReadingFails(o) PROVE Charged(o)
    BY <2>3 DEF ReadingFails, LedgerTrue, PaidOnlyIfCharged
  <2>4. ASSUME NEW p \in Orders, p # o, ReadingFails(p) PROVE Settled(o)
    BY <1>6, <2>4 DEF ReadingFails, Settled, db, toss, TypeOK
  <2>5. ASSUME NEW p \in Orders, Redeliver(p) PROVE Settled(o)
    BY <1>6, <2>5 DEF Redeliver, Settled, db, toss, TypeOK
  <2>6. ASSUME NEW t \in Tasks,
               \/ DoneEmit(t) \/ RefundAccepted(t) \/ RefundAttemptFails(t)
               \/ RefundWrite(t) \/ CreditWrite(t) \/ RefundRaises(t)
        PROVE Charged(o) \/ Settled(o)
    <3>1. PICK s \in ChargedStages : At(t, s)
      BY <2>6 DEF DoneEmit, RefundAccepted, RefundAttemptFails, RefundWrite, CreditWrite,
                  RefundRaises, ChargedStages
    <3>2. task[t].order \in Orders /\ Charged(task[t].order)
      BY <1>5, <3>1
    <3>3. CASE task[t].order = o
      BY <3>2, <3>3
    <3>4. CASE task[t].order # o
      BY <1>6, <2>6, <3>2, <3>4 DEF DoneEmit, RefundAccepted, RefundAttemptFails, RefundWrite,
                  CreditWrite, RefundRaises, Settled, db, queue, toss, TypeOK
    <3> QED
      BY <3>3, <3>4
  <2>7. ASSUME NEW t \in Workers, WorkerDies(t) PROVE Charged(o) \/ Settled(o)
    <3>1. PICK s \in ChargedStages : At(t, s)
      BY <2>7 DEF WorkerDies, Free, Inv, WorkersRefund, ChargedStages, At, Tasks
    <3>2. task[t].order \in Orders /\ Charged(task[t].order)
      BY <1>5, <3>1 DEF Tasks
    <3>3. CASE task[t].order = o
      BY <3>2, <3>3
    <3>4. CASE task[t].order # o
      BY <1>6, <2>7, <3>2, <3>4 DEF WorkerDies, Settled, db, toss, TypeOK
    <3> QED
      BY <3>3, <3>4
  <2>8. ASSUME UNCHANGED <<job, returned, credits, emitted>> PROVE Settled(o)
    BY <1>6, <2>8 DEF Settled
  <2> QED
    BY <2>1, <2>2, <2>3, <2>4, <2>5, <2>6, <2>7, <2>8
       DEF Grows, Next, Toss, Request, HandlerStep, WorkerStep, TossOpen, TossDone, TossDecline,
       CheckoutLookup, CheckoutInsert, ConfirmLoad, ConfirmDone, ConfirmNotDone, ConfirmWrite,
       Deliver, DoneLoad, DoneWrite, FailedLoad, FailedWrite, HandlerDies, db, queue, toss, Tasks
<1>7. RefundRowBacked'
  <2> SUFFICES ASSUME NEW r \in refunds', r \notin refunds PROVE r.order \in returned'
    BY DEF RefundRowBacked, LedgerTrue, Grows
  <2>1. PICK t \in Workers : RefundWrite(t)
    BY DEF Next, Toss, Request, HandlerStep, WorkerStep, TossOpen, TossDone,
       TossDecline, CheckoutLookup, CheckoutInsert, ConfirmLoad, ConfirmDone, ConfirmNotDone,
       ConfirmWrite, Deliver, DoneLoad, DoneWrite, DoneEmit, FailedLoad, FailedWrite,
       ReadingFails, RefundLoad, RefundAccepted, RefundAttemptFails, CreditWrite,
       RefundRaises, Redeliver, HandlerDies, WorkerDies, db
  <2>2. t \in Tasks /\ task[t] \in Working /\ task[t].stage = "set_refunded" /\ task[t] # Idle
    BY <2>1, AtIsWorking DEF RefundWrite, At, Tasks
  <2>3. r.order = task[t].order
    BY <2>1, <2>2, RefundWriteStep DEF Working
  <2>4. task[t].order \in returned
    BY <2>2 DEF TasksTrue, Standing
  <2> QED
    BY <2>3, <2>4 DEF Grows
<1>8. DoneJobCompensated'
  <2> SUFFICES ASSUME NEW o \in Orders, job'[o] = "done"
               PROVE  credits'[o] > 0 \/ RefundRows(o)' # {}
    BY DEF DoneJobCompensated
  <2>1. CASE job[o] = "done"
    BY <2>1 DEF LedgerTrue, DoneJobCompensated, Grows, RefundRows, TypeOK
  <2>2. CASE job[o] # "done"
    <3>1. PICK t \in Workers : RefundWrite(t) \/ CreditWrite(t)
      BY <2>2 DEF Next, Toss, Request, HandlerStep, WorkerStep, TossOpen, TossDone,
         TossDecline, CheckoutLookup, CheckoutInsert, ConfirmLoad, ConfirmDone, ConfirmNotDone,
         ConfirmWrite, Deliver, DoneLoad, DoneWrite, DoneEmit, FailedLoad, FailedWrite,
         ReadingFails, RefundLoad, RefundAccepted, RefundAttemptFails,
         RefundRaises, Redeliver, HandlerDies, WorkerDies, queue, TypeOK
    <3>2. t \in Tasks /\ task[t].order \in Orders
      BY <3>1, AtIsWorking DEF RefundWrite, CreditWrite, Tasks, Working
    <3>3. CASE RefundWrite(t)
      <4>1. PICK p \in Orders : p = task[t].order
        BY <3>2
      <4>2. p = o
        BY <2>2, <3>2, <3>3, <4>1, RefundWriteStep
      <4> QED
        BY <3>2, <3>3, <4>1, <4>2, RefundWriteStep
    <3>4. CASE CreditWrite(t)
      BY <2>2, <3>2, <3>4 DEF CreditWrite, TypeOK
    <3> QED
      BY <3>1, <3>3, <3>4
  <2> QED
    BY <2>1, <2>2
<1> QED
  BY <1>2, <1>3, <1>4, <1>6, <1>7, <1>8 DEF LedgerTrue

LEMMA WorkersStep == ASSUME Inv, Next PROVE WorkersRefund'
<1> TypeOK /\ WorkersRefund /\ Handlers \cap Workers = {}
  BY DEF Inv
<1> SUFFICES ASSUME NEW t \in Workers, task'[t] # Idle
             PROVE  task'[t].stage \in {"refund", "set_refunded", "credit"}
  BY DEF WorkersRefund
<1>1. CASE \E u \in Handlers : Request(u) \/ HandlerStep(u) \/ HandlerDies(u)
  <2>1. task'[t] = task[t]
    BY <1>1 DEF Request, HandlerStep, HandlerDies, CheckoutLookup, CheckoutInsert, ConfirmLoad,
                ConfirmDone, ConfirmNotDone, ConfirmWrite, Deliver, DoneLoad, DoneWrite, DoneEmit,
                FailedLoad, FailedWrite, Begin, Goto, Finish, TypeOK, Tasks
  <2> QED
    BY <2>1 DEF WorkersRefund
<1>2. ASSUME NEW u \in Workers, WorkerStep(u) \/ WorkerDies(u)
      PROVE  task'[t].stage \in {"refund", "set_refunded", "credit"}
  <2>1. CASE u # t
    <3>1. task'[t] = task[t]
      BY <1>2, <2>1 DEF WorkerStep, WorkerDies, RefundLoad, RefundAccepted, RefundAttemptFails,
                  RefundRaises, RefundWrite, CreditWrite, Begin, Goto, Finish, TypeOK, Tasks
    <3> QED
      BY <3>1 DEF WorkersRefund
  <2>2. CASE u = t /\ ~Finish(t)
    <3>1. CASE \E o \in Orders : RefundLoad(t, o)
      BY <3>1 DEF RefundLoad, Begin, TypeOK, Tasks
    <3>2. CASE RefundAccepted(t)
      <4>1. task[t] \in Working /\ task'[t] = [task[t] EXCEPT !.stage = "set_refunded"]
        BY <3>2, AtIsWorking DEF RefundAccepted, Goto, TypeOK, Tasks
      <4> QED
        BY <4>1 DEF Working
    <3>3. CASE RefundAttemptFails(t)
      <4> DEFINE n == task[t].tries + 1
      <4>1. PICK s \in {"credit", "refund"} : s = AfterFailure(n)
        BY DEF AfterFailure
      <4>2. task' = [task EXCEPT ![t].tries = n, ![t].stage = s]
        BY <3>3, <4>1 DEF RefundAttemptFails
      <4>3. task[t] \in Working
        BY <3>3, AtIsWorking DEF RefundAttemptFails, Tasks
      <4> HIDE DEF n
      <4>4. task'[t] = [task[t] EXCEPT !.tries = n, !.stage = s]
        BY <4>2 DEF TypeOK, Tasks
      <4> QED
        BY <4>3, <4>4 DEF Working
    <3> QED
      BY <1>2, <2>2, <3>1, <3>2, <3>3 DEF WorkerStep, WorkerDies, RefundRaises, RefundWrite,
                                         CreditWrite
  <2>3. CASE u = t /\ Finish(t)
    BY <2>3 DEF Finish, TypeOK, Tasks
  <2> QED
    BY <2>1, <2>2, <2>3
<1>3. CASE task' = task
  BY <1>3 DEF WorkersRefund
<1> QED
  BY <1>1, <1>2, <1>3 DEF Next, Toss, TossOpen, TossDone, TossDecline, ReadingFails, Redeliver

LEMMA InvInit == Init => Inv
<1> SUFFICES ASSUME Init PROVE Inv
  OBVIOUS
<1>1. TypeOK
  BY TypeInit
<1>2. \A t \in Tasks : task[t] = Idle
  BY DEF Init
<1>3. \A o \in Orders : /\ pay[o].status = "none" /\ pay[o].key = NoKey
                        /\ credits[o] = 0 /\ emitted[o] = 0 /\ job[o] = "none"
  BY DEF Init, NoRow
<1>4. LedgerTrue
  BY <1>3 DEF Init, LedgerTrue, PaidOnlyIfCharged, KeyOfOwnOrder, RefundedHasRow,
              RefundRowBacked, DoneJobCompensated, Settled
<1> QED
  BY <1>1, <1>2, <1>4 DEF Init, Inv, TossTrue, TasksTrue, WorkersRefund, FreshInsert, At, Tasks

LEMMA InvStep == Inv /\ [Next]_vars => Inv'
<1> SUFFICES ASSUME Inv, [Next]_vars PROVE Inv'
  OBVIOUS
<1>1. CASE Next
  <2>1. TypeOK'
    BY TypeStep DEF Inv
  <2> QED
    BY <1>1, <2>1, TossTrueStep, TasksStep, WorkersStep, LedgerStep DEF Inv
<1>2. CASE UNCHANGED vars
  <2>1. TypeOK'
    BY TypeStep DEF Inv
  <2>2. TossTrue' /\ TasksTrue' /\ WorkersRefund' /\ FreshInsert'
    BY <1>2 DEF vars, Inv, TossTrue, TasksTrue, WorkersRefund, FreshInsert, Standing, At,
                Exists, Own, Charged, DoneWith
  <2>3. LedgerTrue'
    BY <1>2 DEF vars, Inv, LedgerTrue, PaidOnlyIfCharged, KeyOfOwnOrder, RefundedHasRow,
                RefundRowBacked, DoneJobCompensated, Settled, RefundRows, Charged, DoneWith
  <2> QED
    BY <2>1, <2>2, <2>3 DEF Inv
<1> QED
  BY <1>1, <1>2

LEMMA Invariance == Spec => []Inv
BY InvInit, InvStep, PTL DEF Spec

-----------------------------------------------------------------------------
(* What the invariant shows *)

\* A row says "paid" only about an order Toss has charged, whatever order the
\* confirm calls, the webhooks and their stale reads come in.
THEOREM OnlyCharged == Spec => []PaidOnlyIfCharged
BY Invariance, PTL DEF Inv, LedgerTrue

\* The payment key on a row, the one refund_payment will send, was used for
\* that row's order.
THEOREM OwnKey == Spec => []KeyOfOwnOrder
BY Invariance, PTL DEF Inv, LedgerTrue

\* A "refunded" row has its refunds row.
THEOREM RefundRecorded == Spec => []RefundedHasRow
BY Invariance, PTL DEF Inv, LedgerTrue

\* A 'succeeded' refunds row is about money Toss has returned, for every
\* retry, lost answer and crash of the refund job.
THEOREM RefundBacked == Spec => []RefundRowBacked
BY Invariance, PTL DEF Inv, LedgerTrue

\* Refunds, free tokens and payment_completed events go to orders that were
\* charged.
THEOREM OnlyChargedCount == Spec => []OnlyChargedOrdersCount
<1>1. Inv => OnlyChargedOrdersCount
  BY DEF Inv, LedgerTrue, Settled, OnlyChargedOrdersCount
<1> QED
  BY <1>1, Invariance, PTL

\* A refund job that ended well left a refund or a credit behind.
THEOREM JobCompensates == Spec => []DoneJobCompensated
BY Invariance, PTL DEF Inv, LedgerTrue

\* No two rows share an Idempotency-Key: the unique index decides between the
\* checkouts that looked the key up at the same time.
THEOREM IdempotentCheckout == Spec => []CheckoutIdempotent
<1>1. Init => CheckoutIdempotent
  BY DEF Init, CheckoutIdempotent, Exists, NoRow
<1>2. ASSUME Inv, CheckoutIdempotent, Next PROVE CheckoutIdempotent'
  <2> TypeOK /\ TasksTrue
    BY <1>2 DEF Inv
  <2>1. ASSUME NEW t \in Tasks, CheckoutInsert(t) PROVE CheckoutIdempotent'
    <3>1. PICK o \in Orders : o = task[t].order
      BY <2>1, AtIsWorking DEF CheckoutInsert, Working
    <3>2. CASE pay' = pay
      BY <1>2, <3>2 DEF CheckoutIdempotent, Exists
    <3>3. CASE pay' = [pay EXCEPT ![o] = task[t].snap] /\ ~IdemTaken(task[t].snap.idem)
      BY <1>2, <3>3 DEF CheckoutIdempotent, Exists, IdemTaken, TypeOK
    <3> QED
      BY <2>1, <3>1, <3>2, <3>3 DEF CheckoutInsert, IdemConflict
  <2>2. ASSUME NEW t \in Tasks,
               ConfirmWrite(t) \/ DoneWrite(t) \/ FailedWrite(t) \/ RefundWrite(t)
        PROVE  CheckoutIdempotent'
    <3>1. task[t] \in Working /\ task[t].stage # "insert" /\ task[t] # Idle
      BY <2>2, AtIsWorking DEF ConfirmWrite, DoneWrite, FailedWrite, RefundWrite, At
    <3>2. PICK o \in Orders : o = task[t].order
      BY <3>1 DEF Working
    <3>3. Exists(o)
      BY <3>1, <3>2 DEF TasksTrue, Standing
    <3>4. \A p \in Orders \ {o} : pay'[p] = pay[p]
      BY <2>2, <3>2 DEF ConfirmWrite, DoneWrite, FailedWrite, RefundWrite, TypeOK
    <3>5. pay'[o].idem = pay[o].idem
      <4>1. pay[o] \in Row /\ task[t].snap \in Row /\ task[t].key \in AnyKey
            /\ task[t].snap.key \in AnyKey
        BY <3>1 DEF TypeOK, Working, Row
      <4>2. CASE ConfirmWrite(t)
        BY <3>2, <4>1, <4>2 DEF ConfirmWrite, TypeOK, Row
      <4>3. CASE RefundWrite(t)
        BY <3>2, <4>1, <4>3, FlushedValues DEF RefundWrite, TypeOK, Statuses
      <4>4. CASE DoneWrite(t)
        BY <3>2, <4>1, <4>4, FlushedValues DEF DoneWrite, TypeOK, Statuses
      <4>5. CASE FailedWrite(t)
        <5>1. PICK k \in AnyKey :
                 pay' = [pay EXCEPT ![o] = Flushed(pay[o], task[t].snap, "failed", k)]
          BY <3>2, <4>1, <4>5 DEF FailedWrite
        <5> QED
          BY <4>1, <5>1, FlushedValues DEF TypeOK, Statuses
      <4> QED
        BY <2>2, <4>2, <4>3, <4>4, <4>5
    <3> QED
      BY <1>2, <3>3, <3>4, <3>5 DEF CheckoutIdempotent, Exists
  <2>3. CASE pay' = pay
    BY <1>2, <2>3 DEF CheckoutIdempotent, Exists
  <2> QED
    BY <1>2, <2>1, <2>2, <2>3, PayWriters
<1>3. CheckoutIdempotent /\ UNCHANGED vars => CheckoutIdempotent'
  BY DEF vars, CheckoutIdempotent, Exists
<1> QED
  BY <1>1, <1>2, <1>3, Invariance, PTL DEF Spec

-----------------------------------------------------------------------------
(* The ledger implements PaymentPromise *)

Taken  == {o \in Orders : Charged(o)}
Status == [o \in Orders |-> pay[o].status]

\* A step that writes a row opens it or records what is known about it.
LEMMA RowPromise ==
    ASSUME Inv, Next, pay' # pay
    PROVE  /\ returned' = returned /\ attempt' = attempt
           /\ \/ Status' = Status
              \/ \E o \in Orders :
                   \/ Status[o] = "none" /\ Status' = [Status EXCEPT ![o] = "pending"]
                   \/ /\ Status[o] # "none"
                      /\ \E s \in Statuses :
                           /\ \/ s = "paid" /\ o \in Taken
                              \/ s = "failed"
                              \/ s = "refunded" /\ o \in returned
                           /\ Status' = [Status EXCEPT ![o] = s]
<1> TypeOK /\ TasksTrue /\ FreshInsert
  BY DEF Inv
<1>1. PICK t \in Tasks : \/ CheckoutInsert(t) \/ ConfirmWrite(t) \/ DoneWrite(t)
                         \/ FailedWrite(t) \/ RefundWrite(t)
  BY PayWriters
<1>2. task[t] \in Working /\ task[t] # Idle
  BY <1>1, AtIsWorking DEF CheckoutInsert, ConfirmWrite, DoneWrite, FailedWrite, RefundWrite, At
<1>3. PICK o \in Orders : o = task[t].order
  BY <1>2 DEF Working
<1>4. \A p \in Orders \ {o} : pay'[p] = pay[p]
  BY <1>1, <1>3 DEF CheckoutInsert, ConfirmWrite, DoneWrite, FailedWrite, RefundWrite, TypeOK
<1>5. Status' = [Status EXCEPT ![o] = pay'[o].status]
  BY <1>4 DEF Status
<1>6. returned' = returned /\ attempt' = attempt
  BY <1>1 DEF CheckoutInsert, ConfirmWrite, DoneWrite, FailedWrite, RefundWrite, toss
<1>7. CASE pay'[o].status = pay[o].status
  BY <1>5, <1>6, <1>7 DEF Status
<1>8. CASE CheckoutInsert(t) /\ pay'[o].status # pay[o].status
  <2>1. Status[o] = "none"
    BY <1>3, <1>8 DEF CheckoutInsert, FreshInsert, Exists, Status
  <2>2. pay' = [pay EXCEPT ![o] = task[t].snap]
    BY <1>3, <1>8 DEF CheckoutInsert
  <2>3. pay'[o].status = "pending"
    BY <1>2, <1>8, <2>2 DEF TasksTrue, Standing, CheckoutInsert, At, TypeOK
  <2> QED
    BY <1>5, <1>6, <2>1, <2>3
<1>9. CASE ~CheckoutInsert(t) /\ pay'[o].status # pay[o].status
  <2>1. task[t].stage # "insert"
    BY <1>1, <1>9 DEF ConfirmWrite, DoneWrite, FailedWrite, RefundWrite, At
  <2>2. Exists(o)
    BY <1>2, <1>3, <2>1 DEF TasksTrue, Standing
  <2>3. \A u \in Tasks : task[u] # Idle /\ task[u].order = o /\ At(u, "insert") => FALSE
    BY <2>2 DEF FreshInsert, At
  <2>4. \/ pay'[o].status = "failed"
        \/ pay'[o].status = "paid" /\ Charged(o)
        \/ pay'[o].status = "refunded" /\ o \in returned
    BY <1>9, <2>3, RowSteps DEF RowStep, At
  <2> QED
    BY <1>5, <1>6, <2>2, <2>4 DEF Exists, Status, Taken, Statuses
<1> QED
  BY <1>7, <1>8, <1>9

\* A step that leaves the rows alone charges an order, returns its money, or
\* does neither.
LEMMA TossPromise ==
    ASSUME Inv, Next, pay' = pay
    PROVE  \/ Taken' = Taken /\ returned' = returned
           \/ \E o \in Orders : /\ Exists(o) /\ Taken' = Taken \cup {o}
                                /\ returned' = returned
           \/ \E o \in Taken : Taken' = Taken /\ returned' = returned \cup {o}
<1> TypeOK /\ TossTrue /\ TasksTrue /\ Grows
  BY StepGrows DEF Inv
<1>1. CASE attempt' = attempt /\ returned' = returned
  BY <1>1 DEF Taken, Charged, DoneWith
<1>2. ASSUME NEW o \in Orders, NEW k \in Keys, TossOpen(o, k)
      PROVE  Taken' = Taken /\ returned' = returned
  <2>1. \A p \in Orders, q \in Keys : DoneWith(p, q)' <=> DoneWith(p, q)
    BY <1>2 DEF TossOpen, DoneWith, TypeOK, NoAttempt
  <2> QED
    BY <1>2, <2>1 DEF TossOpen, Taken, Charged
<1>3. ASSUME NEW k \in Keys, TossDecline(k)
      PROVE  Taken' = Taken /\ returned' = returned
  <2>1. attempt[k] \in Attempt
    BY <1>3 DEF TossDecline, TypeOK, NoAttempt
  <2>2. attempt' = [attempt EXCEPT ![k] = [attempt[k] EXCEPT !.state = "failed"]]
    BY <1>3 DEF TossDecline
  <2>3. [attempt[k] EXCEPT !.state = "failed"].state = "failed"
    BY <2>1 DEF Attempt
  <2>4. \A p \in Orders, q \in Keys : DoneWith(p, q)' <=> DoneWith(p, q)
    BY <1>3, <2>2, <2>3 DEF TossDecline, DoneWith, TypeOK
  <2> QED
    BY <1>3, <2>4 DEF TossDecline, Taken, Charged
<1>4. ASSUME NEW k \in Keys, Approve(k), returned' = returned
      PROVE  \E o \in Orders : Exists(o) /\ Taken' = Taken \cup {o} /\ returned' = returned
  <2>1. attempt[k] \in Attempt /\ attempt[k] # NoAttempt
    BY <1>4 DEF Approve, TypeOK, NoAttempt
  <2>2. PICK o \in Orders : o = attempt[k].order
    BY <2>1 DEF Attempt
  <2>3. attempt' = [attempt EXCEPT ![k] = [attempt[k] EXCEPT !.state = "done"]]
    BY <1>4 DEF Approve
  <2>4. [attempt[k] EXCEPT !.state = "done"] = [state |-> "done", order |-> o]
    BY <2>1, <2>2 DEF Attempt
  <2>5. attempt' = [attempt EXCEPT ![k] = [state |-> "done", order |-> o]]
    BY <2>3, <2>4
  <2>6. ASSUME NEW p \in Orders PROVE Charged(p)' <=> Charged(p) \/ p = o
    <3>1. Charged(p) => Charged(p)'
      BY DEF Grows
    <3>2. Charged(o)'
      BY <2>5 DEF Charged, DoneWith, TypeOK
    <3>3. ASSUME NEW q \in Keys, DoneWith(p, q)', p # o PROVE DoneWith(p, q)
      BY <2>5, <3>3 DEF DoneWith, TypeOK
    <3> QED
      BY <3>1, <3>2, <3>3 DEF Charged
  <2> QED
    BY <1>4, <2>1, <2>2, <2>6 DEF TossTrue, Taken
<1>5. ASSUME NEW t \in Workers, RefundAccepted(t) \/ RefundAttemptFails(t)
      PROVE  \/ Taken' = Taken /\ returned' = returned
             \/ \E o \in Taken : Taken' = Taken /\ returned' = returned \cup {o}
  <2>1. task[t] \in Working /\ task[t] # Idle /\ task[t].stage = "refund"
    BY <1>5, AtIsWorking DEF RefundAccepted, RefundAttemptFails, Tasks, At
  <2>2. PICK o \in Orders : o = task[t].order
    BY <2>1 DEF Working
  <2>3. o \in Taken
    BY <2>1, <2>2 DEF TasksTrue, Standing, ChargedStages, Taken, Tasks
  <2>4. Taken' = Taken
    BY <1>5 DEF RefundAccepted, RefundAttemptFails, Taken, Charged, DoneWith
  <2> QED
    BY <1>5, <2>2, <2>3, <2>4 DEF RefundAccepted, RefundAttemptFails
<1>6. CASE \E t \in Handlers : ConfirmDone(t)
  <2>1. PICK t \in Handlers : ConfirmDone(t)
    BY <1>6
  <2>2. task[t].key \in Keys
    BY <2>1, AtIsWorking DEF ConfirmDone, TypeOK, Tasks
  <2> QED
    BY <1>1, <1>4, <2>1, <2>2 DEF ConfirmDone
<1>7. CASE \E k \in Keys : TossDone(k)
  BY <1>4, <1>7 DEF TossDone
<1> QED
  BY <1>1, <1>2, <1>3, <1>5, <1>6, <1>7
     DEF Next, Toss, Request, HandlerStep, WorkerStep, CheckoutLookup, CheckoutInsert,
         ConfirmLoad, ConfirmNotDone, ConfirmWrite, Deliver, DoneLoad, DoneWrite, DoneEmit,
         FailedLoad, FailedWrite, ReadingFails, RefundLoad, RefundWrite, CreditWrite,
         RefundRaises, Redeliver, HandlerDies, WorkerDies, toss

\* Every behaviour of the ledger is one PaymentPromise allows: a row says
\* "paid" or "refunded" only about money Toss has taken or returned.
THEOREM KeepsPromise == Spec => PromiseKept
<1>1. Init => Promise!Init
  BY DEF Init, Promise!Init, Charged, DoneWith, NoAttempt, NoRow
<1>2. Inv /\ [Next]_vars => [Promise!Next]_(Promise!vars)
  <2> SUFFICES ASSUME Inv, [Next]_vars PROVE [Promise!Next]_(Promise!vars)
    OBVIOUS
  <2>1. CASE UNCHANGED vars
    BY <2>1 DEF vars, Promise!vars, Charged, DoneWith
  <2>2. CASE Next /\ pay' # pay
    <3>1. Taken' = Taken
      BY <2>2, RowPromise DEF Taken, Charged, DoneWith
    <3> QED
      BY <2>2, <3>1, RowPromise
         DEF Promise!vars, Promise!Next, Promise!Open, Promise!Record, Promise!Statuses,
             Statuses, Taken, Status
  <2>3. CASE Next /\ pay' = pay
    <3>1. Status' = Status
      BY <2>3 DEF Status
    <3> QED
      BY <2>3, <3>1, TossPromise
         DEF Promise!vars, Promise!Next, Promise!Charge, Promise!Return, Taken, Status, Exists
  <2> QED
    BY <2>1, <2>2, <2>3
<1> QED
  BY <1>1, <1>2, Invariance, PTL DEF Spec, Promise!Spec, PromiseKept
----------------------------------------------------------------------------

-----------------------------------------------------------------------------
(* One compensation per run.  A job is in the hands of one worker at most,  *)
(* and as long as it runs there is a run that has not compensated yet.      *)

Underway(o) == IF job[o] = "running" THEN 1 ELSE 0

Compensations(o) == credits[o] + Cardinality(RefundRows(o))

\* Every worker runs a job that is marked running, and no two the same.
OneWorkerEach ==
    /\ \A t \in Workers : task[t] # Idle => job[task[t].order] = "running"
    /\ \A t, u \in Workers :
          task[t] # Idle /\ task[u] # Idle /\ task[t].order = task[u].order => t = u

RunsBooked ==
    \A o \in Orders : /\ IsFiniteSet(RefundRows(o))
                      /\ Compensations(o) + Underway(o) <= runs[o]

Booked == OneWorkerEach /\ RunsBooked

LEMMA BookedTypes ==
    ASSUME TypeOK, RunsBooked, NEW o \in Orders
    PROVE  Compensations(o) \in Nat /\ Underway(o) \in Nat /\ runs[o] \in Nat
BY FS_CardinalityType DEF TypeOK, RunsBooked, Compensations, Underway

\* A step of Toss or of a web request, or of a worker between two calls.
LEMMA BooksUntouched ==
    ASSUME Booked, UNCHANGED <<refunds, credits, job, runs>>,
           \A t \in Workers : \/ task'[t] = task[t]
                              \/ task[t] # Idle /\ task'[t].order = task[t].order
    PROVE  Booked'
<1>1. OneWorkerEach'
  BY DEF Booked, OneWorkerEach
<1>2. \A o \in Orders : /\ RefundRows(o)' = RefundRows(o)
                        /\ Compensations(o)' = Compensations(o) /\ Underway(o)' = Underway(o)
  BY DEF RefundRows, Compensations, Underway
<1> QED
  BY <1>1, <1>2 DEF Booked, RunsBooked

\* A job that nobody runs is queued.
LEMMA QueuedBooks ==
    ASSUME TypeOK, Booked, NEW o \in Orders, job[o] # "running",
           job' = [job EXCEPT ![o] = "queued"], UNCHANGED <<refunds, credits, runs, task>>
    PROVE  Booked'
<1>1. \A p \in Orders : job'[p] = "running" <=> job[p] = "running"
  BY DEF TypeOK
<1>2. OneWorkerEach'
  BY DEF Booked, OneWorkerEach, TypeOK, Tasks
<1>3. \A p \in Orders : /\ RefundRows(p)' = RefundRows(p)
                        /\ Compensations(p)' = Compensations(p) /\ Underway(p)' = Underway(p)
  BY <1>1 DEF RefundRows, Compensations, Underway
<1> QED
  BY <1>2, <1>3 DEF Booked, RunsBooked

\* A worker ends a job, with one compensation at most.
LEMMA EndedBooks ==
    ASSUME TypeOK, Booked, NEW t \in Workers, task[t] # Idle,
           NEW o \in Orders, task[t].order = o,
           NEW j, j # "running",
           job' = [job EXCEPT ![o] = j], Finish(t), runs' = runs,
           \A p \in Orders \ {o} : credits'[p] = credits[p] /\ RefundRows(p)' = RefundRows(p),
           IsFiniteSet(RefundRows(o))',
           Compensations(o)' \in Nat, Compensations(o)' <= Compensations(o) + 1
    PROVE  Booked'
<1>1. job[o] = "running"
  BY DEF Booked, OneWorkerEach
<1>2. task'[t] = Idle /\ \A u \in Workers \ {t} : task'[u] = task[u]
  BY DEF Finish, TypeOK, Tasks
<1>3. \A p \in Orders \ {o} : job'[p] = job[p]
  BY DEF TypeOK
<1>4. job'[o] = j
  BY <1>1 DEF TypeOK
<1>5. OneWorkerEach'
  BY <1>2, <1>3 DEF Booked, OneWorkerEach, TypeOK, Working, Tasks
<1>6. ASSUME NEW p \in Orders
      PROVE  IsFiniteSet(RefundRows(p))' /\ (Compensations(p) + Underway(p))' <= runs'[p]
  <2>1. CASE p = o
    <3>1. Underway(o) = 1 /\ Underway(p)' = 0
      BY <1>1, <1>4, <2>1 DEF Underway
    <3>2. Compensations(o) + 1 <= runs[o]
      BY <1>1, <3>1 DEF Booked, RunsBooked
    <3>3. Compensations(o) \in Nat /\ runs[o] \in Nat
      BY <1>1, BookedTypes DEF Booked
    <3>4. IsFiniteSet(RefundRows(p))' /\ Compensations(p)' <= Compensations(o) + 1
          /\ Compensations(p)' \in Nat
      BY <2>1 DEF RefundRows, Compensations
    <3> QED
      BY <2>1, <3>1, <3>2, <3>3, <3>4
  <2>2. CASE p # o
    BY <1>3, <2>2 DEF Booked, RunsBooked, Compensations, Underway
  <2> QED
    BY <2>1, <2>2
<1> QED
  BY <1>5, <1>6 DEF Booked, RunsBooked

LEMMA LoadBooks ==
    ASSUME TypeOK, Booked, NEW t \in Workers, NEW o \in Orders, RefundLoad(t, o)
    PROVE  Booked'
<1>1. /\ job[o] = "queued" /\ job' = [job EXCEPT ![o] = "running"]
      /\ runs' = [runs EXCEPT ![o] = @ + 1] /\ UNCHANGED <<credits, refunds>>
  BY DEF RefundLoad, db
<1>2. /\ task'[t].order = o
      /\ \A u \in Workers \ {t} : task'[u] = task[u]
  BY DEF RefundLoad, Begin, TypeOK, Tasks
<1>3. \A u \in Workers \ {t} : task[u] # Idle => task[u].order \in Orders \ {o}
  BY <1>1 DEF Booked, OneWorkerEach, TypeOK, Tasks, Working
<1>4. OneWorkerEach'
  BY <1>1, <1>2, <1>3 DEF Booked, OneWorkerEach, TypeOK
<1>5. ASSUME NEW p \in Orders
      PROVE  IsFiniteSet(RefundRows(p))' /\ (Compensations(p) + Underway(p))' <= runs'[p]
  <2>1. /\ RefundRows(p)' = RefundRows(p) /\ Compensations(p)' = Compensations(p)
        /\ IsFiniteSet(RefundRows(p)) /\ Compensations(p) + Underway(p) <= runs[p]
        /\ Compensations(p) \in Nat /\ runs[p] \in Nat
    BY <1>1, BookedTypes DEF Booked, RunsBooked, RefundRows, Compensations
  <2>2. CASE p = o
    BY <1>1, <2>1, <2>2 DEF TypeOK, Underway
  <2>3. CASE p # o
    BY <1>1, <2>1, <2>3 DEF TypeOK, Underway
  <2> QED
    BY <2>1, <2>2, <2>3
<1> QED
  BY <1>4, <1>5 DEF Booked, RunsBooked

LEMMA RefundWriteBooks ==
    ASSUME TypeOK, Booked, NEW t \in Workers, RefundWrite(t)
    PROVE  Booked'
<1>1. task[t] \in Working /\ task[t] # Idle
  BY AtIsWorking DEF RefundWrite, Tasks, At
<1>2. PICK o \in Orders : task[t].order = o
  BY <1>1 DEF Working
<1>3. PICK r : r.order = o /\ (refunds' = refunds \/ refunds' = refunds \cup {r})
  <2>1. [order |-> o, id |-> task[t].key].order = o
    OBVIOUS
  <2> QED
    BY <1>2, <2>1 DEF RefundWrite
<1>4. PICK j : j # "running" /\ job' = [job EXCEPT ![o] = j]
  BY <1>2 DEF RefundWrite
<1>5. Finish(t) /\ UNCHANGED <<credits, runs>>
  BY DEF RefundWrite
<1>6. \A p \in Orders \ {o} : RefundRows(p)' = RefundRows(p)
  BY <1>3 DEF RefundRows
<1>7. RefundRows(o)' = RefundRows(o) \/ RefundRows(o)' = RefundRows(o) \cup {r}
  BY <1>3 DEF RefundRows
<1>8. /\ IsFiniteSet(RefundRows(o)) /\ Cardinality(RefundRows(o)) \in Nat
      /\ IsFiniteSet(RefundRows(o) \cup {r})
      /\ Cardinality(RefundRows(o) \cup {r}) <= Cardinality(RefundRows(o)) + 1
      /\ Cardinality(RefundRows(o) \cup {r}) \in Nat
  <2>1. IsFiniteSet(RefundRows(o))
    BY DEF Booked, RunsBooked
  <2>2. Cardinality(RefundRows(o)) \in Nat
    BY <2>1, FS_CardinalityType
  <2>3. /\ IsFiniteSet(RefundRows(o) \cup {r})
        /\ Cardinality(RefundRows(o) \cup {r}) =
              IF r \in RefundRows(o) THEN Cardinality(RefundRows(o))
              ELSE Cardinality(RefundRows(o)) + 1
    BY <2>1, FS_AddElement
  <2> QED
    BY <2>1, <2>2, <2>3
<1>9. /\ IsFiniteSet(RefundRows(o))' /\ Compensations(o)' \in Nat
      /\ Compensations(o)' <= Compensations(o) + 1
  <2>1. credits[o] \in Nat /\ credits'[o] = credits[o]
    BY <1>5 DEF TypeOK
  <2>2. CASE RefundRows(o)' = RefundRows(o)
    BY <1>8, <2>1, <2>2 DEF Compensations
  <2>3. CASE RefundRows(o)' = RefundRows(o) \cup {r}
    BY <1>8, <2>1, <2>3 DEF Compensations
  <2> QED
    BY <1>7, <2>2, <2>3
<1> QED
  BY <1>1, <1>2, <1>4, <1>5, <1>6, <1>9, EndedBooks

\* The other ends of a run: a credit, an exception, a worker that dies.
LEMMA OtherEndsBook ==
    ASSUME TypeOK, Booked, NEW t \in Workers, CreditWrite(t) \/ RefundRaises(t) \/ WorkerDies(t)
    PROVE  Booked'
<1>1. task[t] # Idle /\ task[t] \in Working
  BY DEF CreditWrite, RefundRaises, WorkerDies, At, Free, TypeOK, Tasks
<1>2. PICK o \in Orders : task[t].order = o
  BY <1>1 DEF Working
<1>3. PICK j : j # "running" /\ job' = [job EXCEPT ![o] = j]
  <2>1. CASE CreditWrite(t) \/ RefundRaises(t)
    BY <1>2, <2>1 DEF CreditWrite, RefundRaises
  <2>2. CASE WorkerDies(t)
    BY <1>2, <2>2 DEF WorkerDies
  <2> QED
    BY <2>1, <2>2
<1>4. Finish(t) /\ UNCHANGED <<refunds, runs>>
  BY DEF CreditWrite, RefundRaises, WorkerDies, db
<1>5. credits' = credits \/ credits' = [credits EXCEPT ![o] = @ + 1]
  BY <1>2 DEF CreditWrite, RefundRaises, WorkerDies, db
<1>6. \A p \in Orders : RefundRows(p)' = RefundRows(p)
  BY <1>4 DEF RefundRows
<1>7. IsFiniteSet(RefundRows(o)) /\ Cardinality(RefundRows(o)) \in Nat
  BY FS_CardinalityType DEF Booked, RunsBooked
<1>8. /\ credits[o] \in Nat /\ credits'[o] \in {credits[o], credits[o] + 1}
      /\ \A p \in Orders \ {o} : credits'[p] = credits[p]
  BY <1>5 DEF TypeOK
<1>9. /\ IsFiniteSet(RefundRows(o))' /\ Compensations(o)' \in Nat
      /\ Compensations(o)' <= Compensations(o) + 1
  BY <1>6, <1>7, <1>8 DEF Compensations
<1> QED
  BY <1>1, <1>2, <1>3, <1>4, <1>6, <1>8, <1>9, EndedBooks

\* Whatever a web request does to its task, workers are not concerned.
LEMMA OthersBook ==
    ASSUME TypeOK, Booked, NEW t \in Handlers,
           Request(t) \/ HandlerStep(t) \/ HandlerDies(t)
    PROVE  Booked'
<1>1. UNCHANGED <<refunds, credits, job, runs>>
  BY DEF Request, HandlerStep, HandlerDies, CheckoutLookup, ConfirmLoad, DoneLoad, FailedLoad,
         Deliver, CheckoutInsert, ConfirmDone, ConfirmNotDone, ConfirmWrite, DoneWrite, DoneEmit,
         FailedWrite, db, queue
<1>2. PICK w : task' = [task EXCEPT ![t] = w]
  BY DEF Request, HandlerStep, HandlerDies, CheckoutLookup, ConfirmLoad, DoneLoad, FailedLoad,
         Deliver, CheckoutInsert, ConfirmDone, ConfirmNotDone, ConfirmWrite, DoneWrite, DoneEmit,
         FailedWrite, Begin, Goto, Finish
<1>3. \A u \in Workers : task'[u] = task[u]
  BY <1>2 DEF TypeOK, Tasks
<1> QED
  BY <1>1, <1>3, BooksUntouched

\* Between two calls to Toss, a worker keeps its job.
LEMMA CallBooks ==
    ASSUME TypeOK, Booked, NEW t \in Workers, RefundAccepted(t) \/ RefundAttemptFails(t)
    PROVE  Booked'
<1>1. task[t] \in Working /\ task[t] # Idle
  BY AtIsWorking DEF RefundAccepted, RefundAttemptFails, Tasks, At
<1>2. UNCHANGED <<refunds, credits, job, runs>>
  BY DEF RefundAccepted, RefundAttemptFails, db, queue
<1>3. PICK w : w.order = task[t].order /\ task' = [task EXCEPT ![t] = w]
  <2>1. CASE RefundAccepted(t)
    <3> DEFINE w == [task[t] EXCEPT !.stage = "set_refunded"]
    <3>1. task' = [task EXCEPT ![t] = w]
      BY <2>1 DEF RefundAccepted, Goto
    <3>2. w.order = task[t].order
      BY <1>1 DEF Working
    <3> QED
      BY <3>1, <3>2
  <2>2. CASE RefundAttemptFails(t)
    <3> DEFINE n == task[t].tries + 1
               s == AfterFailure(n)
               w == [task[t] EXCEPT !.tries = n, !.stage = s]
    <3>1. task' = [task EXCEPT ![t] = w]
      BY <2>2 DEF RefundAttemptFails
    <3> HIDE DEF n, s
    <3>2. w.order = task[t].order
      BY <1>1 DEF Working
    <3> QED
      BY <3>1, <3>2
  <2> QED
    BY <2>1, <2>2
<1>4. task'[t].order = task[t].order
  BY <1>3 DEF TypeOK, Tasks
<1>5. \A u \in Workers \ {t} : task'[u] = task[u]
  BY <1>3 DEF TypeOK, Tasks
<1> QED
  BY <1>1, <1>2, <1>4, <1>5, BooksUntouched

LEMMA BooksInit == Init => Booked
<1> SUFFICES ASSUME Init PROVE Booked
  OBVIOUS
<1>1. \A o \in Orders : RefundRows(o) = {}
  BY DEF Init, RefundRows
<1> QED
  BY <1>1, FS_EmptySet DEF Init, Booked, OneWorkerEach, RunsBooked, Compensations, Underway, Tasks

LEMMA BooksStep == TypeOK /\ Booked /\ [Next]_vars => Booked'
<1> SUFFICES ASSUME TypeOK, Booked, [Next]_vars PROVE Booked'
  OBVIOUS
<1>1. CASE Toss \/ UNCHANGED vars
  <2>1. UNCHANGED <<refunds, credits, job, runs, task>>
    BY <1>1 DEF Toss, TossOpen, TossDone, TossDecline, db, queue, vars
  <2> QED
    BY <2>1, BooksUntouched
<1>2. ASSUME NEW o \in Orders, ReadingFails(o) \/ Redeliver(o) PROVE Booked'
  BY <1>2, QueuedBooks DEF ReadingFails, Redeliver, db
<1>3. ASSUME NEW t \in Handlers, Request(t) \/ HandlerStep(t) \/ HandlerDies(t) PROVE Booked'
  BY <1>3, OthersBook
<1>4. ASSUME NEW t \in Workers, NEW o \in Orders, RefundLoad(t, o) PROVE Booked'
  BY <1>4, LoadBooks
<1>5. ASSUME NEW t \in Workers, RefundAccepted(t) \/ RefundAttemptFails(t) PROVE Booked'
  BY <1>5, CallBooks
<1>6. ASSUME NEW t \in Workers,
             RefundWrite(t) \/ CreditWrite(t) \/ RefundRaises(t) \/ WorkerDies(t)
      PROVE  Booked'
  BY <1>6, RefundWriteBooks, OtherEndsBook
<1> QED
  BY <1>1, <1>2, <1>3, <1>4, <1>5, <1>6 DEF Next, WorkerStep

\* However often the queue runs a refund job, and wherever its workers die,
\* there are no more refunds and credits than runs.
THEOREM CompensatedOncePerRun == Spec => []OneCompensationPerRun
<1>1. TypeOK /\ Booked => OneCompensationPerRun
  <2> SUFFICES ASSUME TypeOK, Booked, NEW o \in Orders
               PROVE  Compensations(o) <= runs[o]
    BY DEF OneCompensationPerRun, Compensations
  <2> QED
    BY BookedTypes DEF Booked, RunsBooked
<1> QED
  BY <1>1, TypeCorrect, BooksInit, BooksStep, PTL DEF Spec
=============
