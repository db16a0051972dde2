---------------------------- MODULE PaymentLedger ----------------------------
(***************************************************************************)
(* The payments, refunds and compensation rows of the API, and everything  *)
(* that writes them: POST /payments/checkout and /confirm, the Toss        *)
(* webhook's PAYMENT_DONE and PAYMENT_FAILED handlers, and the             *)
(* refund_for_reading job.                                                 *)
(*                                                                         *)
(* Each request or job runs in a task.  A task gives up the event loop at  *)
(* every await, so a handler is split where it reads the row, calls Toss   *)
(* and commits; nothing locks the row in between (the code has no          *)
(* SELECT ... FOR UPDATE), and the UPDATE that a commit flushes writes     *)
(* only the columns that differ from the row as the task loaded it.        *)
(*                                                                         *)
(* Toss is external.  An order is tried with one or more payment keys; an  *)
(* attempt ends done or failed, at most one attempt of an order is done,   *)
(* and each end is announced by webhook events that may arrive late, in    *)
(* any order, and more than once.                                          *)
(*                                                                         *)
(* A definition named X_Something is a faulty variant of X.  No            *)
(* specification uses it; it is there to be put in the place of X, to see  *)
(* that the properties notice.                                             *)
(***************************************************************************)
EXTENDS Naturals, FiniteSets

CONSTANTS Orders,               \* toss_order_id values checkout may draw
          Keys, NoKey,          \* Toss payment keys; NULL toss_payment_key
          IdemKeys, NoIdem,     \* Idempotency-Key headers; header absent
          Handlers,             \* tasks of the web process
          Workers,              \* tasks of the worker process
          Faults,               \* which of "die", "raise" may happen to a task
          MaxDeliveries,        \* bound: webhook deliveries
          MaxRuns,              \* bound: times the queue runs one refund job
          MAX_REFUND_ATTEMPTS   \* refund_retry.py: Toss calls in one run

ASSUME LedgerAssumption ==
    /\ NoKey \notin Keys
    /\ NoIdem \notin IdemKeys
    /\ Handlers \cap Workers = {}
    /\ Faults \subseteq {"die", "raise"}
    /\ MaxDeliveries \in Nat
    /\ MaxRuns \in Nat \ {0}
    /\ MAX_REFUND_ATTEMPTS \in Nat \ {0}

VARIABLES pay,          \* payments rows, by toss_order_id
          refunds,      \* refunds rows with status 'succeeded'
          credits,      \* per order, refunds rows 'failed_credited', each
                        \* with its own failure_compensation free token
          emitted,      \* per order, payment_completed analytics events
          task,         \* what each task has read and where it is
          job,          \* the refund_for_reading job of each order's reading
          runs,         \* how many times that job was started
          attempt,      \* Toss: what became of each payment key
          events,       \* Toss: webhook events it has sent (never withdrawn)
          deliveries,   \* webhook deliveries so far
          returned      \* Toss: orders whose refund it has accepted

db       == <<pay, refunds, credits, emitted>>
queue    == <<job, runs>>
toss     == <<attempt, events, returned>>
vars     == <<pay, refunds, credits, emitted, task, job, runs, attempt,
              events, deliveries, returned>>

-----------------------------------------------------------------------------
(* Types *)

Tasks  == Handlers \cup Workers
AnyKey == Keys \cup {NoKey}

Statuses == {"none", "pending", "paid", "failed", "refunded"}

Row   == [status : Statuses, key : AnyKey, idem : IdemKeys \cup {NoIdem}]
NoRow == [status |-> "none", key |-> NoKey, idem |-> NoIdem]

Event   == [type : {"PAYMENT_DONE", "PAYMENT_FAILED"}, order : Orders, key : AnyKey]

Attempt   == [state : {"open", "done", "failed"}, order : Orders]
NoAttempt == [state |-> "unused"]

Stages == {"insert", "confirm", "set_paid", "apply_done", "emit", "apply_failed",
           "refund", "set_refunded", "credit"}
Idle    == [stage |-> "idle"]
Working == [stage : Stages, order : Orders, key : AnyKey, snap : Row,
            tries : 0..MAX_REFUND_ATTEMPTS]

TypeOK ==
    /\ pay \in [Orders -> Row]
    /\ refunds \subseteq [order : Orders, id : AnyKey]
    /\ credits \in [Orders -> Nat]
    /\ emitted \in [Orders -> Nat]
    /\ task \in [Tasks -> Working \cup {Idle}]
    /\ \A t \in Tasks :
         /\ task[t].stage = "confirm" => task[t].key \in Keys
         /\ task[t].stage = "refund" => task[t].tries < MAX_REFUND_ATTEMPTS
    /\ job \in [Orders -> {"none", "queued", "running", "done", "raised"}]
    /\ runs \in [Orders -> Nat]
    /\ attempt \in [Keys -> Attempt \cup {NoAttempt}]
    /\ events \subseteq Event
    /\ deliveries \in Nat
    /\ returned \subseteq Orders

Init ==
    /\ pay = [o \in Orders |-> NoRow]
    /\ refunds = {}
    /\ credits = [o \in Orders |-> 0]
    /\ emitted = [o \in Orders |-> 0]
    /\ task = [t \in Tasks |-> Idle]
    /\ job = [o \in Orders |-> "none"]
    /\ runs = [o \in Orders |-> 0]
    /\ attempt = [k \in Keys |-> NoAttempt]
    /\ events = {}
    /\ deliveries = 0
    /\ returned = {}

-----------------------------------------------------------------------------
(* Helpers *)

Free(t)       == task[t] = Idle
At(t, stage)  == task[t] # Idle /\ task[t].stage = stage
Finish(t)     == task' = [task EXCEPT ![t] = Idle]
Goto(t, stage) == task' = [task EXCEPT ![t].stage = stage]

\* Task t has loaded the row of order o and goes on at the given stage.
Begin(t, stage, o, k) ==
    task' = [task EXCEPT ![t] = [stage |-> stage, order |-> o, key |-> k,
                                 snap |-> pay[o], tries |-> 0]]

Exists(o) == pay[o].status # "none"

\* Toss took the money of order o with key k / with some key.
DoneWith(o, k) == k \in Keys /\ attempt[k] = [state |-> "done", order |-> o]
Charged(o)     == \E k \in Keys : DoneWith(o, k)

\* The row an UPDATE leaves: a column is written only when its new value
\* differs from the value the task loaded.
Flushed(row, snap, status, key) ==
    [row EXCEPT !.status = IF status = snap.status THEN @ ELSE status,
                !.key    = IF key = snap.key THEN @ ELSE key]

-----------------------------------------------------------------------------
(* Toss, external *)

\* The user authorises an order in the Toss window: a new attempt.
TossOpen(o, k) ==
    /\ Exists(o)
    /\ ~Charged(o)
    /\ attempt[k] = NoAttempt
    /\ attempt' = [attempt EXCEPT ![k] = [state |-> "open", order |-> o]]
    /\ UNCHANGED <<db, task, queue, events, deliveries, returned>>

\* Toss approves an open attempt and sends PAYMENT_DONE.
Approve(k) ==
    /\ attempt[k].state = "open"
    /\ ~Charged(attempt[k].order)
    /\ attempt' = [attempt EXCEPT ![k].state = "done"]
    /\ events' = events \cup
         {[type |-> "PAYMENT_DONE", order |-> attempt[k].order, key |-> k]}

\* An attempt ends on Toss's own clock: approved, or declined with an event
\* that names the payment key or leaves it out.
TossDone(k) ==
    /\ Approve(k)
    /\ UNCHANGED <<db, task, queue, deliveries, returned>>

TossDecline(k) ==
    /\ attempt[k].state = "open"
    /\ attempt' = [attempt EXCEPT ![k].state = "failed"]
    /\ \E named \in {k, NoKey} :
         events' = events \cup {[type |-> "PAYMENT_FAILED",
                                 order |-> attempt[k].order, key |-> named]}
    /\ UNCHANGED <<db, task, queue, deliveries, returned>>

-----------------------------------------------------------------------------
(* POST /payments/checkout *)

\* The unique index payments_idempotency_uk.
IdemTaken(i) == i # NoIdem /\ \E o \in Orders : Exists(o) /\ pay[o].idem = i

\* No row with this Idempotency-Key is visible: a fresh order id is drawn.
CheckoutLookup(t, o, i) ==
    /\ Free(t)
    /\ ~Exists(o)
    /\ \A u \in Tasks : At(u, "insert") => task[u].order # o
    /\ ~IdemTaken(i)
    /\ task' = [task EXCEPT ![t] =
         [stage |-> "insert", order |-> o, key |-> NoKey, tries |-> 0,
          snap |-> [status |-> "pending", key |-> NoKey, idem |-> i]]]
    /\ UNCHANGED <<db, queue, toss, deliveries>>

\* INSERT and commit; a concurrent insert with the same key made the index
\* reject this one, and the request answers 500.
IdemConflict(i) == IdemTaken(i)

CheckoutInsert(t) ==
    /\ At(t, "insert")
    /\ pay' = IF IdemConflict(task[t].snap.idem) THEN pay
              ELSE [pay EXCEPT ![task[t].order] = task[t].snap]
    /\ Finish(t)
    /\ UNCHANGED <<refunds, credits, emitted, queue, toss, deliveries>>

-----------------------------------------------------------------------------
(* POST /payments/confirm, for the browser back from Toss with order o and *)
(* payment key k; requests for an unknown order, with another amount or    *)
(* for a row already paid answer without any change.                       *)

ConfirmLoad(t, o, k) ==
    /\ Free(t)
    /\ Exists(o)
    /\ attempt[k] # NoAttempt /\ attempt[k].order = o
    /\ pay[o].status # "paid"
    /\ Begin(t, "confirm", o, k)
    /\ UNCHANGED <<db, queue, toss, deliveries>>

\* toss.confirm_payment answers DONE: the attempt was done, or this call
\* is what approves it.  (A refunded order may be answered either way: the
\* mock client says DONE again, the HTTP one reports whatever Toss does.)
ConfirmDone(t) ==
    /\ At(t, "confirm")
    /\ \/ attempt[task[t].key].state = "done" /\ UNCHANGED <<attempt, events>>
       \/ Approve(task[t].key)
    /\ Goto(t, "set_paid")
    /\ UNCHANGED <<db, queue, deliveries, returned>>

ConfirmNotDone_Unchecked(t) ==
    /\ At(t, "confirm")
    /\ Goto(t, "set_paid")
    /\ UNCHANGED <<db, queue, toss, deliveries>>

\* Any other answer, a timeout or an HTTP error: 4xx/5xx, nothing written.
ConfirmNotDone(t) ==
    /\ At(t, "confirm")
    /\ Finish(t)
    /\ UNCHANGED <<db, queue, toss, deliveries>>

\* payment.status = "paid", commit.  toss_payment_key is left as it was.
ConfirmWrite(t) ==
    /\ At(t, "set_paid")
    /\ pay' = [pay EXCEPT ![task[t].order].status = "paid"]
    /\ Finish(t)
    /\ UNCHANGED <<refunds, credits, emitted, queue, toss, deliveries>>

-----------------------------------------------------------------------------
(* POST /payments/webhook *)

\* The idempotency guards of the two handlers.
AlreadyDone(row, k)   == row.key = k /\ row.status = "paid"
AlreadyFailed(row, k) == row.key = k /\ row.status = "failed"

Deliver(t, e, stage) ==
    /\ Free(t)
    /\ e \in events
    /\ deliveries < MaxDeliveries
    /\ deliveries' = deliveries + 1
    /\ Begin(t, stage, e.order, e.key)
    /\ UNCHANGED <<db, queue, toss>>

\* _handle_payment_done loads the row; an unknown order or an event already
\* applied is acknowledged without any change.
DoneLoad(t, e) ==
    /\ e.type = "PAYMENT_DONE"
    /\ Exists(e.order)
    /\ ~AlreadyDone(pay[e.order], e.key)
    /\ Deliver(t, e, "apply_done")

DoneWrite(t) ==
    LET o == task[t].order IN
    /\ At(t, "apply_done")
    /\ pay' = [pay EXCEPT ![o] = Flushed(@, task[t].snap, "paid", task[t].key)]
    /\ Goto(t, "emit")
    /\ UNCHANGED <<refunds, credits, emitted, queue, toss, deliveries>>

\* emit_payment_completed runs after the commit.
DoneEmit(t) ==
    /\ At(t, "emit")
    /\ emitted' = [emitted EXCEPT ![task[t].order] = @ + 1]
    /\ Finish(t)
    /\ UNCHANGED <<pay, refunds, credits, queue, toss, deliveries>>

FailedLoad(t, e) ==
    /\ e.type = "PAYMENT_FAILED"
    /\ Exists(e.order)
    /\ ~AlreadyFailed(pay[e.order], e.key)
    /\ Deliver(t, e, "apply_failed")

\* The key is written only when the event names one.
FailedWrite(t) ==
    LET o   == task[t].order
        key == IF task[t].key = NoKey THEN task[t].snap.key ELSE task[t].key
    IN /\ At(t, "apply_failed")
       /\ pay' = [pay EXCEPT ![o] = Flushed(@, task[t].snap, "failed", key)]
       /\ Finish(t)
       /\ UNCHANGED <<refunds, credits, emitted, queue, toss, deliveries>>

-----------------------------------------------------------------------------
(* The refund_for_reading job *)

ReadingFails_Unpaid(o) ==
    /\ Exists(o)
    /\ job[o] = "none"
    /\ job' = [job EXCEPT ![o] = "queued"]
    /\ UNCHANGED <<db, task, runs, toss, deliveries>>

\* A reading paid with order o fails and its refund job is enqueued.
ReadingFails(o) ==
    /\ pay[o].status = "paid"
    /\ job[o] = "none"
    /\ job' = [job EXCEPT ![o] = "queued"]
    /\ UNCHANGED <<db, task, runs, toss, deliveries>>

\* A worker takes the job and refund_payment loads the row: no check of its
\* status.
RefundLoad(t, o) ==
    /\ Free(t)
    /\ job[o] = "queued"
    /\ job' = [job EXCEPT ![o] = "running"]
    /\ runs' = [runs EXCEPT ![o] = @ + 1]
    /\ Begin(t, "refund", o, pay[o].key)
    /\ UNCHANGED <<db, toss, deliveries>>

\* Toss accepts the refund and its answer arrives.
RefundAccepted(t) ==
    /\ At(t, "refund")
    /\ returned' = returned \cup {task[t].order}
    /\ Goto(t, "set_refunded")
    /\ UNCHANGED <<db, queue, attempt, events, deliveries>>

Exhausted_Late(n) == n > MAX_REFUND_ATTEMPTS

\* The attempt ends in a RuntimeError: Toss refused, or accepted and the
\* answer was lost.  Tenacity tries again, up to MAX_REFUND_ATTEMPTS.
Exhausted(n) == n = MAX_REFUND_ATTEMPTS

AfterFailure_Swallow(n) == IF Exhausted(n) THEN "set_refunded" ELSE "refund"
AfterFailure(n) == IF Exhausted(n) THEN "credit" ELSE "refund"

RefundAttemptFails_CreditEach(t) ==
    LET n == task[t].tries + 1 IN
    /\ At(t, "refund")
    /\ returned' \in {returned, returned \cup {task[t].order}}
    /\ credits' = [credits EXCEPT ![task[t].order] = @ + 1]
    /\ task' = [task EXCEPT ![t].tries = n, ![t].stage = AfterFailure(n)]
    /\ UNCHANGED <<pay, refunds, emitted, queue, attempt, events, deliveries>>

RefundAttemptFails(t) ==
    LET n == task[t].tries + 1 IN
    /\ At(t, "refund")
    /\ returned' \in {returned, returned \cup {task[t].order}}
    /\ task' = [task EXCEPT ![t].tries = n, ![t].stage = AfterFailure(n)]
    /\ UNCHANGED <<db, queue, attempt, events, deliveries>>

\* refunds_toss_refund_uq: the id of the refund is derived from the key the
\* call was made with, and an id is recorded once.
RefundIdTaken(k) == \E r \in refunds : r.id = k

\* status, refunds row, commit; or IntegrityError, and the job raises.
RefundWrite(t) ==
    LET o == task[t].order  k == task[t].key IN
    /\ At(t, "set_refunded")
    /\ IF RefundIdTaken(k)
       THEN /\ job' = [job EXCEPT ![o] = "raised"]
            /\ UNCHANGED <<pay, refunds>>
       ELSE /\ pay' = [pay EXCEPT ![o] =
                         Flushed(@, task[t].snap, "refunded", task[t].snap.key)]
            /\ refunds' = refunds \cup {[order |-> o, id |-> k]}
            /\ job' = [job EXCEPT ![o] = "done"]
    /\ Finish(t)
    /\ UNCHANGED <<credits, emitted, runs, toss, deliveries>>

\* The fallback: a free token and a failed_credited row, the payment as is.
CreditWrite(t) ==
    LET o == task[t].order IN
    /\ At(t, "credit")
    /\ credits' = [credits EXCEPT ![o] = @ + 1]
    /\ job' = [job EXCEPT ![o] = "done"]
    /\ Finish(t)
    /\ UNCHANGED <<pay, refunds, emitted, runs, toss, deliveries>>

RefundRaises_Swallowed(t) ==
    /\ "raise" \in Faults
    /\ At(t, "refund")
    /\ job' = [job EXCEPT ![task[t].order] = "done"]
    /\ Finish(t)
    /\ UNCHANGED <<db, runs, toss, deliveries>>

\* The Toss call raises something that is not a RuntimeError (httpx errors
\* are not): no retry, no fallback, the job raises.
RefundRaises(t) ==
    /\ "raise" \in Faults
    /\ At(t, "refund")
    /\ job' = [job EXCEPT ![task[t].order] = "raised"]
    /\ Finish(t)
    /\ UNCHANGED <<db, runs, toss, deliveries>>

\* At-least-once queue: a job whose worker stopped before the queue recorded
\* its end is run again.
Redeliver(o) ==
    /\ "die" \in Faults
    /\ job[o] = "done"
    /\ runs[o] < MaxRuns
    /\ job' = [job EXCEPT ![o] = "queued"]
    /\ UNCHANGED <<db, task, runs, toss, deliveries>>

-----------------------------------------------------------------------------
(* A task stops: client gone, deploy, crash.  An open transaction rolls    *)
(* back.  A job goes back to the queue until its runs are used up.         *)

HandlerDies(t) ==
    /\ "die" \in Faults
    /\ ~Free(t)
    /\ Finish(t)
    /\ UNCHANGED <<db, queue, toss, deliveries>>

WorkerDies_Forgotten(t) ==
    /\ "die" \in Faults
    /\ ~Free(t)
    /\ Finish(t)
    /\ UNCHANGED <<db, queue, toss, deliveries>>

WorkerDies(t) ==
    /\ "die" \in Faults
    /\ ~Free(t)
    /\ job' = [job EXCEPT ![task[t].order] =
                 IF runs[task[t].order] < MaxRuns THEN "queued" ELSE "raised"]
    /\ Finish(t)
    /\ UNCHANGED <<db, runs, toss, deliveries>>

-----------------------------------------------------------------------------

HandlerStep(t) ==
    \/ CheckoutInsert(t)
    \/ ConfirmDone(t) \/ ConfirmNotDone(t) \/ ConfirmWrite(t)
    \/ DoneWrite(t) \/ DoneEmit(t)
    \/ FailedWrite(t)

WorkerStep(t) ==
    \/ \E o \in Orders : RefundLoad(t, o)
    \/ RefundAccepted(t) \/ RefundAttemptFails(t) \/ RefundRaises(t)
    \/ RefundWrite(t) \/ CreditWrite(t)

Request(t) ==
    \/ \E o \in Orders, i \in IdemKeys \cup {NoIdem} : CheckoutLookup(t, o, i)
    \/ \E o \in Orders, k \in Keys : ConfirmLoad(t, o, k)
    \/ \E e \in events : DoneLoad(t, e) \/ FailedLoad(t, e)

Toss ==
    \/ \E o \in Orders, k \in Keys : TossOpen(o, k)
    \/ \E k \in Keys : TossDone(k) \/ TossDecline(k)

Next ==
    \/ Toss
    \/ \E t \in Handlers : Request(t) \/ HandlerStep(t) \/ HandlerDies(t)
    \/ \E t \in Workers : WorkerStep(t) \/ WorkerDies(t)
    \/ \E o \in Orders : ReadingFails(o) \/ Redeliver(o)

Spec == Init /\ [][Next]_vars

\* The worker keeps running the job it has begun and takes the next one.
Fairness == \A t \in Workers : WF_vars(WorkerStep(t))

FairSpec == Spec /\ Fairness

-----------------------------------------------------------------------------
(* Properties *)

RefundRows(o) == {r \in refunds : r.order = o}

\* A row says "paid" only about an order Toss has charged, whatever mix of
\* redirects, late events and stale reads wrote it (confirm, webhook).
PaidOnlyIfCharged == \A o \in Orders : pay[o].status = "paid" => Charged(o)

\* The key a refund will be requested with never belongs to another order.
KeyOfOwnOrder ==
    \A o \in Orders : pay[o].key # NoKey =>
        attempt[pay[o].key] # NoAttempt /\ attempt[pay[o].key].order = o

\* A "refunded" row always has its refunds row: refund_payment writes both in
\* one transaction, and no other handler can produce the status.
RefundedHasRow == \A o \in Orders : pay[o].status = "refunded" => RefundRows(o) # {}

\* A 'succeeded' refunds row is never about money Toss has not returned, for
\* all the retries, lost answers and crashes of the job.
RefundRowBacked == \A r \in refunds : r.order \in returned

\* Whatever is handed out, a refund or a free token, goes to somebody who
\* was charged; so does every payment_completed event.
OnlyChargedOrdersCount ==
    \A o \in Orders :
        (o \in returned \/ credits[o] > 0 \/ emitted[o] > 0) => Charged(o)

\* A job that ended well has left a compensation in the ledger.
DoneJobCompensated ==
    \A o \in Orders : job[o] = "done" => credits[o] > 0 \/ RefundRows(o) # {}

\* No run of the job compensates twice, whether it is cut short or repeated.
OneCompensationPerRun ==
    \A o \in Orders : credits[o] + Cardinality(RefundRows(o)) <= runs[o]

\* Two rows never share an Idempotency-Key, for all the checkouts in flight.
CheckoutIdempotent ==
    \A o, p \in Orders :
        Exists(o) /\ Exists(p) /\ pay[o].idem = pay[p].idem /\ pay[o].idem # NoIdem
            => o = p

\* The ledger keeps the promise of the abstract specification.
Promise == INSTANCE PaymentPromise WITH
              charged <- {o \in Orders : Charged(o)},
              status  <- [o \in Orders |-> pay[o].status]
PromiseKept == Promise!Spec

\* A refund job that was enqueued ends: refunded, credited or raised.
JobEnds == \A o \in Orders : job[o] = "queued" ~> job[o] \in {"done", "raised"}

(* What the documents say and the code does not do. *)

\* "duplicate delivery on same toss_payment_key -> idempotent": an event
\* whose key the row already carried leaves the status alone.
DuplicateDoneIsNoOp ==
    [][\A t \in Handlers :
         At(t, "apply_done") /\ task[t].snap.key = task[t].key /\ At(t, "emit")'
             => UNCHANGED pay]_vars
=============================================================================
