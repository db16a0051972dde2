---------------------------- MODULE Subscriptions ----------------------------
(***************************************************************************)
(* The subscriptions rows of one user and everything that writes them:     *)
(* POST /subscriptions, POST /subscriptions/cancel and the webhook's       *)
(* SUBSCRIPTION_RENEWED, SUBSCRIPTION_CANCELED and BILLING_FAILED handlers.*)
(* Every query of these handlers filters on the user, so one user's rows   *)
(* never meet another's.                                                   *)
(*                                                                         *)
(* A request runs in a task, and is split where it has read and where it   *)
(* commits: there is no row lock, the UPDATE writes only the columns that  *)
(* differ from the row as loaded, and a partial unique index admits one    *)
(* row with status 'active'.  Toss is external: it bills the user once per *)
(* period, or fails to, or stops, and its events may be delivered late, in *)
(* any order and again.  monthly_saju_remaining is left out: every writer  *)
(* sets it to 1.  Time counts billing periods.                             *)
(***************************************************************************)
EXTENDS Naturals

CONSTANTS Rows,             \* subscription ids a create may insert
          Tasks,            \* tasks of the web process
          MaxTime,          \* bound: billing periods that pass
          MaxDeliveries     \* bound: webhook deliveries

ASSUME SubscriptionsAssumption == MaxTime \in Nat /\ MaxDeliveries \in Nat

VARIABLES sub,          \* the user's subscriptions rows
          task,         \* what each handler has read and where it is
          now,          \* the current period
          events,       \* Toss: events it has sent (never withdrawn)
          billedTo,     \* Toss: end of the last period it billed
          billing,      \* Toss: whether it goes on billing the user
          deliveries,   \* webhook deliveries so far
          failed        \* what was answered 500

toss == <<events, billedTo, billing>>
subscriptions == <<sub, task, now, events, billedTo, billing, deliveries, failed>>

-----------------------------------------------------------------------------
(* Types *)

Statuses == {"none", "active", "cancel_at_period_end", "past_due", "canceled"}

Row   == [status : Statuses, end : Nat, requested : BOOLEAN, canceled : BOOLEAN]
NoRow == [status |-> "none", end |-> 0, requested |-> FALSE, canceled |-> FALSE]

Types == {"RENEWED", "CANCELED", "BILLING_FAILED"}
Event == [type : Types, end : Nat]

Stages  == {"insert", "cancel"} \cup Types
NoTask    == [stage |-> "idle"]
Working == [stage : Stages, row : Rows, snap : Row, end : Nat]

SubsTypeOK ==
    /\ sub \in [Rows -> Row]
    /\ task \in [Tasks -> Working \cup {NoTask}]
    /\ now \in Nat
    /\ events \subseteq Event
    /\ billedTo \in Nat
    /\ billing \in BOOLEAN
    /\ deliveries \in Nat
    /\ failed \subseteq Stages

SubsInit ==
    /\ sub = [r \in Rows |-> NoRow]
    /\ task = [t \in Tasks |-> NoTask]
    /\ now = 0
    /\ events = {}
    /\ billedTo = 0
    /\ billing = FALSE
    /\ deliveries = 0
    /\ failed = {}

-----------------------------------------------------------------------------
(* Helpers *)

Free(t)      == task[t] = NoTask
At(t, stage) == task[t] # NoTask /\ task[t].stage = stage
Finish(t)    == task' = [task EXCEPT ![t] = NoTask]

WithStatus(S) == {r \in Rows : sub[r].status \in S}
HasRow        == WithStatus({"none"}) # Rows

\* The task has loaded row r (or will insert it).
Begin(t, stage, r, row, end) ==
    task' = [task EXCEPT ![t] = [stage |-> stage, row |-> r, snap |-> row, end |-> end]]

ActiveTaken_NoIndex(r, row) == FALSE

\* subscriptions_one_active_per_user: r may not become a second active row.
ActiveTaken(r, row) ==
    row.status = "active" /\ \E q \in Rows \ {r} : sub[q].status = "active"

\* Commit: the row as written, or IntegrityError, rollback and a 500.
Commit(t, row) ==
    LET r == task[t].row IN
    IF ActiveTaken(r, row)
    THEN failed' = failed \cup {task[t].stage} /\ UNCHANGED sub
    ELSE sub' = [sub EXCEPT ![r] = row] /\ UNCHANGED failed

-----------------------------------------------------------------------------
(* Toss, external, and the passing of time *)

Tick ==
    /\ now < MaxTime
    /\ now' = now + 1
    /\ UNCHANGED <<sub, task, toss, deliveries, failed>>

\* A period has run out and Toss bills the next one, or fails to.
TossRenews ==
    /\ billing
    /\ billedTo <= now
    /\ billedTo' = now + 1
    /\ events' = events \cup {[type |-> "RENEWED", end |-> now + 1]}
    /\ UNCHANGED <<sub, task, now, billing, deliveries, failed>>

TossFails ==
    /\ billing
    /\ billedTo <= now
    /\ events' = events \cup {[type |-> "BILLING_FAILED", end |-> 0]}
    /\ UNCHANGED <<sub, task, now, billedTo, billing, deliveries, failed>>

\* The billing agreement ends (cancelled at Toss, or by Toss).
TossStops ==
    /\ billing
    /\ billing' = FALSE
    /\ events' = events \cup {[type |-> "CANCELED", end |-> 0]}
    /\ UNCHANGED <<sub, task, now, billedTo, deliveries, failed>>

-----------------------------------------------------------------------------
(* POST /subscriptions; with an active row the request changes nothing. *)

CreateLookup(t, r) ==
    /\ Free(t)
    /\ WithStatus({"active"}) = {}
    /\ sub[r].status = "none"
    /\ \A u \in Tasks : At(u, "insert") => task[u].row # r
    /\ Begin(t, "insert", r, NoRow, now + 1)
    /\ UNCHANGED <<sub, now, toss, deliveries, failed>>

\* INSERT and commit; with the row comes Toss's agreement to bill the user.
CreateInsert(t) ==
    /\ At(t, "insert")
    /\ Commit(t, [NoRow EXCEPT !.status = "active", !.end = task[t].end])
    /\ IF UNCHANGED sub
       THEN UNCHANGED <<billing, billedTo>>
       ELSE /\ billing' = TRUE
            /\ billedTo' = IF task[t].end > billedTo THEN task[t].end ELSE billedTo
    /\ Finish(t)
    /\ UNCHANGED <<now, events, deliveries>>

-----------------------------------------------------------------------------
(* POST /subscriptions/cancel; without an active row, 404.  The job it     *)
(* enqueues goes to a queue that ends with the request.                    *)

CancelLoad(t, r) ==
    /\ Free(t)
    /\ sub[r].status = "active"
    /\ Begin(t, "cancel", r, sub[r], 0)
    /\ UNCHANGED <<sub, now, toss, deliveries, failed>>

CancelWrite_Misspelt(t) ==
    /\ At(t, "cancel")
    /\ Commit(t, [sub[task[t].row] EXCEPT !.status = "cancelled", !.requested = TRUE])
    /\ Finish(t)
    /\ UNCHANGED <<now, toss, deliveries>>

CancelWrite(t) ==
    /\ At(t, "cancel")
    /\ Commit(t, [sub[task[t].row] EXCEPT !.status = "cancel_at_period_end",
                                          !.requested = TRUE])
    /\ Finish(t)
    /\ UNCHANGED <<now, toss, deliveries>>

-----------------------------------------------------------------------------
(* POST /payments/webhook *)

\* The statuses the handler of an event looks for.
Wanted_Any(type) == Statuses \ {"none"}

Wanted(type) ==
    CASE type = "RENEWED"        -> {"active", "past_due"}
      [] type = "BILLING_FAILED" -> {"active"}
      [] OTHER                   -> Statuses \ {"none"}

\* A replayed or older RENEWED is dropped before anything is written.
Advances_Always(r, e) == TRUE
Advances(r, e) == e.type = "RENEWED" => e.end > sub[r].end

\* The query finds one row; without one the event is acknowledged unread.
WebhookLoad(t, e) ==
    /\ Free(t)
    /\ deliveries < MaxDeliveries
    /\ deliveries' = deliveries + 1
    /\ \E r \in Rows :
         /\ WithStatus(Wanted(e.type)) = {r}
         /\ Advances(r, e)
         /\ Begin(t, e.type, r, sub[r], e.end)
    /\ UNCHANGED <<sub, now, toss, failed>>

\* scalar_one_or_none finds two rows and raises MultipleResultsFound.
WebhookAmbiguous(t, e) ==
    /\ Free(t)
    /\ deliveries < MaxDeliveries
    /\ deliveries' = deliveries + 1
    /\ \E q, r \in WithStatus(Wanted(e.type)) : q # r
    /\ failed' = failed \cup {e.type}
    /\ UNCHANGED <<sub, task, now, toss>>

RenewedWrite_Extend(t) ==
    /\ At(t, "RENEWED")
    /\ Commit(t, [sub[task[t].row] EXCEPT !.end = @ + 1, !.status = "active"])
    /\ Finish(t)
    /\ UNCHANGED <<now, toss, deliveries>>

\* The period moves on; the status is written when it was not 'active'.
RenewedWrite(t) ==
    /\ At(t, "RENEWED")
    /\ Commit(t, [sub[task[t].row] EXCEPT
                    !.end = task[t].end,
                    !.status = IF task[t].snap.status = "active" THEN @ ELSE "active"])
    /\ Finish(t)
    /\ UNCHANGED <<now, toss, deliveries>>

CanceledWrite(t) ==
    LET closed == {"canceled", "cancel_at_period_end"} IN
    /\ At(t, "CANCELED")
    /\ Commit(t, [sub[task[t].row] EXCEPT
                    !.canceled = TRUE,
                    !.status = IF task[t].snap.status \in closed THEN @
                               ELSE "cancel_at_period_end"])
    /\ Finish(t)
    /\ UNCHANGED <<now, toss, deliveries>>

BillingFailedWrite(t) ==
    /\ At(t, "BILLING_FAILED")
    /\ Commit(t, [sub[task[t].row] EXCEPT !.status = "past_due"])
    /\ Finish(t)
    /\ UNCHANGED <<now, toss, deliveries>>

-----------------------------------------------------------------------------

HandlerStep(t) ==
    \/ CreateInsert(t) \/ CancelWrite(t)
    \/ RenewedWrite(t) \/ CanceledWrite(t) \/ BillingFailedWrite(t)

SubsNext ==
    \/ Tick \/ TossRenews \/ TossFails \/ TossStops
    \/ \E t \in Tasks :
         \/ \E r \in Rows : CreateLookup(t, r) \/ CancelLoad(t, r)
         \/ \E e \in events : WebhookLoad(t, e) \/ WebhookAmbiguous(t, e)
         \/ HandlerStep(t)

SubsSpec == SubsInit /\ [][SubsNext]_subscriptions

-----------------------------------------------------------------------------
(* The entitlement a row gives: _ACTIVE_SUB_STATUSES *)

Entitling == {"active", "cancel_at_period_end", "past_due"}

-----------------------------------------------------------------------------
(* Properties *)

\* A user never has two active rows, whichever of create and renew race.
OneActivePerUser ==
    \A q, r \in Rows : sub[q].status = "active" /\ sub[r].status = "active" => q = r

\* No row grants a period beyond the last one Toss has billed.
NoUnbilledPeriod == \A r \in Rows : sub[r].end <= billedTo

\* A task that writes a row it read before the row's last change.
Stale(t, r) == task[t] # NoTask /\ task[t].row = r /\ task[t].snap # sub[r]

\* A cancelled row leaves 'cancel_at_period_end' again only by the hand of a
\* webhook handler that had read it before it was cancelled.
CancelUndoneOnlyByStaleRead ==
    [][\A r \in Rows :
         sub[r].status = "cancel_at_period_end"
         /\ sub'[r].status # "cancel_at_period_end"
             => \E t \in Tasks : Stale(t, r) /\ task'[t] = NoTask]_subscriptions

\* A period end moves back only by the hand of a handler that had read the
\* row before a later period was written.
PeriodLostOnlyToStaleRead ==
    [][\A r \in Rows : sub'[r].end < sub[r].end
             => \E t \in Tasks : Stale(t, r) /\ task'[t] = NoTask]_subscriptions

\* Handlers that race, fail or hear of things late only ever do to a row what
\* SubscriptionPromise allows: none is active beside another, and none becomes
\* active or reaches further but with a period that has been billed.
Promise == INSTANCE SubscriptionPromise WITH
               plan <- [r \in Rows |-> [status |-> sub[r].status, end |-> sub[r].end]]

PromiseKept == Promise!Spec

\* Neither a cancellation nor a failed billing nor an event that comes late takes
\* away the entitlement a row gives.
AccessKept ==
    [][\A r \in Rows : sub[r].status \in Entitling => sub'[r].status \in Entitling]_subscriptions
=============================================================================
