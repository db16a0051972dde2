-------------------------- MODULE SubscriptionPromise --------------------------
(***************************************************************************)
(* What the subscriptions rows of one user promise to whoever asks them    *)
(* for an entitlement, with no handler, read or delivery in sight: one     *)
(* plan is active at most, a plan becomes active, or reaches further, only *)
(* with a period the provider has billed, and everything else only marks   *)
(* it as cancelled or past due.  Subscriptions implements it.              *)
(***************************************************************************)
EXTENDS Naturals

CONSTANT Rows

VARIABLES plan,         \* what each row says: its status and its period's end
          billedTo      \* end of the last period the provider has billed

vars == <<plan, billedTo>>

Unsubscribed == [status |-> "none", end |-> 0]

Init == /\ plan = [r \in Rows |-> Unsubscribed]
        /\ billedTo = 0

\* The provider bills a further period.
Bill == /\ billedTo' > billedTo
        /\ UNCHANGED plan

NoOtherActive(r) == \A q \in Rows \ {r} : plan[q].status # "active"

\* The user subscribes, and is billed for the first period.
Subscribe(r) == /\ plan[r].status = "none"
                /\ NoOtherActive(r)
                /\ billedTo' >= billedTo
                /\ \E e \in 0 .. billedTo' :
                       /\ billedTo' \in {billedTo, e}
                       /\ plan' = [plan EXCEPT ![r] = [status |-> "active", end |-> e]]

\* A plan gets a period that has been billed, and may become active with it.
Renew(r) == /\ plan[r].status # "none"
            /\ \E e \in 0 .. billedTo :
                 \/ /\ NoOtherActive(r)
                    /\ plan' = [plan EXCEPT ![r] = [status |-> "active", end |-> e]]
                 \/ plan' = [plan EXCEPT ![r].end = e]
            /\ UNCHANGED billedTo

\* A plan is marked; the period that was paid for stays.
Mark(r) == /\ plan[r].status # "none"
           /\ \E s \in {"cancel_at_period_end", "past_due"} :
                  plan' = [plan EXCEPT ![r].status = s]
           /\ UNCHANGED billedTo

Next == \/ Bill
        \/ \E r \in Rows : Subscribe(r) \/ Renew(r) \/ Mark(r)

Spec == Init /\ [][Next]_vars
=============================================================================
