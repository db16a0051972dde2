--------------------------- MODULE PaymentPromise ---------------------------
(***************************************************************************)
(* What the payment tables promise to the rest of the service, with no     *)
(* handler, queue or message in sight: money is charged by the provider,   *)
(* a row says "paid" only about an order that was charged, and a row says  *)
(* "refunded" only about an order the provider has returned the money of.  *)
(* PaymentLedger implements it.                                            *)
(***************************************************************************)
CONSTANT Orders

VARIABLES charged,      \* orders whose money the provider has taken
          returned,     \* orders whose refund the provider has accepted
          status        \* payments.status, "none" while there is no row

vars == <<charged, returned, status>>

Statuses == {"none", "pending", "paid", "failed", "refunded"}

Init == /\ charged = {}
        /\ returned = {}
        /\ status = [o \in Orders |-> "none"]

\* The provider takes the money of some order, or returns it.
Charge(o) == /\ status[o] # "none"
             /\ charged' = charged \cup {o}
             /\ UNCHANGED <<returned, status>>

Return(o) == /\ o \in charged
             /\ returned' = returned \cup {o}
             /\ UNCHANGED <<charged, status>>

\* The service writes down what it believes about an order.
Open(o) == /\ status[o] = "none"
           /\ status' = [status EXCEPT ![o] = "pending"]
           /\ UNCHANGED <<charged, returned>>

Record(o, s) == /\ status[o] # "none"
                /\ \/ s = "paid" /\ o \in charged
                   \/ s = "failed"
                   \/ s = "refunded" /\ o \in returned
                /\ status' = [status EXCEPT ![o] = s]
                /\ UNCHANGED <<charged, returned>>

Next == \E o \in Orders : \/ Charge(o) \/ Return(o) \/ Open(o)
                          \/ \E s \in Statuses : Record(o, s)

Spec == Init /\ [][Next]_vars
=============================================================================
