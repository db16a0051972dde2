------------------------------ MODULE ShareLink ------------------------------
(***************************************************************************)
(* What a share link promises to whoever opens it, with no transaction,    *)
(* queue or worker in sight: once it leads to a card it goes on leading to *)
(* that card and to no other, the card leaves "pending" once and for all,  *)
(* and it says "baked", and names an image, only when the image is there.  *)
(* ShareCards implements it.                                               *)
(***************************************************************************)
CONSTANTS Slugs, Cards

VARIABLES shown,        \* what the link with a slug shows: nothing, or one card
          stored        \* cards whose image is in the store

vars == <<shown, stored>>

Outcomes == {"baked", "failed"}

Init == /\ shown = [s \in Slugs |-> {}]
        /\ stored = {}

\* A link begins to lead to a card that no link leads to.
Publish(s, c) ==
    /\ shown[s] = {}
    /\ \A t \in Slugs : \A a \in shown[t] : a.card # c
    /\ shown' = [shown EXCEPT ![s] =
                    {[card |-> c, og_status |-> "pending", og_r2_key |-> FALSE]}]
    /\ UNCHANGED stored

\* The image of a card that can be seen is stored.
Store(s) ==
    \E a \in shown[s] : stored' = stored \cup {a.card} /\ UNCHANGED shown

\* The card gets an outcome, or another one; an image once named stays named.
Settle(s, outcome) ==
    \E a \in shown[s] :
        /\ outcome = "baked" => a.card \in stored
        /\ shown' = [shown EXCEPT ![s] =
                        {[card |-> a.card, og_status |-> outcome,
                          og_r2_key |-> (a.og_r2_key \/ outcome = "baked")]}]
        /\ UNCHANGED stored

Next == \E s \in Slugs : \/ \E c \in Cards : Publish(s, c)
                         \/ Store(s)
                         \/ \E outcome \in Outcomes : Settle(s, outcome)

Spec == Init /\ [][Next]_vars
=============================================================================
