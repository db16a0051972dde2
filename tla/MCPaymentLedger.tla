-------------------------- MODULE MCPaymentLedger --------------------------
(* Small instances of PaymentLedger for TLC. *)
EXTENDS PaymentLedger, TLC

Symmetry == Permutations(Orders) \cup Permutations(Keys) \cup Permutations(Handlers)
=============================================================================
