-------------------------- MODULE MCBillingLedger --------------------------
(* BillingLedger on small instances: sessions are interchangeable.         *)
EXTENDS BillingLedger, TLC

Symmetry == Permutations(Sessions)
=============================================================================
