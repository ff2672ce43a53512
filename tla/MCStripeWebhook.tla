-------------------------- MODULE MCStripeWebhook --------------------------
(* StripeWebhook on small instances: requests are interchangeable.         *)
EXTENDS StripeWebhook, TLC

CONSTANTS subA, subB

(* A checkout, its cancellation, a checkout of a second subscription, and  *)
(* a payment of the first one that fails.                                  *)
PlanKinds ==
    [buyA |-> "checkout", cancelA |-> "deleted", buyB |-> "checkout", failA |-> "failed"]

PlanEvents == DOMAIN PlanKinds

PlanSubs == [e \in PlanEvents |-> IF e = "buyB" THEN subB ELSE subA]

Symmetry == Permutations(Deliveries)
=============================================================================
