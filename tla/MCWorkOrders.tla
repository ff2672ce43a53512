--------------------------- MODULE MCWorkOrders ---------------------------
EXTENDS WorkOrders, TLC

(* No request touches two of these: the job (with its customers and        *)
(* quotes), the estimate and the price settings, except that the settings  *)
(* must exist for an estimate.  Instances in which one of them is used     *)
(* suffice.                                                                *)
NoSettings == brain = NoBrain /\ \A r \in Requests : ~ Doing(r, "brain")

OneDesk ==
    \/ NoSettings /\ (job.at = "none" \/ (est.at = "none" /\ customers # {}))
    \/ job.at = "none" /\ est.at = "none" /\ customers = Customers

(* Requests are alike, and so are customers.                               *)
Alike == Permutations(Requests) \cup Permutations(Customers)
=============================================================================
