---------------------------- MODULE JobCharging ----------------------------
(***************************************************************************)
(* What the billing of one company promises, whatever happens to its       *)
(* reservations: a job adds to the usage of the period at most once, and   *)
(* all at once; credits lower the usage, never below zero; a reset clears  *)
(* it.  Nothing else touches it.                                           *)
(***************************************************************************)
EXTENDS Integers

CONSTANTS
    Jobs,       \* job ids
    Amounts     \* what a job or a credit may amount to

VARIABLES
    used,       \* usage of the current period
    charged     \* jobs that were charged, ever

vars == <<used, charged>>

Init == used = 0 /\ charged = {}

Charge(j, amount) ==
    /\ j \notin charged
    /\ charged' = charged \cup {j}
    /\ used' = used + amount

Credit(amount) ==
    /\ used' = IF amount > used THEN 0 ELSE used - amount
    /\ UNCHANGED charged

Reset == used' = 0 /\ UNCHANGED charged

Next ==
    \/ \E j \in Jobs, amount \in Amounts : Charge(j, amount)
    \/ \E amount \in Amounts : Credit(amount)
    \/ Reset

Spec == Init /\ [][Next]_vars
=============================================================================
