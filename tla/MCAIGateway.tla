---------------------------- MODULE MCAIGateway ----------------------------
(* AIGateway on a small instance: a job with a recording and one with      *)
(* photos, whose text steps meet at the limiter of the language model.  The*)
(* workers are interchangeable.                                            *)
EXTENDS AIGateway, TLC

CONSTANTS j1, j2, w1, w2

MCMedia == (j1 :> {"audio"}) @@ (j2 :> {"images"})
MCMax == [l \in Limiters |-> 1]
MCSymmetry == Permutations({w1, w2})
=============================================================================
