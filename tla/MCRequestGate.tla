--------------------------- MODULE MCRequestGate ---------------------------
(* RequestGate on small instances.                                         *)
EXTENDS RequestGate
=============================================================================
