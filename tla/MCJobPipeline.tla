--------------------------- MODULE MCJobPipeline ---------------------------
(* JobPipeline on a small instance.  Liveness is checked, so there is no   *)
(* symmetry reduction.                                                     *)
EXTENDS JobPipeline
=============================================================================
