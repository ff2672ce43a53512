------------------------- MODULE MCImportPipeline -------------------------
(* Two customers and a dated visit at Jobber, one customer at Stripe.      *)
EXTENDS ImportPipeline

MCRemote == [p \in Providers, y \in Types |->
    CASE p = "jobber" /\ y = "customers" -> {"c1", "c2"}
      [] p = "jobber" /\ y = "jobs"      -> {"v1"}
      [] p = "stripe" /\ y = "customers" -> {"c1"}
      [] OTHER -> {}]

MCTyped == {<<"jobber", "jobs", "v1">>}

MCRequests ==
    {[provider |-> "jobber", types |-> <<"customers">>, dry |-> d, conn |-> TRUE] : d \in BOOLEAN}
    \cup {[provider |-> "jobber", types |-> <<"customers", "jobs">>, dry |-> FALSE, conn |-> TRUE],
          [provider |-> "stripe", types |-> <<"customers">>, dry |-> FALSE, conn |-> FALSE]}
=============================================================================
