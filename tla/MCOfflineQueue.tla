--------------------------- MODULE MCOfflineQueue ---------------------------
(* OfflineQueue on a small instance.  A second call of handleStartJob comes*)
(* after one that failed or was killed, and then the table of events stays *)
(* empty.                                                                  *)
EXTENDS OfflineQueue

CONSTANTS s1, s2

SecondAfterFailure ==
    start[s2] # "none" => start[s1] = "failed" /\ \A i \in Events : row[i] = NoRow
=============================================================================
