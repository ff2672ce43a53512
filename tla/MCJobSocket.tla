---------------------------- MODULE MCJobSocket ----------------------------
EXTENDS JobSocket

CONSTANTS c1, c2

(* While a member of this process is left behind there is no room, so that *)
(* its other connection gets no further than the SCARD.                    *)
Refused == {"idle", "wait", "auth", "count"}

(* What other processes do concerns the shared set alone.  Two scenes      *)
(* suffice: two connections in this process while the others are quiet and *)
(* have left nothing behind, or one beside the others that does not poll,  *)
(* without an outage or a change of the job or the user.  The actions that *)
(* are fair never lead out of a scene.                                     *)
OneScene ==
    \/ /\ \A p \in Elsewhere : other[p] = Nobody
       /\ Members <= MaxGlobal
       /\ stray # 0 => \A c \in Conns : conn[c].pc \in Refused
    \/ /\ At(c2, "idle") /\ conn[c1].pc # "poll"
       /\ job = "processing" /\ traces = {} /\ cached = None /\ events = 0
       /\ user = [active |-> TRUE, version |-> 0]
=============================================================================
