---------------------------- MODULE StateMirror -----------------------------
(***************************************************************************)
(* What the aggregation promises about the rows of one resource type of    *)
(* one cluster, with no queue, no reflector and no crashes in sight.       *)
(*                                                                         *)
(* The rows follow the cluster asynchronously.  A row never shows what the *)
(* cluster did not hold, and is never written from a state of the cluster  *)
(* older than horizon.  Once a row follows the cluster it never goes back  *)
(* to an older version.  Only a restart may make rows fall behind, and     *)
(* only if the first list after it may be stale: until a row is written    *)
(* again it may then be ahead of what the daemon sees.                     *)
(***************************************************************************)
EXTENDS ClusterAPI

CONSTANTS Namespaces, NamespaceOf, Configs, StaleLists

VARIABLES
    rows, included,
    horizon,      \* no row is written from an older version
    following     \* the keys whose rows go forward only

mirrorVars == <<hist, rows, included, horizon, following>>

Init ==
    /\ ClusterInit
    /\ rows = [k \in Keys |-> Absent]
    /\ included \in Configs
    /\ horizon = 0
    /\ following = IF StaleLists THEN {} ELSE Keys

ClusterStep == ApiNext /\ UNCHANGED <<rows, included, horizon, following>>

(* The row of k is brought to the state of version n, and follows.         *)
Observe(k, n) ==
    /\ n >= horizon
    /\ k \in following => n >= rows[k]
    /\ rows' = [rows EXCEPT ![k] =
                   IF NamespaceOf[k] \in included THEN hist[n][k] ELSE Absent]
    /\ following' = following \union {k}
    /\ UNCHANGED <<hist, included, horizon>>

Reconfigure ==
    /\ included' \in Configs
    /\ UNCHANGED <<hist, rows, horizon, following>>

(* The cluster has been seen to be where some rows are, or ahead of them.  *)
Follow ==
    /\ following \subseteq following' /\ following' \subseteq Keys
    /\ UNCHANGED <<hist, rows, included, horizon>>

Restart ==
    /\ following' = IF StaleLists THEN {} ELSE following
    /\ UNCHANGED <<hist, rows, included, horizon>>

(* The first list after a restart. *)
Advance ==
    /\ \/ horizon' \in horizon .. Len(hist)
       \/ StaleLists /\ following = {} /\ horizon' \in 1 .. Len(hist)
    /\ following \subseteq following' /\ following' \subseteq Keys
    /\ UNCHANGED <<hist, rows, included>>

Next ==
    \/ ClusterStep
    \/ \E k \in Keys, n \in 1 .. Len(hist) : Observe(k, n)
    \/ Reconfigure \/ Restart \/ Advance \/ Follow

Spec == Init /\ [][Next]_mirrorVars
=============================================================================
