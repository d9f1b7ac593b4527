--------------------------- MODULE MCGraphCommand ---------------------------
(***************************************************************************)
(* Instances of GraphCommand: a deployment of two clusters; a pod that it  *)
(* owns together with a replica set, whose own owner is gone, which is     *)
(* stored in two versions, and which may get the pod for an owner; a pod   *)
(* of the other cluster that shares the UID and names a lost owner.        *)
(***************************************************************************)
EXTENDS GraphCommand

Row(kind, version, name, cluster, uid, owners) ==
    [cluster |-> cluster, group |-> "", version |-> version, kind |-> kind,
     namespace |-> "default", name |-> name, uid |-> uid, owners |-> owners]

deployment == Row("Deployment", "v1", "web", "us1", "u1", {})
replicaSet == Row("ReplicaSet", "v1", "rs",  "us1", "u2", {"u0"})
loopedRS   == Row("ReplicaSet", "v1", "rs",  "us1", "u2", {"u3"})
betaRS     == Row("ReplicaSet", "v1beta1", "rs", "us1", "u2", {"u0"})
pod        == Row("Pod", "v1", "p", "us1", "u3", {"u1", "u2"})
otherWeb   == Row("Deployment", "v1", "web", "us2", "u9", {})
clonePod   == Row("Pod", "v1", "p", "us2", "u3", {"u1", "u9"})

RowsAll == {deployment, replicaSet, loopedRS, betaRS, pod, otherWeb, clonePod}

RootWeb == [kind |-> "Deployment", name |-> "web", namespace |-> "default", uid |-> "u1"]

CallbacksAll ==
    {ServerCallback,
     {"Include", "ExcludeAndSkipChildren", "Stop"},
     {"Exclude", "IncludeAndSkipChildren", "error"}}
=============================================================================
