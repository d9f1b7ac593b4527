----------------------------- MODULE ClusterAPI -----------------------------
(***************************************************************************)
(* One remote cluster as a ClusterSyncer sees it, for one resource type    *)
(* (external: the Kubernetes API server, modelled from the List and Watch  *)
(* calls of pkg/sync/syncer.go).                                           *)
(*                                                                         *)
(* hist[n] is the content of the cluster at resource version n: it maps    *)
(* the key "namespace/name" of an object to the resource version at which  *)
(* the object was last modified, or to Absent.  A List returns one         *)
(* hist[n]; the Watch event for version n+1 is the one key in which        *)
(* hist[n+1] differs from hist[n].  A manifest is represented by the       *)
(* resource version that identifies it.                                    *)
(***************************************************************************)
EXTENDS Naturals, Sequences, SequencesExt, ResourceKeys

CONSTANT
    MaxRV    \* bound: how far the cluster's resource version may grow

ASSUME ClusterAssumption == MaxRV \in Nat

VARIABLE hist

Absent == 0

ClusterInit == hist = <<[k \in Keys |-> Absent]>>

NextRV == Len(hist) + 1

(* An object is created, or modified, or deleted and made anew in between. *)
ApiPut(k) ==
    /\ NextRV <= MaxRV
    /\ hist' = Append(hist, [Last(hist) EXCEPT ![k] = NextRV])

ApiDelete(k) ==
    /\ NextRV <= MaxRV
    /\ Last(hist)[k] # Absent
    /\ hist' = Append(hist, [Last(hist) EXCEPT ![k] = Absent])

ApiNext == \E k \in Keys : ApiPut(k) \/ ApiDelete(k)
=============================================================================
