----------------------------- MODULE MCGVRSync ------------------------------
(***************************************************************************)
(* Instances of GVRSync for TLC: one object in each of two namespaces, the *)
(* second of which a restart may exclude or include.                       *)
(***************************************************************************)
EXTENDS GVRSync, TLC

KeysTwo        == {"default/web", "kube/dns"}
NamespacesTwo  == {"default", "kube"}
NamespaceOfTwo == "default/web" :> "default" @@ "kube/dns" :> "kube"
ConfigsTwo     == {{"default", "kube"}, {"default"}}

Faults(crash, db, relist) == "crash" :> crash @@ "db" :> db @@ "relist" :> relist

OneOfEach    == Faults(1, 1, 1)
CrashRelist  == Faults(1, 0, 1)
TwoStarts    == Faults(1, 1, 0)
=============================================================================
