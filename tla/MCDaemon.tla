------------------------------ MODULE MCDaemon ------------------------------
(***************************************************************************)
(* Instances of Daemon: a cluster with two resource types and one with     *)
(* one.                                                                    *)
(***************************************************************************)
EXTENDS Daemon, TLC

ClustersTwo  == {"us1", "eu1"}
ResourcesTwo == "us1" :> {"pods", "deployments"} @@ "eu1" :> {"pods"}
ClustersOne  == {"us1"}
ResourcesOne == "us1" :> {"pods", "deployments"}
=============================================================================
