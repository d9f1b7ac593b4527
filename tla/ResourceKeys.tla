---------------------------- MODULE ResourceKeys ----------------------------
(***************************************************************************)
(* The keys "namespace/name" under which client-go's cache package and     *)
(* pkg/sync/store.go name the objects of one resource type.                *)
(***************************************************************************)
EXTENDS FiniteSets

CONSTANT Keys

ASSUME KeysAssumption == IsFiniteSet(Keys)
=============================================================================
