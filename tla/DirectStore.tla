---------------------------- MODULE DirectStore -----------------------------
(***************************************************************************)
(* pkg/sync/store.go: the cache.Store that keeps no objects, only the keys *)
(* it wrote, and writes through to the datastore.  rows is the part of the *)
(* resources table that belongs to this cluster, group, version and kind;  *)
(* it outlives the process.  keys is the in-memory key map.                *)
(*                                                                         *)
(* failed is a history variable: the keys whose latest datastore call      *)
(* since the process started returned an error, which the caller only      *)
(* logs.                                                                   *)
(***************************************************************************)
EXTENDS Naturals, ResourceKeys

CONSTANT
    ErrorOutcomes   \* what a datastore error may mean: "lost", "applied"

ASSUME StoreAssumption == ErrorOutcomes \subseteq {"lost", "applied"}

VARIABLES rows, keys, failed

storeVars == <<rows, keys, failed>>

NoRow == 0

StoreInit ==
    /\ rows = [k \in Keys |-> NoRow]
    /\ keys = {}
    /\ failed = {}

(* Mutant: the key map starts empty. *)
NoKeysLoaded == keys' = {} /\ failed' = {} /\ UNCHANGED rows

(* InitializeKeys: every row of this type becomes a known key. *)
InitializeKeys ==
    /\ keys' = {k \in Keys : rows[k] # NoRow}
    /\ failed' = {}
    /\ UNCHANGED rows

(* Mutant: the row is written and the key map is left as it was. *)
UpdateRowOnly(k, rv) ==
    /\ rows' = [rows EXCEPT ![k] = rv]
    /\ failed' = failed \ {k}
    /\ UNCHANGED keys

(* Add and Update: upsert the row, then remember the key. *)
Update(k, rv) ==
    /\ rows' = [rows EXCEPT ![k] = rv]
    /\ keys' = keys \union {k}
    /\ failed' = failed \ {k}

(* The upsert returned an error: the key is not remembered.  "applied" is  *)
(* an error reported after the statement took effect.                      *)
UpdateError(k, rv) ==
    /\ \/ "lost" \in ErrorOutcomes /\ UNCHANGED rows
       \/ "applied" \in ErrorOutcomes /\ rows' = [rows EXCEPT ![k] = rv]
    /\ failed' = failed \union {k}
    /\ UNCHANGED keys

(* Delete: remove the row, then forget the key.  MetaNamespaceKeyFunc      *)
(* fails on a DeletedFinalStateUnknown, so after a tombstone the key stays *)
(* in the map.                                                             *)
Delete(k, tombstone) ==
    /\ rows' = [rows EXCEPT ![k] = NoRow]
    /\ keys' = IF tombstone THEN keys ELSE keys \ {k}
    /\ failed' = failed \ {k}

(* The delete returned an error: the key stays, so a later Replace finds   *)
(* the object missing again.                                               *)
DeleteError(k) ==
    /\ \/ "lost" \in ErrorOutcomes /\ UNCHANGED rows
       \/ "applied" \in ErrorOutcomes /\ rows' = [rows EXCEPT ![k] = NoRow]
    /\ failed' = failed \union {k}
    /\ UNCHANGED keys

(* A crash or shutdown loses the map and keeps the table. *)
StoreReset == keys' = {} /\ UNCHANGED <<rows, failed>>
=============================================================================
