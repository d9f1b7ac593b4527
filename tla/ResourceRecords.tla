-------------------------- MODULE ResourceRecords ---------------------------
(***************************************************************************)
(* Rows of the resources table, and what queries compare of them.  A row   *)
(* is a record of the fields below and of owners, the UIDs in the          *)
(* ownerReferences of its manifest.  A ResourceInfo is a record of its     *)
(* non-empty fields only.                                                  *)
(***************************************************************************)
EXTENDS Naturals, FiniteSets

CONSTANT Rows      \* the rows the table may hold at one time or another

ASSUME RowsAssumption == IsFiniteSet(Rows) /\ \A r \in Rows : IsFiniteSet(r.owners)

PrimaryKey(r) == <<r.cluster, r.group, r.version, r.kind, r.namespace, r.name>>

(* GetResourceKey. *)
Key(r) == <<r.cluster, r.uid>>

Several(S) == \E r, s \in S : r # s

Clusters == {r.cluster : r \in Rows}

Tables == {T \in SUBSET Rows : \A r, s \in T : PrimaryKey(r) = PrimaryKey(s) => r = s}

(* Mutant: the statement inserts and never updates. *)
InsertedOnly(T, r) == T \union {r}

(* The table after an upsert of r, and after a deletion of what r names. *)
Upserted(T, r) == {s \in T : PrimaryKey(s) # PrimaryKey(r)} \union {r}
Deleted(T, r)  == {s \in T : PrimaryKey(s) # PrimaryKey(r)}

(* A UniqueResourceCollection of S keeps one row of each key. *)
Unique(S) ==
    {T \in SUBSET S : /\ {Key(r) : r \in T} = {Key(r) : r \in S}
                      /\ \A r, s \in T : Key(r) = Key(s) => r = s}

(* ListResources: every non-empty field of the filter is compared. *)
Matches(filter, r) == \A field \in DOMAIN filter : r[field] = filter[field]

FieldOf(info, field) == IF field \in DOMAIN info THEN info[field] ELSE ""

(* The root query of the graph walk: kind and name are compared even if    *)
(* they are empty, and the UID never is.                                   *)
MatchesRoot(info, r) ==
    /\ Matches([field \in DOMAIN info \ {"uid"} |-> info[field]], r)
    /\ r.kind = FieldOf(info, "kind")
    /\ r.name = FieldOf(info, "name")
=============================================================================
