----------------------------- MODULE GraphWalk ------------------------------
(***************************************************************************)
(* One FetchResourceGraph call: the breadth-first walk of                  *)
(* pkg/datastore/postgres/fetcher.go over the resources table, up and down *)
(* the ownerReferences.  Every query of the walk is a statement of its     *)
(* own, so the sync worker may change the table between any two of them.   *)
(***************************************************************************)
EXTENDS ResourceRecords, Sequences, SequencesExt

CONSTANTS
    Root,          \* the ResourceInfo to start from
    Callbacks,     \* of a callback, the set of answers it may give
    MaxChanges     \* bound: how often the table may change during a call

WalkActions ==
    {"Include", "Exclude", "IncludeAndSkipChildren", "ExcludeAndSkipChildren", "Stop"}

ASSUME WalkAssumption ==
    /\ \A decisions \in Callbacks : decisions \subseteq WalkActions \union {"error"}
    /\ MaxChanges \in Nat

VARIABLES
    table,       \* the rows of the table
    callback,    \* the answers this call's callback may give
    pc,          \* query the "root", "visit" a layer, "fetch" the next,
                 \* "done", "stopped", "failed"
    layer, next, \* the rows to visit, and those fetched for the next layer
    visited,     \* the keys visited
    collection,  \* the UniqueResourceCollection
    parents,     \* keys of owners to fetch, one query per cluster
    children,    \* keys whose dependents are to be fetched, one query each
    changes,
    expanded,    \* history: the rows whose relatives were looked up
    ever, always \* history: the rows seen in the table at some time, all the time

tableVars == <<table, changes, ever, always>>
walkVars  == <<callback, pc, layer, next, visited, collection, parents, children, expanded>>
vars      == <<tableVars, walkVars>>

(* UniqueResourceCollection.Add. *)
Add(items, r) ==
    IF \E s \in ToSet(items) : Key(s) = Key(r) THEN items ELSE Append(items, r)

Init ==
    /\ table \in Tables
    /\ callback \in Callbacks
    /\ pc = "root"
    /\ layer = {} /\ next = {} /\ visited = {} /\ collection = <<>>
    /\ parents = {} /\ children = {} /\ expanded = {}
    /\ changes = 0
    /\ ever = table
    /\ always = table

(***************************************************************************)
(* The sync worker.                                                        *)
(***************************************************************************)

SetTable(T) ==
    /\ changes < MaxChanges
    /\ pc \in {"visit", "fetch"}
    /\ table' = T
    /\ changes' = changes + 1
    /\ ever' = ever \union T
    /\ always' = always \intersect T
    /\ UNCHANGED walkVars

UpsertResource(r) == SetTable(Upserted(table, r))

DeleteResource(r) == r \in table /\ SetTable(Deleted(table, r))

(***************************************************************************)
(* The walk.                                                               *)
(***************************************************************************)

(* The rows the root query finds where they are in the table. *)
Roots == {r \in Rows : MatchesRoot(Root, r)}

(* The root query; no row, and the answer is empty. *)
FetchRoots ==
    /\ pc = "root"
    /\ layer' = table \intersect Roots
    /\ pc' = IF table \intersect Roots = {} THEN "done" ELSE "visit"
    /\ UNCHANGED <<tableVars, callback, next, visited, collection, parents, children,
                   expanded>>

(* Mutant: only dependents are looked up. *)
ExpandDown(r) ==
    /\ children' = children \union {Key(r)}
    /\ expanded' = expanded \union {r}
    /\ UNCHANGED parents

(* Remember the lookups for r's owners and dependents.                     *)
Expand(r) ==
    /\ expanded' = expanded \union {r}
    /\ parents' = parents \union
           ({<<r.cluster, u>> : u \in r.owners} \ (visited \union {Key(r)}))
    /\ children' = children \union {Key(r)}

(* Mutant: a visited row is not remembered. *)
ForgetVisited(r) == visited

MarkVisited(r) == visited \union {Key(r)}

(* The callback decides about r. *)
Decide(r, action) ==
    /\ pc' = CASE action = "Stop"  -> "stopped"
               [] action = "error" -> "failed"
               [] OTHER            -> pc
    /\ collection' = IF action \in {"Include", "IncludeAndSkipChildren"}
                     THEN Add(collection, r) ELSE collection
    /\ IF action \in {"Include", "Exclude"}
       THEN Expand(r)
       ELSE UNCHANGED <<parents, children, expanded>>

(* The next row of the layer: skipped if its key was visited, else the     *)
(* callback decides.                                                       *)
Visit(r) ==
    /\ pc = "visit" /\ r \in layer
    /\ layer' = layer \ {r}
    /\ UNCHANGED <<tableVars, callback, next>>
    /\ IF Key(r) \in visited
       THEN UNCHANGED <<pc, visited, collection, parents, children, expanded>>
       ELSE visited' = MarkVisited(r) /\ \E action \in callback : Decide(r, action)

LayerVisited ==
    /\ pc = "visit" /\ layer = {}
    /\ pc' = "fetch"
    /\ UNCHANGED <<tableVars, callback, layer, next, visited, collection, parents,
                   children, expanded>>

(* The rows of one cluster whose UID is among those looked up. *)
FetchParents(cluster) ==
    /\ pc = "fetch"
    /\ \E k \in parents : k[1] = cluster
    /\ next' = next \union {r \in table : r.cluster = cluster /\ Key(r) \in parents}
    /\ parents' = {k \in parents : k[1] # cluster}
    /\ UNCHANGED <<tableVars, callback, pc, layer, visited, collection, children, expanded>>

(* Mutant: the query for dependents is not restricted to the cluster. *)
DependentsAnywhere(k) == {r \in table : k[2] \in r.owners}

Dependents(k) == {r \in table : r.cluster = k[1] /\ k[2] \in r.owners}

FetchChildren(k) ==
    /\ pc = "fetch" /\ parents = {} /\ k \in children
    /\ next' = next \union Dependents(k)
    /\ children' = children \ {k}
    /\ UNCHANGED <<tableVars, callback, pc, layer, visited, collection, parents, expanded>>

(* A query returned an error: so does the call. *)
QueryFails ==
    /\ pc = "root" \/ (pc = "fetch" /\ parents \union children # {})
    /\ pc' = "failed"
    /\ UNCHANGED <<tableVars, callback, layer, next, visited, collection, parents,
                   children, expanded>>

NextLayer ==
    /\ pc = "fetch" /\ parents = {} /\ children = {}
    /\ layer' = next
    /\ next' = {}
    /\ pc' = IF next = {} THEN "done" ELSE "visit"
    /\ UNCHANGED <<tableVars, callback, visited, collection, parents, children, expanded>>

Worker == \E r \in Rows : UpsertResource(r) \/ DeleteResource(r)

Walk ==
    \/ FetchRoots
    \/ \E r \in Rows : Visit(r)
    \/ LayerVisited
    \/ \E c \in Clusters : FetchParents(c)
    \/ \E k \in children : FetchChildren(k)
    \/ QueryFails
    \/ NextLayer

Next == Worker \/ Walk

Spec == Init /\ [][Next]_vars

(***************************************************************************)
(* Properties.                                                             *)
(***************************************************************************)

Keys == Clusters \X UNION {{r.uid} \union r.owners : r \in Rows}

TypeOK ==
    /\ table \in Tables
    /\ callback \in Callbacks
    /\ pc \in {"root", "visit", "fetch", "done", "stopped", "failed"}
    /\ layer \subseteq Rows /\ next \subseteq Rows
    /\ visited \subseteq Keys /\ parents \subseteq Keys /\ children \subseteq Keys
    /\ collection \in Seq(Rows)
    /\ changes \in 0 .. MaxChanges
    /\ expanded \subseteq Rows /\ ever \subseteq Rows /\ always \subseteq Rows

(* s is an owner or a dependent of r. *)
Related(r, s) ==
    r.cluster = s.cluster /\ (s.uid \in r.owners \/ r.uid \in s.owners)

Relatives == [r \in Rows |-> {s \in Rows : Related(r, s)}]

(* C holds the roots of S and every relative in S of its members. *)
ClosedIn(S, C) ==
    /\ S \intersect Roots \subseteq C
    /\ \A r \in C : S \intersect Relatives[r] \subseteq C

(* The rows of S that paths of owner references lead to from the roots:    *)
(* the smallest closed set.                                                *)
Reachable(S) ==
    LET closed == {C \in SUBSET S : ClosedIn(S, C)} IN {r \in S : \A C \in closed : r \in C}

(* The answer holds nothing but what owner references, within one cluster, *)
(* connect to a root, whatever changed while the walk ran.                 *)
Sound == ToSet(collection) \subseteq Reachable(ever)

(* A finished walk missed no relative of a row it expanded, if that        *)
(* relative was in the table all along (fetcher.go:144-145: "fetches a     *)
(* graph of related resources starting from rootResourceInfo").            *)
Complete ==
    pc = "done" =>
        /\ \A r \in always \intersect Roots : Key(r) \in visited
        /\ \A r \in expanded, s \in always : Related(r, s) => Key(s) \in visited

(* With a table that does not change, a walk whose callback includes and   *)
(* expands every row answers the connected resources, each of them once -  *)
(* if rows of the same UID, which the walk visits only once, name the same *)
(* owners (fetcher.go:203-297).                                            *)
Exact ==
    (/\ pc = "done" /\ changes = 0
     /\ visited = {Key(r) : r \in expanded \intersect ToSet(collection)}
     /\ \A r, s \in table : Key(r) = Key(s) => r.owners = s.owners) =>
        /\ {Key(r) : r \in ToSet(collection)} = {Key(r) : r \in Reachable(table)}
        /\ \A i, j \in DOMAIN collection :
              Key(collection[i]) = Key(collection[j]) => i = j

Phase(p) == CASE p = "visit" -> 2 [] p = "fetch" -> 1 [] OTHER -> 0

(* The walk gets closer to its end: a key is visited for the first time;   *)
(* or else a lookup is made, the next layer is taken, a row that was       *)
(* visited before is dropped from the layer, or the phase ends, and what   *)
(* comes before in this list is as it was.                                 *)
Advance ==
    \/ pc = "root" /\ pc' # "root"
    \/ /\ pc' # "root"
       /\ visited \subseteq visited' /\ visited' \subseteq Keys
       /\ \/ visited' # visited
          \/ /\ parents' \subseteq parents /\ children' \subseteq children
             /\ \/ <<parents, children>>' # <<parents, children>>
                \/ next' \subseteq next /\ next' # next
                \/ next' = next /\ layer' \subseteq layer /\ layer' # layer
                \/ next' = next /\ layer' = layer /\ Phase(pc') < Phase(pc)

(* Every step of the walk brings it closer to its end, and the sync worker *)
(* cannot set it back: a call is over after a number of steps that the     *)
(* keys bound, however often the table changes and however owner           *)
(* references lead back to where it came from (fetcher.go:203-297).        *)
AlwaysAdvances == [][Advance]_walkVars

(* The walk ends, though owner references lead back to where it came from. *)
Terminates == <>(pc \in {"done", "stopped", "failed"})
=============================================================================
