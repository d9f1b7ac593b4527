-------------------------- MODULE GraphWalkProofs ---------------------------
(***************************************************************************)
(* Proofs about the walk of the graph fetcher, for any rows, root,         *)
(* callbacks and number of changes of the table during the call.           *)
(***************************************************************************)
EXTENDS GraphWalk, FiniteSetTheorems, TLAPS

(***************************************************************************)
(* The inductive invariant.                                                *)
(***************************************************************************)

(* What is empty in which phase of the walk.                               *)
PhaseShape ==
    /\ pc = "root" => next = {} /\ parents = {} /\ children = {} /\ expanded = {}
    /\ pc \in {"fetch", "done"} => layer = {}
    /\ pc = "done" => next = {} /\ parents = {} /\ children = {}

(* The histories frame the table, and the walk holds only rows it saw.     *)
History ==
    /\ always \subseteq table /\ table \subseteq ever
    /\ changes = 0 => ever = table /\ always = table
    /\ expanded \subseteq ever /\ ToSet(collection) \subseteq ever

(* What the walk holds lies in C, and what it is about to look up belongs  *)
(* to relatives of rows in C.                                              *)
Inside(C) ==
    /\ layer \subseteq C /\ next \subseteq C /\ expanded \subseteq C
    /\ ToSet(collection) \subseteq C
    /\ \A k \in parents : \E r \in C : r.cluster = k[1] /\ k[2] \in r.owners
    /\ \A k \in children : \E r \in C : Key(r) = k

(* Nothing leads the walk out of a set that is closed.                     *)
OnPaths == \A C \in SUBSET Rows : ClosedIn(ever, C) => Inside(C)

(* A row the walk must come to has been visited, or is in a layer, or one  *)
(* of the pending lookups will find it.                                    *)
Expected(r, s) ==
    \/ Key(s) \in visited
    \/ s \in layer \/ s \in next
    \/ Key(s) \in parents
    \/ Key(r) \in children /\ r.uid \in s.owners

NothingMissed ==
    pc \in {"visit", "fetch", "done"} =>
        /\ \A r \in always \intersect Roots : Key(r) \in visited \/ r \in layer
        /\ \A r \in expanded, s \in always : Related(r, s) => Expected(r, s)

OncePerKey ==
    \A i, j \in DOMAIN collection : Key(collection[i]) = Key(collection[j]) => i = j

IInv ==
    TypeOK /\ PhaseShape /\ History /\ OnPaths /\ NothingMissed /\ OncePerKey

(***************************************************************************)
(* Lemmas about the operators.                                             *)
(***************************************************************************)

LEMMA KeysOfRows == \A r \in Rows : Key(r) \in Keys /\ {<<r.cluster, u>> : u \in r.owners} \subseteq Keys
  BY DEF Key, Keys, Clusters

LEMMA TablesKept ==
    ASSUME NEW T \in Tables, NEW r \in Rows
    PROVE  Upserted(T, r) \in Tables /\ Deleted(T, r) \in Tables
  BY DEF Tables, Upserted, Deleted

(* A set closed in more rows is closed in fewer.                           *)
LEMMA ClosedInFewer ==
    ASSUME NEW S, NEW T, S \subseteq T, NEW C, ClosedIn(T, C)
    PROVE  ClosedIn(S, C)
  BY DEF ClosedIn

LEMMA AppendToSet ==
    ASSUME NEW s \in Seq(Rows), NEW r \in Rows
    PROVE  /\ Append(s, r) \in Seq(Rows)
           /\ ToSet(Append(s, r)) = ToSet(s) \union {r}
  <1>1. DOMAIN s = 1 .. Len(s) /\ DOMAIN Append(s, r) = 1 .. Len(s) + 1
    OBVIOUS
  <1>2. \A i \in 1 .. Len(s) : Append(s, r)[i] = s[i]
    OBVIOUS
  <1>3. Append(s, r)[Len(s) + 1] = r /\ Len(s) \in Nat
    OBVIOUS
  <1>4. ToSet(Append(s, r)) \subseteq ToSet(s) \union {r}
    BY <1>1, <1>2, <1>3 DEF ToSet
  <1>5. ToSet(s) \subseteq ToSet(Append(s, r))
    BY <1>1, <1>2, <1>3 DEF ToSet
  <1>6. r \in ToSet(Append(s, r))
    BY <1>1, <1>3 DEF ToSet
  <1> QED BY <1>4, <1>5, <1>6

(* Only a row whose key is new lengthens a collection.                     *)
LEMMA AddedOnce ==
    ASSUME NEW s \in Seq(Rows), NEW r \in Rows,
           \A i, j \in DOMAIN s : Key(s[i]) = Key(s[j]) => i = j
    PROVE  /\ Add(s, r) \in Seq(Rows)
           /\ ToSet(Add(s, r)) \subseteq ToSet(s) \union {r}
           /\ \A i, j \in DOMAIN Add(s, r) : Key(Add(s, r)[i]) = Key(Add(s, r)[j]) => i = j
  <1>1. CASE \E t \in ToSet(s) : Key(t) = Key(r)
    BY <1>1 DEF Add
  <1>2. CASE \A t \in ToSet(s) : Key(t) # Key(r)
    <2>1. Add(s, r) = Append(s, r)
      BY <1>2 DEF Add
    <2>2. \A i \in 1 .. Len(s) : Key(s[i]) # Key(r)
      BY <1>2 DEF ToSet
    <2>3. \A i, j \in DOMAIN Append(s, r) :
              Key(Append(s, r)[i]) = Key(Append(s, r)[j]) => i = j
      BY <2>2
    <2> QED BY <2>1, <2>3, AppendToSet
  <1> QED BY <1>1, <1>2

(* The effect of a visit of a row whose key is new.                        *)
LEMMA VisitEffect ==
    ASSUME IInv, NEW r \in Rows, Visit(r), Key(r) \notin visited
    PROVE  /\ visited' = visited \union {Key(r)}
           /\ pc' \in {"visit", "stopped", "failed"}
           /\ collection' \in {collection, Add(collection, r)}
           /\ Expand(r) \/ UNCHANGED <<parents, children, expanded>>
  <1>1. PICK action \in callback : Decide(r, action)
    BY DEF Visit
  <1>2. pc = "visit" /\ visited' = visited \union {Key(r)}
    BY DEF Visit, MarkVisited
  <1>3. pc' \in {"visit", "stopped", "failed"}
    BY <1>1, <1>2 DEF Decide
  <1> QED BY <1>1, <1>2, <1>3 DEF Decide

(***************************************************************************)
(* The invariant holds at the start and is kept by every step.             *)
(***************************************************************************)

LEMMA InitIInv == Init => IInv
  <1> SUFFICES ASSUME Init PROVE IInv
    OBVIOUS
  <1> USE DEF Init
  <1>1. ToSet(collection) = {} /\ collection \in Seq(Rows)
    BY DEF ToSet
  <1>2. TypeOK
    BY <1>1, WalkAssumption DEF TypeOK, Tables
  <1>3. PhaseShape /\ History /\ NothingMissed /\ OncePerKey
    BY <1>1 DEF PhaseShape, History, NothingMissed, OncePerKey
  <1>4. OnPaths
    BY <1>1 DEF OnPaths, Inside
  <1> QED BY <1>2, <1>3, <1>4 DEF IInv

LEMMA WorkerStep == IInv /\ Worker => IInv'
  <1> SUFFICES ASSUME IInv, Worker PROVE IInv'
    OBVIOUS
  <1> USE DEF IInv
  <1>1. PICK T \in Tables : SetTable(T)
    BY TablesKept DEF Worker, UpsertResource, DeleteResource, TypeOK
  <1>2. T \subseteq Rows
    BY DEF Tables
  <1>3. /\ table' = T /\ changes' = changes + 1
        /\ ever' = ever \union T /\ always' = always \intersect T
        /\ pc \in {"visit", "fetch"}
        /\ UNCHANGED walkVars
    BY <1>1 DEF SetTable
  <1>4. TypeOK'
    BY <1>1, <1>2, <1>3, WalkAssumption DEF SetTable, TypeOK, walkVars
  <1>5. PhaseShape' /\ OncePerKey'
    BY <1>3 DEF PhaseShape, OncePerKey, walkVars
  <1>6. History'
    BY <1>3 DEF History, TypeOK, walkVars
  <1>7. OnPaths'
    <2> SUFFICES ASSUME NEW C \in SUBSET Rows, ClosedIn(ever', C) PROVE Inside(C)'
      BY DEF OnPaths, ClosedIn
    <2>1. ClosedIn(ever, C)
      BY <1>3, ClosedInFewer
    <2> QED BY <2>1, <1>3 DEF OnPaths, Inside, walkVars
  <1>8. NothingMissed'
    BY <1>3 DEF NothingMissed, Expected, walkVars
  <1> QED BY <1>4, <1>5, <1>6, <1>7, <1>8

LEMMA FetchRootsStep == IInv /\ FetchRoots => IInv'
  <1> SUFFICES ASSUME IInv, FetchRoots PROVE IInv'
    OBVIOUS
  <1> USE DEF IInv, FetchRoots, tableVars
  <1>1. TypeOK'
    BY DEF TypeOK, Tables
  <1>2. PhaseShape' /\ OncePerKey' /\ History'
    BY DEF PhaseShape, OncePerKey, History
  <1>3. OnPaths'
    <2> SUFFICES ASSUME NEW C \in SUBSET Rows, ClosedIn(ever', C) PROVE Inside(C)'
      BY DEF OnPaths, ClosedIn
    <2>1. ClosedIn(ever, C)
      OBVIOUS
    <2>2. layer' \subseteq C
      BY <2>1 DEF ClosedIn, History
    <2> QED BY <2>1, <2>2 DEF OnPaths, Inside
  <1>4. NothingMissed'
    BY DEF NothingMissed, PhaseShape, History
  <1> QED BY <1>1, <1>2, <1>3, <1>4

LEMMA VisitStep == ASSUME NEW r \in Rows, IInv, Visit(r) PROVE IInv'
  <1> USE DEF IInv, tableVars
  <1>1. CASE Key(r) \in visited
    <2> USE <1>1 DEF Visit
    <2>1. TypeOK'
      BY DEF TypeOK
    <2>2. PhaseShape' /\ OncePerKey' /\ History'
      BY DEF PhaseShape, OncePerKey, History
    <2>3. OnPaths'
      BY DEF OnPaths, Inside, ClosedIn
    <2>4. NothingMissed'
      BY DEF NothingMissed, Expected
    <2> QED BY <2>1, <2>2, <2>3, <2>4
  <1>2. CASE Key(r) \notin visited
    <2>1. /\ visited' = visited \union {Key(r)}
          /\ pc' \in {"visit", "stopped", "failed"}
          /\ collection' \in {collection, Add(collection, r)}
          /\ Expand(r) \/ UNCHANGED <<parents, children, expanded>>
      BY <1>2, VisitEffect
    <2>2. /\ pc = "visit" /\ r \in layer /\ layer' = layer \ {r}
          /\ UNCHANGED <<table, changes, ever, always, callback, next>>
      BY DEF Visit
    <2>3. /\ collection' \in Seq(Rows)
          /\ ToSet(collection') \subseteq ToSet(collection) \union {r}
          /\ OncePerKey'
      BY <2>1, AddedOnce DEF TypeOK, OncePerKey
    <2>4. /\ Key(r) \in Keys
          /\ {<<r.cluster, u>> : u \in r.owners} \subseteq Keys
      BY KeysOfRows
    <2>5. TypeOK'
      BY <2>1, <2>2, <2>3, <2>4 DEF TypeOK, Expand
    <2>6. PhaseShape'
      BY <2>1, <2>2 DEF PhaseShape
    <2>7. r \in ever
      <3>1. ClosedIn(ever, ever)
        BY DEF ClosedIn
      <3> QED BY <3>1, <2>2 DEF OnPaths, Inside, TypeOK
    <2>8. History'
      BY <2>1, <2>2, <2>3, <2>7 DEF History, Expand
    <2>9. OnPaths'
      <3> SUFFICES ASSUME NEW C \in SUBSET Rows, ClosedIn(ever', C) PROVE Inside(C)'
        BY DEF OnPaths, ClosedIn
      <3>1. Inside(C) /\ r \in C
        BY <2>2 DEF OnPaths, Inside
      <3>2. layer' \subseteq C /\ next' \subseteq C /\ ToSet(collection') \subseteq C
        BY <3>1, <2>2, <2>3 DEF Inside
      <3>3. expanded' \subseteq C
        BY <3>1, <2>1 DEF Inside, Expand
      <3>4. \A k \in parents' : \E s \in C : s.cluster = k[1] /\ k[2] \in s.owners
        BY <3>1, <2>1 DEF Inside, Expand
      <3>5. \A k \in children' : \E s \in C : Key(s) = k
        BY <3>1, <2>1 DEF Inside, Expand
      <3> QED BY <3>2, <3>3, <3>4, <3>5 DEF Inside
    <2>10. NothingMissed'
      <3> SUFFICES ASSUME pc' = "visit" PROVE NothingMissed'
        BY <2>1 DEF NothingMissed
      <3>1. \A s \in always' \intersect Roots : Key(s) \in visited' \/ s \in layer'
        BY <2>1, <2>2 DEF NothingMissed
      <3>2. ASSUME NEW q \in expanded', NEW s \in always', Related(q, s)
            PROVE  Expected(q, s)'
        <4>1. CASE q \in expanded
          <5>1. Expected(q, s)
            BY <2>2, <3>2, <4>1 DEF NothingMissed
          <5>2. parents \subseteq parents' /\ children \subseteq children'
            BY <2>1 DEF Expand
          <5> QED BY <5>1, <5>2, <2>1, <2>2 DEF Expected
        <4>2. CASE q = r /\ Expand(r)
          <5>1. CASE r.uid \in s.owners
            BY <4>2, <5>1 DEF Expand, Expected
          <5>2. CASE s.uid \in r.owners
            <6>1. Key(s) = <<r.cluster, s.uid>>
              BY <3>2, <4>2 DEF Related, Key
            <6>2. Key(s) \in visited' \/ Key(s) \in parents'
              BY <2>1, <4>2, <5>2, <6>1 DEF Expand
            <6> QED BY <6>2 DEF Expected
          <5> QED BY <3>2, <4>2, <5>1, <5>2 DEF Related
        <4> QED BY <2>1, <4>1, <4>2 DEF Expand
      <3> QED BY <3>1, <3>2 DEF NothingMissed
    <2> QED BY <2>3, <2>5, <2>6, <2>8, <2>9, <2>10
  <1> QED BY <1>1, <1>2

LEMMA FetchParentsStep ==
    ASSUME NEW cluster \in Clusters, IInv, FetchParents(cluster) PROVE IInv'
  <1> USE DEF IInv, FetchParents, tableVars
  <1>1. TypeOK'
    BY DEF TypeOK, Tables
  <1>2. PhaseShape' /\ OncePerKey' /\ History'
    BY DEF PhaseShape, OncePerKey, History
  <1>3. OnPaths'
    <2> SUFFICES ASSUME NEW C \in SUBSET Rows, ClosedIn(ever', C) PROVE Inside(C)'
      BY DEF OnPaths, ClosedIn
    <2>1. ClosedIn(ever, C) /\ Inside(C)
      BY DEF OnPaths
    <2>2. ASSUME NEW s \in table, s.cluster = cluster, Key(s) \in parents PROVE s \in C
      <3>1. PICK p \in C : p.cluster = s.cluster /\ s.uid \in p.owners
        BY <2>1, <2>2 DEF Inside, Key
      <3>2. s \in Relatives[p]
        BY <3>1 DEF Relatives, Related, TypeOK, Tables
      <3> QED BY <2>1, <3>2 DEF ClosedIn, History
    <2>3. next' \subseteq C
      BY <2>1, <2>2 DEF Inside
    <2> QED BY <2>1, <2>3 DEF Inside
  <1>4. NothingMissed'
    <2>1. \A s \in always \intersect Roots : Key(s) \in visited' \/ s \in layer'
      BY DEF NothingMissed
    <2>2. ASSUME NEW q \in expanded, NEW s \in always, Related(q, s)
          PROVE  Expected(q, s)'
      <3>1. Expected(q, s)
        BY <2>2 DEF NothingMissed
      <3>2. CASE Key(s) \in parents /\ s.cluster = cluster
        BY <3>2 DEF Expected, History
      <3>3. CASE Key(s) \in parents /\ s.cluster # cluster
        BY <3>3 DEF Expected, Key
      <3> QED BY <3>1, <3>2, <3>3 DEF Expected
    <2> QED BY <2>1, <2>2 DEF NothingMissed
  <1> QED BY <1>1, <1>2, <1>3, <1>4

LEMMA FetchChildrenStep ==
    ASSUME NEW k \in children, IInv, FetchChildren(k) PROVE IInv'
  <1> USE DEF IInv, FetchChildren, tableVars
  <1>1. TypeOK'
    BY DEF TypeOK, Tables, Dependents
  <1>2. PhaseShape' /\ OncePerKey' /\ History'
    BY DEF PhaseShape, OncePerKey, History
  <1>3. OnPaths'
    <2> SUFFICES ASSUME NEW C \in SUBSET Rows, ClosedIn(ever', C) PROVE Inside(C)'
      BY DEF OnPaths, ClosedIn
    <2>1. ClosedIn(ever, C) /\ Inside(C)
      BY DEF OnPaths
    <2>2. ASSUME NEW s \in Dependents(k) PROVE s \in C
      <3>1. PICK p \in C : p.cluster = s.cluster /\ p.uid \in s.owners
        BY <2>1 DEF Inside, Key, Dependents
      <3>2. s \in Relatives[p]
        BY <3>1 DEF Relatives, Related, Dependents, TypeOK, Tables
      <3> QED BY <2>1, <3>2 DEF ClosedIn, History, Dependents
    <2>3. next' \subseteq C
      BY <2>1, <2>2 DEF Inside
    <2> QED BY <2>1, <2>3 DEF Inside
  <1>4. NothingMissed'
    <2>1. \A s \in always \intersect Roots : Key(s) \in visited' \/ s \in layer'
      BY DEF NothingMissed
    <2>2. ASSUME NEW q \in expanded, NEW s \in always, Related(q, s)
          PROVE  Expected(q, s)'
      <3>1. Expected(q, s)
        BY <2>2 DEF NothingMissed
      <3>2. CASE Key(q) = k /\ q.uid \in s.owners
        <4>1. s \in Dependents(k)
          BY <2>2, <3>2 DEF Dependents, Key, Related, History
        <4> QED BY <4>1 DEF Expected
      <3> QED BY <3>1, <3>2 DEF Expected
    <2> QED BY <2>1, <2>2 DEF NothingMissed
  <1> QED BY <1>1, <1>2, <1>3, <1>4

LEMMA OtherSteps == IInv /\ (LayerVisited \/ QueryFails \/ NextLayer) => IInv'
  <1> SUFFICES ASSUME IInv, LayerVisited \/ QueryFails \/ NextLayer PROVE IInv'
    OBVIOUS
  <1> USE DEF IInv, LayerVisited, QueryFails, NextLayer, tableVars
  <1>1. TypeOK'
    BY DEF TypeOK
  <1>2. PhaseShape' /\ OncePerKey' /\ History'
    BY DEF PhaseShape, OncePerKey, History
  <1>3. OnPaths'
    BY DEF OnPaths, Inside, ClosedIn
  <1>4. NothingMissed'
    BY DEF NothingMissed, Expected, PhaseShape
  <1> QED BY <1>1, <1>2, <1>3, <1>4

LEMMA NextIInv == IInv /\ [Next]_vars => IInv'
  <1> SUFFICES ASSUME IInv, [Next]_vars PROVE IInv'
    OBVIOUS
  <1>1. CASE UNCHANGED vars
    BY <1>1 DEF IInv, TypeOK, PhaseShape, History, OnPaths, Inside, ClosedIn, NothingMissed,
                Expected, OncePerKey, vars, tableVars, walkVars
  <1>2. CASE Worker
    BY <1>2, WorkerStep
  <1>3. CASE Walk
    BY <1>3, FetchRootsStep, VisitStep, FetchParentsStep, FetchChildrenStep, OtherSteps
       DEF Walk
  <1> QED BY <1>1, <1>2, <1>3 DEF Next

LEMMA Invariance == Spec => []IInv
  BY InitIInv, NextIInv, PTL DEF Spec

(***************************************************************************)
(* Theorems.                                                               *)
(***************************************************************************)

(* Every variable keeps its type; the table keeps one row per primary key. *)
THEOREM TypeCorrect == Spec => []TypeOK
  BY Invariance, PTL DEF IInv

LEMMA SoundIfInv == IInv => Sound
  <1> SUFFICES ASSUME IInv, NEW r \in ToSet(collection) PROVE r \in Reachable(ever)
    BY DEF Sound
  <1>1. r \in ever
    BY DEF IInv, History
  <1>2. \A C \in SUBSET ever : ClosedIn(ever, C) => r \in C
    BY DEF IInv, OnPaths, Inside, TypeOK
  <1> QED BY <1>1, <1>2 DEF Reachable

(* The answer leaves no component of the owner graph that holds no root,   *)
(* and no cluster, whatever the sync workers write during the walk         *)
(* (fetcher.go:203-297).                                                   *)
THEOREM WalkSound == Spec => []Sound
  BY Invariance, SoundIfInv, PTL

LEMMA CompleteIfInv == IInv => Complete
  BY DEF IInv, Complete, NothingMissed, PhaseShape, Expected

(* A finished walk missed no root and no relative that stayed in the table *)
(* during the whole call (fetcher.go:239-297).                             *)
THEOREM WalkComplete == Spec => []Complete
  BY Invariance, CompleteIfInv, PTL

LEMMA ExactIfInv == IInv => Exact
  <1> SUFFICES ASSUME IInv, pc = "done", changes = 0,
                      visited = {Key(r) : r \in expanded \intersect ToSet(collection)},
                      \A r, s \in table : Key(r) = Key(s) => r.owners = s.owners
               PROVE  {Key(r) : r \in ToSet(collection)} = {Key(r) : r \in Reachable(table)}
    BY DEF Exact, IInv, OncePerKey
  <1>1. ever = table /\ always = table /\ table \subseteq Rows
    BY DEF IInv, History, TypeOK, Tables
  <1>2. {Key(r) : r \in ToSet(collection)} \subseteq {Key(r) : r \in Reachable(table)}
    BY <1>1, SoundIfInv DEF Sound
  <1> DEFINE V == {r \in table : Key(r) \in visited}
  <1>3. ClosedIn(table, V)
    <2>1. table \intersect Roots \subseteq V
      BY <1>1, CompleteIfInv DEF Complete
    <2>2. ASSUME NEW r \in V, NEW s \in table \intersect Relatives[r] PROVE s \in V
      <3>1. PICK e \in expanded : Key(e) = Key(r)
        OBVIOUS
      <3>2. e \in table /\ e.owners = r.owners
        BY <1>1, <3>1 DEF IInv, History
      <3>3. Related(e, s)
        BY <1>1, <3>1, <3>2 DEF Relatives, Related, Key
      <3> QED BY <1>1, <3>3, CompleteIfInv DEF Complete
    <2> QED BY <2>1, <2>2 DEF ClosedIn
  <1>4. Reachable(table) \subseteq V
    BY <1>3 DEF Reachable
  <1>5. {Key(r) : r \in Reachable(table)} \subseteq {Key(r) : r \in ToSet(collection)}
    BY <1>4
  <1> QED BY <1>2, <1>5

(* If nothing changes and the callback takes everything, the answer is the *)
(* connected resources, each once (fetcher.go:203-297).                    *)
THEOREM WalkExact == Spec => []Exact
  BY Invariance, ExactIfInv, PTL

LEMMA KeysFinite == IsFiniteSet(Keys)
  <1> DEFINE cluster == [r \in Rows |-> r.cluster]
             uids    == [r \in Rows |-> {r.uid} \union r.owners]
  <1>1. IsFiniteSet(Clusters)
    <2>1. cluster \in Surjection(Rows, Clusters)
      BY DEF Surjection, Clusters
    <2> QED BY <2>1, FS_Surjection, RowsAssumption
  <1>2. IsFiniteSet(UNION {{r.uid} \union r.owners : r \in Rows})
    <2> DEFINE sets == {{r.uid} \union r.owners : r \in Rows}
    <2>1. uids \in Surjection(Rows, sets)
      BY DEF Surjection
    <2>2. IsFiniteSet(sets)
      BY <2>1, FS_Surjection, RowsAssumption
    <2>3. ASSUME NEW S \in sets PROVE IsFiniteSet(S)
      <3>1. PICK r \in Rows : S = {r.uid} \union r.owners
        OBVIOUS
      <3>2. IsFiniteSet({r.uid}) /\ IsFiniteSet(r.owners)
        BY FS_Singleton, RowsAssumption
      <3> QED BY <3>1, <3>2, FS_Union
    <2> HIDE DEF sets
    <2>4. IsFiniteSet(UNION sets)
      BY <2>2, <2>3, FS_UNION
    <2> QED BY <2>4 DEF sets
  <1> QED BY <1>1, <1>2, FS_Product DEF Keys

LEMMA VisitAdvances ==
    ASSUME IInv, IInv', NEW r \in Rows, Visit(r) PROVE Advance
  <1> USE DEF IInv, TypeOK
  <1>1. CASE Key(r) \in visited
    BY <1>1 DEF Visit, Advance
  <1>2. CASE Key(r) \notin visited
    BY <1>2, VisitEffect DEF Visit, Advance
  <1> QED BY <1>1, <1>2

(* The whole measure is over finite sets, so the walk ends as soon as its  *)
(* steps are taken: every set it compares is a set of keys or of rows.     *)
LEMMA StepAdvances == IInv /\ IInv' /\ [Next]_vars => [Advance]_walkVars
  <1> SUFFICES ASSUME IInv, IInv', Next PROVE Advance \/ UNCHANGED walkVars
    BY DEF vars
  <1> USE DEF IInv, TypeOK, tableVars, Advance, Phase
  <1>1. CASE Worker
    BY <1>1 DEF Worker, UpsertResource, DeleteResource, SetTable
  <1>2. CASE FetchRoots
    BY <1>2 DEF FetchRoots
  <1>3. CASE \E r \in Rows : Visit(r)
    BY <1>3, VisitAdvances
  <1>4. CASE LayerVisited
    BY <1>4 DEF LayerVisited
  <1>5. CASE \E c \in Clusters : FetchParents(c)
    BY <1>5 DEF FetchParents
  <1>6. CASE \E k \in children : FetchChildren(k)
    BY <1>6 DEF FetchChildren
  <1>7. CASE QueryFails
    BY <1>7 DEF QueryFails
  <1>8. CASE NextLayer
    BY <1>8 DEF NextLayer, PhaseShape
  <1> QED BY <1>1, <1>2, <1>3, <1>4, <1>5, <1>6, <1>7, <1>8 DEF Next, Walk

(* The walk advances along a measure that is made of finite sets, and no   *)
(* change of the table sets it back (fetcher.go:203-297).                  *)
THEOREM WalkAdvances == Spec => AlwaysAdvances /\ [](IsFiniteSet(Keys) /\ IsFiniteSet(Rows))
  <1>1. IsFiniteSet(Keys) /\ IsFiniteSet(Rows)
    BY KeysFinite, RowsAssumption
  <1> QED BY <1>1, Invariance, StepAdvances, PTL DEF Spec, AlwaysAdvances
=============================================================================
