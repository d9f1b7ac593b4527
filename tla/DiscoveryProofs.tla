-------------------------- MODULE DiscoveryProofs ---------------------------
(***************************************************************************)
(* Proofs about the discovery of resource types and the filters, for any   *)
(* types, versions, patterns, configurations and number of changes.        *)
(***************************************************************************)
EXTENDS Discovery, TLAPS

(***************************************************************************)
(* The inductive invariant.                                                *)
(***************************************************************************)

(* Only a running daemon watches: a new configuration is never in force    *)
(* for what an old one selected.                                           *)
NothingWatchedWhenDown == phase # "running" => watched = {}

(* What is watched, and the rows of what has caught up, pass the filters   *)
(* of the configuration in force.                                          *)
WatchedPass == \A t \in watched : PassesFilters(filters, t)

RowsPass == \A row \in rows : row[1] \in current => MatchesNamespace(filters, row[2])

IInv ==
    TypeOK /\ NothingWatchedWhenDown /\ WatchedPass /\ RowsPass /\ OneVersionUnlessError

(***************************************************************************)
(* Lemmas about the operators.                                             *)
(***************************************************************************)

(* Versions of one resource never share a rank, so one is preferred.       *)
LEMMA OnePreferred ==
    ASSUME served \subseteq Types, NEW t \in Preferred, NEW u \in Preferred,
           ResourceOf[t] = ResourceOf[u]
    PROVE  t = u
  <1>1. Rank[t] <= Rank[u] /\ Rank[u] <= Rank[t] /\ t \in Types /\ u \in Types
    BY DEF Preferred
  <1>2. Rank[t] \in Nat /\ Rank[u] \in Nat
    BY <1>1, DiscoveryAssumption
  <1>3. Rank[t] = Rank[u]
    BY <1>1, <1>2
  <1> QED BY <1>1, <1>3, DiscoveryAssumption

(* The effective lists are those in force.                                 *)
LEMMA FiltersInForce ==
    /\ filters.excludeResources = InForce("excludeResources")
    /\ filters.excludeNamespaces = InForce("excludeNamespaces")
    /\ filters.includeClusterScoped =
           (config.own.includeClusterScoped \/ config.global.includeClusterScoped)
  BY DEF filters, EffectiveFilters, InForce

LEMMA WatchableTypes ==
    ASSUME NEW f, NEW lists
    PROVE  /\ Watchable(f, lists) \subseteq lists
           /\ Watchable(f, lists) \subseteq WatchVerb \ Subresources
           /\ \A t \in Watchable(f, lists) : PassesFilters(f, t)
  BY DEF Watchable

(***************************************************************************)
(* The invariant holds at the start and is kept by every step.             *)
(***************************************************************************)

LEMMA InitIInv == Init => IInv
  BY DiscoveryAssumption DEF Init, IInv, TypeOK, NothingWatchedWhenDown, WatchedPass,
     RowsPass, OneVersionUnlessError

LEMMA BoundKept ==
    ASSUME TypeOK, NEW kind \in {"api", "start"}, Bound(kind)
    PROVE  changes' \in [{"api", "start"} -> 0 .. MaxChanges]
  BY DiscoveryAssumption DEF TypeOK, Bound

(* A change of the cluster leaves alone what is watched, the configuration *)
(* and the rows.                                                           *)
LEMMA ApiStep ==
    ASSUME IInv, \/ \E o \in Objects : ChangeObject(o)
                 \/ \E t \in Types : Withdraw(t)
    PROVE  IInv'
  <1> USE DEF IInv
  <1>1. /\ UNCHANGED <<phase, config, watched, rows, healthy>>
        /\ current' \subseteq current
        /\ served' \subseteq served
        /\ live' \subseteq Objects
        /\ Bound("api")
    BY DEF ChangeObject, Withdraw, TypeOK
  <1>2. TypeOK'
    BY <1>1, BoundKept, Zenon DEF TypeOK
  <1>3. NothingWatchedWhenDown' /\ WatchedPass' /\ OneVersionUnlessError'
    BY <1>1 DEF NothingWatchedWhenDown, WatchedPass, OneVersionUnlessError, filters
  <1>4. RowsPass'
    BY <1>1 DEF RowsPass, filters
  <1> QED BY <1>2, <1>3, <1>4

LEMMA StartStep == IInv /\ Start => IInv'
  <1> SUFFICES ASSUME IInv, Start PROVE IInv'
    OBVIOUS
  <1> USE DEF IInv
  <1>1. /\ phase = "down" /\ phase' = "running" /\ config' \in Configs
        /\ UNCHANGED <<served, live, current, rows>>
        /\ Bound("start")
    BY DEF Start
  <1>2. PICK answer \in Answers :
            /\ watched' = Watchable(filters', answer.lists)
            /\ healthy' = answer.ok
    BY DEF Start, filters
  <1>3. current' = {}
    BY <1>1 DEF NothingWatchedWhenDown, TypeOK
  <1>4. TypeOK'
    <2>1. answer.ok \in BOOLEAN
      <3>1. answer.ok = TRUE \/ answer.ok = FALSE
        BY DEF Answers
      <3> QED BY <3>1, Zenon
    <2>2. watched' \subseteq WatchVerb \ Subresources
      BY <1>2, WatchableTypes
    <2> QED BY <1>1, <1>2, <1>3, <2>1, <2>2, BoundKept, Zenon DEF TypeOK
  <1>5. NothingWatchedWhenDown' /\ WatchedPass' /\ RowsPass'
    BY <1>1, <1>2, <1>3, WatchableTypes DEF NothingWatchedWhenDown, WatchedPass, RowsPass
  <1>6. OneVersionUnlessError'
    <2> SUFFICES ASSUME answer.ok, NEW t \in watched', NEW u \in watched',
                        ResourceOf[t] = ResourceOf[u]
                 PROVE  t = u
      BY <1>2 DEF OneVersionUnlessError
    <2>1. answer.lists = Preferred
      BY DEF Answers
    <2>2. t \in Preferred /\ u \in Preferred
      BY <1>2, <2>1, WatchableTypes
    <2> QED BY <2>2, OnePreferred DEF TypeOK
  <1> QED BY <1>4, <1>5, <1>6

LEMMA EndStep == IInv /\ (StartFails \/ Stop) => IInv'
  <1> SUFFICES ASSUME IInv, StartFails \/ Stop PROVE IInv'
    OBVIOUS
  <1> USE DEF IInv
  <1>1. CASE StartFails
    <2>1. watched' = {} /\ current' = {} /\ phase' # "running"
      BY <1>1 DEF StartFails, NothingWatchedWhenDown, TypeOK
    <2>2. /\ config' \in Configs /\ healthy' = FALSE /\ phase' = "gaveup"
          /\ UNCHANGED <<served, live, watched, current, rows>>
          /\ Bound("start")
      BY <1>1 DEF StartFails
    <2>3. TypeOK'
      BY <2>2, BoundKept, Zenon DEF TypeOK
    <2> QED BY <2>1, <2>3 DEF NothingWatchedWhenDown, WatchedPass, RowsPass,
                              OneVersionUnlessError
  <1>2. CASE Stop
    <2>1. watched' = {} /\ current' = {} /\ phase' = "down"
      BY <1>2 DEF Stop
    <2>2. TypeOK'
      BY <1>2, <2>1, Zenon DEF Stop, TypeOK
    <2> QED BY <2>1, <2>2 DEF NothingWatchedWhenDown, WatchedPass, RowsPass,
                              OneVersionUnlessError
  <1> QED BY <1>1, <1>2

LEMMA SyncStep == ASSUME NEW t \in Types, IInv, Sync(t) PROVE IInv'
  <1> USE DEF IInv
  <1> DEFINE fresh == {<<t, o[2]>> : o \in {p \in live : /\ p[1] = ResourceOf[t]
                                                         /\ MatchesNamespace(filters, p[2])}}
  <1>1. /\ UNCHANGED <<served, live, phase, config, watched, healthy, changes>>
        /\ rows' = {row \in rows : row[1] # t} \union fresh
        /\ current' = current \union {t}
        /\ t \in watched
    BY DEF Sync
  <1>2. fresh \subseteq Types \X {o[2] : o \in Objects}
    BY DEF TypeOK
  <1>3. \A row \in fresh : row[1] = t /\ MatchesNamespace(filters, row[2])
    OBVIOUS
  <1> HIDE DEF fresh
  <1>4. TypeOK'
    BY <1>1, <1>2, Zenon DEF TypeOK
  <1>5. NothingWatchedWhenDown' /\ WatchedPass' /\ OneVersionUnlessError'
    BY <1>1 DEF NothingWatchedWhenDown, WatchedPass, OneVersionUnlessError, filters
  <1>6. RowsPass'
    BY <1>1, <1>3 DEF RowsPass, filters
  <1> QED BY <1>4, <1>5, <1>6

LEMMA NextIInv == IInv /\ [Next]_vars => IInv'
  <1> SUFFICES ASSUME IInv, [Next]_vars PROVE IInv'
    OBVIOUS
  <1>1. CASE UNCHANGED vars
    BY <1>1 DEF vars, IInv, TypeOK, NothingWatchedWhenDown, WatchedPass, RowsPass,
                OneVersionUnlessError, filters
  <1>2. CASE Next
    BY <1>2, ApiStep, StartStep, EndStep, SyncStep DEF Next
  <1> QED BY <1>1, <1>2

(***************************************************************************)
(* Theorems.                                                               *)
(***************************************************************************)

(* Every variable keeps its type; nothing without the watch verb and no    *)
(* subresource is watched (discovery.go:44-51).                            *)
THEOREM TypeCorrect == Spec => []TypeOK
  <1>1. IInv => TypeOK
    BY DEF IInv
  <1> QED BY InitIInv, NextIInv, <1>1, PTL DEF Spec

LEMMA ExclusionsIfInv == IInv => ExclusionsHold
  <1> SUFFICES ASSUME IInv, NEW row \in rows, row[1] \in current
               PROVE  /\ ~MatchesAny(InForce("excludeResources"), ShortName[row[1]])
                      /\ ~MatchesAny(InForce("excludeResources"), FullName[row[1]])
                      /\ MatchesAny(InForce("excludeNamespaces"), row[2]) =>
                             row[2] = NoNamespace
                             /\ (config.own.includeClusterScoped
                                 \/ config.global.includeClusterScoped)
    BY DEF ExclusionsHold
  <1>1. PassesFilters(filters, row[1])
    BY DEF IInv, TypeOK, WatchedPass
  <1>2. MatchesNamespace(filters, row[2])
    BY DEF IInv, RowsPass
  <1> QED BY <1>1, <1>2, FiltersInForce, Zenon DEF PassesFilters, MatchesResource,
                                                   MatchesNamespace

(* No row of a type that has caught up comes from an excluded resource or  *)
(* namespace, whatever was configured before (config.go:75-153).           *)
THEOREM ExclusionsSafe == Spec => []ExclusionsHold
  BY InitIInv, NextIInv, ExclusionsIfInv, PTL DEF Spec

(* Without a discovery error one version of a resource is watched          *)
(* (discovery.go:20-39).                                                   *)
THEOREM OneVersion == Spec => []OneVersionUnlessError
  <1>1. IInv => OneVersionUnlessError
    BY DEF IInv
  <1> QED BY InitIInv, NextIInv, <1>1, PTL DEF Spec
=============================================================================
