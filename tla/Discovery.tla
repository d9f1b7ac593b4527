----------------------------- MODULE Discovery ------------------------------
(***************************************************************************)
(* Which resource types of a cluster are synced from one start of the      *)
(* daemon to the next: pkg/k8s/discovery.go under the filters of           *)
(* pkg/config, against an API server whose types come and go.  The types   *)
(* are discovered once per start.  What happens to the rows of one         *)
(* discovered type is GVRSync; here the controller of a type brings them   *)
(* up to date in one step.                                                 *)
(***************************************************************************)
EXTENDS Naturals, Filters

CONSTANTS
    Types,         \* entries of API resource lists: group, version and resource
    ResourceOf,    \* of a type: its group and resource; versions share objects
    ShortName,     \* of a type: "pods", "pods/status"
    FullName,      \* of a type: "v1/pods"
    Rank,          \* of a type: 1 for the preferred version
    WatchVerb,     \* the types that support the verb
    Subresources,  \* the types whose name holds a slash
    Objects,       \* pairs of a resource and a namespace in which objects live
    Configs,       \* pairs of global filters and filters of the cluster
    MaxChanges     \* bound: changes of the cluster, and starts of the daemon

ASSUME DiscoveryAssumption ==
    /\ Configs \subseteq [global : FilterConfig, own : FilterConfig]
    /\ WatchVerb \subseteq Types /\ Subresources \subseteq Types
    /\ Rank \in [Types -> Nat]
    /\ \A t, u \in Types : ResourceOf[t] = ResourceOf[u] /\ Rank[t] = Rank[u] => t = u
    /\ MaxChanges \in Nat

VARIABLES
    served,    \* the types the API server offers
    live,      \* the objects that exist
    phase,     \* "down", "running", "gaveup" (discovery failed)
    config,    \* the configuration read at the last start
    watched,   \* the types the running ClusterSyncer has a controller for
    current,   \* those whose controller has caught up with the API server
    rows,      \* the datastore: pairs of a type and a namespace with rows
    healthy,   \* history: the last discovery met no error
    changes

vars == <<served, live, phase, config, watched, current, rows, healthy, changes>>

filters == EffectiveFilters(config.global, config.own)

Versions(r) == {t \in Types : ResourceOf[t] = r}

Bound(kind) ==
    /\ changes[kind] < MaxChanges
    /\ changes' = [changes EXCEPT ![kind] = @ + 1]

Init ==
    /\ served = Types /\ live = Objects
    /\ phase = "down" /\ config \in Configs
    /\ watched = {} /\ current = {} /\ rows = {}
    /\ healthy = TRUE
    /\ changes = [kind \in {"api", "start"} |-> 0]

(***************************************************************************)
(* The API server (external).                                              *)
(***************************************************************************)

(* Objects of a served resource are created, or the last one deleted. *)
ChangeObject(o) ==
    /\ Bound("api")
    /\ Versions(o[1]) \intersect served # {}
    /\ live' = (live \ {o}) \union ({o} \ live)
    /\ current' = current \ Versions(o[1])
    /\ UNCHANGED <<served, phase, config, watched, rows, healthy>>

(* A version is withdrawn; with the last one go the objects. *)
Withdraw(t) ==
    /\ Bound("api")
    /\ t \in served
    /\ served' = served \ {t}
    /\ live' = {o \in live : Versions(o[1]) \intersect served' # {}}
    /\ current' = current \ Versions(ResourceOf[t])
    /\ UNCHANGED <<phase, config, watched, rows, healthy>>

(* ServerPreferredResources. *)
Preferred ==
    {t \in served : \A u \in served : ResourceOf[u] = ResourceOf[t] => Rank[t] <= Rank[u]}

(***************************************************************************)
(* DiscoverWatchableResources.                                             *)
(***************************************************************************)

(* Mutant: a type is passed unless both its names are excluded. *)
PassesFiltersByEither(f, t) ==
    MatchesResource(f, ShortName[t]) \/ MatchesResource(f, FullName[t])

PassesFilters(f, t) ==
    MatchesResource(f, ShortName[t]) /\ MatchesResource(f, FullName[t])

(* Mutant: the check of the verb is missing. *)
WatchableUnchecked(f, lists) == {t \in lists \ Subresources : PassesFilters(f, t)}

Watchable(f, lists) ==
    {t \in (lists \intersect WatchVerb) \ Subresources : PassesFilters(f, t)}

(* Mutant: all versions are asked for at once. *)
AnswersAllVersions == {[lists |-> served, ok |-> TRUE]}

(* The lists discovery works with.  After an error, or without a list, all *)
(* versions are asked for, and what part of them comes back is used.       *)
Answers ==
    {[lists |-> Preferred, ok |-> TRUE]}
    \union {[lists |-> part, ok |-> FALSE] : part \in SUBSET served \ {{}}}

(* A start of the daemon, with the configuration as it is now. *)
Start ==
    /\ phase = "down"
    /\ Bound("start")
    /\ config' \in Configs
    /\ \E answer \in Answers :
          /\ watched' = Watchable(EffectiveFilters(config'.global, config'.own),
                                  answer.lists)
          /\ healthy' = answer.ok
    /\ phase' = "running"
    /\ UNCHANGED <<served, live, current, rows>>

(* Neither question was answered. *)
StartFails ==
    /\ phase = "down"
    /\ Bound("start")
    /\ config' \in Configs
    /\ phase' = "gaveup"
    /\ healthy' = FALSE
    /\ UNCHANGED <<served, live, watched, current, rows>>

Stop ==
    /\ phase # "down"
    /\ phase' = "down"
    /\ watched' = {} /\ current' = {}
    /\ UNCHANGED <<served, live, config, rows, healthy, changes>>

(* The controller of t lists and watches, and brings the rows of t to what *)
(* the cluster holds and the namespace filters let pass.                   *)
Sync(t) ==
    /\ t \in watched \ current
    /\ t \in served
    /\ rows' = {row \in rows : row[1] # t}
               \union {<<t, o[2]>> : o \in {p \in live : /\ p[1] = ResourceOf[t]
                                                        /\ MatchesNamespace(filters, p[2])}}
    /\ current' = current \union {t}
    /\ UNCHANGED <<served, live, phase, config, watched, healthy, changes>>

Next ==
    \/ \E o \in Objects : ChangeObject(o)
    \/ \E t \in Types : Withdraw(t) \/ Sync(t)
    \/ Start \/ StartFails \/ Stop

Spec == Init /\ [][Next]_vars

(***************************************************************************)
(* Properties.                                                             *)
(***************************************************************************)

TypeOK ==
    /\ served \subseteq Types
    /\ live \subseteq Objects
    /\ phase \in {"down", "running", "gaveup"}
    /\ config \in Configs
    /\ current \subseteq watched /\ watched \subseteq WatchVerb \ Subresources
    /\ rows \subseteq Types \X {o[2] : o \in Objects}
    /\ healthy \in BOOLEAN
    /\ changes \in [{"api", "start"} -> 0 .. MaxChanges]

(* The lists in force: the cluster's own if it has one. *)
InForce(field) ==
    IF config.own[field] # {} THEN config.own[field] ELSE config.global[field]

(* Once its controller has caught up, no row of a type comes from a        *)
(* resource or a namespace that the configuration read at this start       *)
(* excludes, under the short or the full name, whatever earlier starts     *)
(* with other configurations had stored (config.go:75-153,                 *)
(* discovery.go:55-61).                                                    *)
ExclusionsHold ==
    \A row \in rows : row[1] \in current =>
        /\ ~MatchesAny(InForce("excludeResources"), ShortName[row[1]])
        /\ ~MatchesAny(InForce("excludeResources"), FullName[row[1]])
        /\ MatchesAny(InForce("excludeNamespaces"), row[2]) =>
               row[2] = NoNamespace /\ (config.own.includeClusterScoped
                                        \/ config.global.includeClusterScoped)

(* Two versions of one resource are synced, and its objects stored twice   *)
(* with the same UID, only after a discovery that met an error             *)
(* (discovery.go:20: "queries the API server for preferred API resources").*)
OneVersionUnlessError ==
    healthy => \A t, u \in watched : ResourceOf[t] = ResourceOf[u] => t = u

(* "Automated State Reconciliation: Seamlessly handles missed deletes ...  *)
(* by comparing the database against the cluster state on startup"         *)
(* (README.md:18): when everything watched is up to date, no row is left   *)
(* of an object that is gone.                                              *)
NoGhostRows ==
    (phase = "running" /\ healthy /\ watched \subseteq current) =>
        \A row \in rows : <<ResourceOf[row[1]], row[2]>> \in live

(* A resource may be named either way, "pods" or "v1/pods"                 *)
(* (discovery.go:55): a type that an include rule names, and no exclude    *)
(* rule does, is synced.                                                   *)
IncludedByEitherName ==
    (phase = "running" /\ healthy) =>
        \A t \in (Preferred \intersect WatchVerb) \ Subresources :
            /\ \E name \in {ShortName[t], FullName[t]} :
                  MatchesAny(InForce("includeResources"), name)
            /\ \A name \in {ShortName[t], FullName[t]} :
                  ~MatchesAny(InForce("excludeResources"), name)
            => t \in watched
=============================================================================
