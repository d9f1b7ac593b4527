------------------------------ MODULE Filters -------------------------------
(***************************************************************************)
(* pkg/config/config.go: the filters of one cluster, and what they select. *)
(***************************************************************************)
EXTENDS FiniteSets

CONSTANTS
    Patterns,   \* the patterns a configuration may name
    Matched     \* of a pattern: the strings it matches, by equality or globbing

ASSUME FiltersAssumption == DOMAIN Matched = Patterns

(* The empty namespace of a cluster-scoped object. *)
NoNamespace == ""

FilterConfig ==
    [includeNamespaces : SUBSET Patterns, excludeNamespaces : SUBSET Patterns,
     includeResources  : SUBSET Patterns, excludeResources  : SUBSET Patterns,
     includeClusterScoped : BOOLEAN]

matchPattern(pattern, target) == target \in Matched[pattern]

MatchesAny(patterns, target) == \E p \in patterns : matchPattern(p, target)

(* GetEffectiveFilters: a list of the cluster replaces the global one, the *)
(* flag holds if either is set.                                            *)
EffectiveFilters(global, own) ==
    LET Or(mine, theirs) == IF mine # {} THEN mine ELSE theirs
    IN  [includeNamespaces    |-> Or(own.includeNamespaces, global.includeNamespaces),
         excludeNamespaces    |-> Or(own.excludeNamespaces, global.excludeNamespaces),
         includeResources     |-> Or(own.includeResources, global.includeResources),
         excludeResources     |-> Or(own.excludeResources, global.excludeResources),
         includeClusterScoped |-> own.includeClusterScoped \/ global.includeClusterScoped]

MatchesNamespace(f, ns) ==
    \/ ns = NoNamespace /\ f.includeClusterScoped
    \/ /\ ~MatchesAny(f.excludeNamespaces, ns)
       /\ f.includeNamespaces # {} => MatchesAny(f.includeNamespaces, ns)

MatchesResource(f, name) ==
    /\ ~MatchesAny(f.excludeResources, name)
    /\ f.includeResources # {} => MatchesAny(f.includeResources, name)
=============================================================================
