---------------------------- MODULE MCDiscovery -----------------------------
(***************************************************************************)
(* Instances of Discovery: pods of two namespaces, a resource with two     *)
(* versions, a cluster-scoped resource, one that cannot be watched and a   *)
(* subresource.                                                            *)
(***************************************************************************)
EXTENDS Discovery, TLC

Type(resource, short, full, rank) ==
    [resource |-> resource, short |-> short, full |-> full, rank |-> rank]

pods        == Type("pods", "pods", "v1/pods", 1)
podsStatus  == Type("pods/status", "pods/status", "v1/pods/status", 1)
nodes       == Type("nodes", "nodes", "v1/nodes", 1)
bindings    == Type("bindings", "bindings", "v1/bindings", 1)
widgets     == Type("widgets", "widgets", "acme/v1/widgets", 1)
widgetsBeta == Type("widgets", "widgets", "acme/v1beta1/widgets", 2)

TypesAll    == {pods, podsStatus, nodes, bindings, widgets, widgetsBeta}
ResourceFn  == [t \in Types |-> t.resource]
ShortFn     == [t \in Types |-> t.short]
FullFn      == [t \in Types |-> t.full]
RankFn      == [t \in Types |-> t.rank]
WatchTypes  == Types \ {bindings, podsStatus}
SlashTypes  == Types \intersect {podsStatus}

ObjectsAll == {<<"pods", "default">>, <<"pods", "kube-system">>, <<"nodes", "">>,
               <<"widgets", "default">>}

Strings == {t.short : t \in TypesAll} \union {t.full : t \in TypesAll}
           \union {"default", "kube-system", ""}

PatternsAll == {"*", "kube-*", "pods", "widgets", "acme/v1beta1/widgets"}
MatchedFn   == [p \in PatternsAll |->
                   CASE p = "*"      -> Strings
                     [] p = "kube-*" -> {"kube-system"}
                     [] OTHER        -> {p}]

Rules(includeNs, excludeNs, include, exclude, clusterScoped) ==
    [includeNamespaces |-> includeNs, excludeNamespaces |-> excludeNs,
     includeResources  |-> include,   excludeResources  |-> exclude,
     includeClusterScoped |-> clusterScoped]

NoRules == Rules({}, {}, {}, {}, FALSE)

(* An unrestricted cluster, one of the README's kind, overrides by the     *)
(* cluster, and an opt-in that beats an exclusion.                         *)
ConfigsAll ==
    {[global |-> NoRules, own |-> NoRules],
     [global |-> Rules({"*"}, {"kube-*"}, {}, {"widgets"}, FALSE), own |-> NoRules],
     [global |-> Rules({}, {}, {}, {"widgets"}, FALSE),
      own    |-> Rules({}, {}, {}, {"acme/v1beta1/widgets"}, FALSE)],
     [global |-> Rules({}, {"*"}, {"*"}, {}, FALSE),
      own    |-> Rules({}, {}, {}, {"pods"}, TRUE)]}

ConfigsInclude ==
    {[global |-> Rules({}, {}, {"pods"}, {}, FALSE), own |-> NoRules]}

ConfigsDefault == {[global |-> NoRules, own |-> NoRules]}
=============================================================================
