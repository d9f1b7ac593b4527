----------------------------- MODULE MCQueries ------------------------------
(***************************************************************************)
(* Instances of Queries: two pods of one name in two clusters, and an      *)
(* Event stored both in the core group and in events.k8s.io.               *)
(***************************************************************************)
EXTENDS Queries, TLC

Row(cluster, group, kind, name) ==
    [cluster |-> cluster, group |-> group, version |-> "v1", kind |-> kind,
     namespace |-> "default", name |-> name, uid |-> name, owners |-> {}]

pod1   == Row("us1", "", "Pod", "web")
pod2   == Row("us2", "", "Pod", "web")
event  == Row("us1", "", "Event", "e")
event2 == Row("us1", "events.k8s.io", "Event", "e")

RowsPods == {pod1, pod2, event, event2}

Request(op, given, filter, format) ==
    [op |-> op, given |-> given, filter |-> filter, format |-> format]

None   == [f \in {} |-> ""]
OfWeb  == [kind |-> "Pod", name |-> "web"]
OfPods == [kind |-> "Pod"]
Core   == [cluster |-> "us1", version |-> "v1"]

RequestsAll == [c \in Callers |->
    IF c = "user" THEN
        {Request("GetResource", FALSE, None, ""),
         Request("GetResource", TRUE, OfWeb, ""),
         Request("ListResources", FALSE, None, ""),
         Request("FetchResourceGraph", TRUE, [uid |-> "e"], ""),
         Request("get", TRUE, OfPods, ""),
         Request("get", TRUE, OfWeb, ""),
         Request("get", TRUE, OfPods, "wide"),
         Request("describe", TRUE, OfWeb @@ [namespace |-> "default"], "")}
    ELSE {Request("ListResourceKeys", TRUE, Core @@ [kind |-> "Event"], "")}]

RequestsExamples == [c \in Callers |->
    {Request("get", TRUE, [kind |-> "pods"], ""),
     Request("get", TRUE, OfPods, "")}]

Plurals == [k \in {"Pod", "Event"} |-> IF k = "Pod" THEN "pods" ELSE "events"]
=============================================================================
