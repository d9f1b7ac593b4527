---------------------------- MODULE GraphCommand ----------------------------
(***************************************************************************)
(* ksactl graph, cmd/cli/graph.go: one FetchResourceGraph call, whose      *)
(* handler's callback includes everything, and the tree printed of the     *)
(* answer.  What is printed of a node is its path from a root.             *)
(***************************************************************************)
EXTENDS GraphWalk

CONSTANT MaxDepth      \* bound: the length of a path printed

ASSUME DepthAssumption == MaxDepth \in Nat

VARIABLES
    command,    \* "waiting" for the answer, "printing", "ended", "error"
    nodes,      \* the items in printGraph's map, which UIDs are the keys of
    toPrint,    \* the paths that calls of printNode are still to print
    printed     \* the paths printed

commandVars == <<command, nodes, toPrint, printed>>

(* The handler's callback. *)
ServerCallback == {"Include"}

Waiting == callback = ServerCallback /\ command = "waiting"

(* The handler returns the walk's error, or the connection breaks at any   *)
(* time, which the walk need not notice.                                   *)
CallFails ==
    /\ Waiting
    /\ command' = "error"
    /\ UNCHANGED <<nodes, toPrint, printed>>

NothingFound ==
    /\ Waiting
    /\ pc = "done" /\ collection = <<>>
    /\ command' = "ended"
    /\ UNCHANGED <<nodes, toPrint, printed>>

(* Of the items with one UID the last stays in the map. *)
NodesOf(items) ==
    {items[i] : i \in {j \in DOMAIN items :
                          \A k \in DOMAIN items : items[k].uid = items[j].uid => k <= j}}

ChildrenOf(N, r) == {s \in N : r.uid \in s.owners}

(* Mutant: a node whose owner is not in the answer is no root. *)
OwnerlessOf(N) == {s \in N : s.owners = {}}

(* The nodes that are no node's child. *)
TreeRoots(N) == {s \in N : \A r \in N : s \notin ChildrenOf(N, r)}

BuildTree ==
    /\ Waiting
    /\ pc = "done" /\ collection # <<>>
    /\ command' = "printing"
    /\ nodes' = NodesOf(collection)
    /\ toPrint' = {<<r>> : r \in TreeRoots(nodes')}
    /\ UNCHANGED printed

(* Depth first, siblings in any order: that of a map. *)
NextPaths == {p \in toPrint : \A q \in toPrint : Len(p) >= Len(q)}

(* Mutant: owners are printed below a node as well. *)
DescendToRelatives(path) ==
    {Append(path, s) : s \in {t \in nodes : Related(t, Last(path))}}

Descend(path) == {Append(path, s) : s \in ChildrenOf(nodes, Last(path))}

(* A line, and below it the children of the node. *)
PrintNode(path) ==
    /\ command = "printing"
    /\ path \in NextPaths /\ Len(path) <= MaxDepth
    /\ printed' = printed \union {path}
    /\ toPrint' = (toPrint \ {path}) \union Descend(path)
    /\ UNCHANGED <<command, nodes>>

Printed ==
    /\ command = "printing" /\ toPrint = {}
    /\ command' = "ended"
    /\ UNCHANGED <<nodes, toPrint, printed>>

Command ==
    \/ CallFails \/ NothingFound \/ BuildTree \/ Printed
    \/ \E path \in toPrint : PrintNode(path)

CommandInit ==
    /\ Init
    /\ command = "waiting"
    /\ nodes = {} /\ toPrint = {} /\ printed = {}

CommandNext ==
    \/ Next /\ UNCHANGED commandVars
    \/ Command /\ UNCHANGED vars

CommandSpec == CommandInit /\ [][CommandNext]_<<vars, commandVars>>

(* The handler's goroutine and the command keep running. *)
FairSpec ==
    /\ CommandSpec
    /\ WF_<<vars, commandVars>>(Walk /\ UNCHANGED commandVars)
    /\ WF_<<vars, commandVars>>(Command /\ UNCHANGED vars)

(***************************************************************************)
(* Properties.                                                             *)
(***************************************************************************)

(* Owner references within N lead to no node twice. *)
Acyclic(N) ==
    \A C \in SUBSET N \ {{}} : \E s \in C : \A r \in C : s \notin ChildrenOf(N, r)

(* No UID of one cluster is that of an object, or of an owner, of another. *)
UIDsOfOneCluster(N) ==
    \A r, s \in N : r.cluster # s.cluster => r.uid # s.uid /\ r.uid \notin s.owners

(* If clusters share no UIDs and owner references form no cycle, the tree  *)
(* shows every item of the answer, below every owner that is in the answer *)
(* and nowhere else, and joins no two clusters (graph.go:76-156).          *)
TreeShowsAnswer ==
    LET items == ToSet(collection) IN
    (command = "ended" /\ UIDsOfOneCluster(items) /\ Acyclic(items)) =>
        /\ \A s \in items : \E p \in printed : Last(p) = s
        /\ \A r, s \in items :
              (r.cluster = s.cluster /\ r.uid \in s.owners) <=>
                  \E p \in printed : Len(p) > 1 /\ Last(p) = s /\ p[Len(p) - 1] = r
        /\ \A p \in printed : \A i \in DOMAIN p : p[i].cluster = p[1].cluster

(* The command ends, unless the items' owner references form a cycle, on   *)
(* which printNode (graph.go:153-155) calls itself for ever.               *)
CommandEnds ==
    callback = ServerCallback ~> (command \in {"ended", "error"} \/ ~Acyclic(nodes))
=============================================================================
