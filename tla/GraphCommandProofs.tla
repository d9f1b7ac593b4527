------------------------ MODULE GraphCommandProofs -------------------------
(***************************************************************************)
(* Proofs about ksactl graph, for any rows, root, callbacks and number of  *)
(* changes of the table, and any depth of the tree.                        *)
(***************************************************************************)
EXTENDS GraphCommand, GraphWalkProofs

(***************************************************************************)
(* The inductive invariant.                                                *)
(***************************************************************************)

(* Nothing is printed before there is a tree, which is that of the answer. *)
Answered ==
    /\ command \in {"waiting", "printing", "ended", "error"}
    /\ command \in {"waiting", "error"} => toPrint = {} /\ printed = {}
    /\ command \in {"printing", "ended"} => pc = "done"
    /\ command = "printing" => collection # <<>> /\ nodes = NodesOf(collection)
    /\ command = "ended" =>
          /\ toPrint = {}
          /\ IF collection = <<>> THEN printed = {} ELSE nodes = NodesOf(collection)

(* Every root, and every child of a printed node, is printed or will be.   *)
NothingForgotten ==
    (command \in {"printing", "ended"} /\ collection # <<>>) =>
        /\ \A r \in TreeRoots(nodes) : <<r>> \in printed \union toPrint
        /\ \A p \in printed : Descend(p) \subseteq printed \union toPrint

(* A path goes from owners to dependents, and stays in its cluster if      *)
(* clusters share no UIDs.                                                 *)
IsPath(p) ==
    /\ p \in Seq(nodes) /\ Len(p) > 0
    /\ Len(p) > 1 => Last(p) \in ChildrenOf(nodes, p[Len(p) - 1])
    /\ UIDsOfOneCluster(nodes) => \A i \in DOMAIN p : p[i].cluster = p[1].cluster

OnlyPaths == \A p \in printed \union toPrint : IsPath(p)

TreeInv == Answered /\ NothingForgotten /\ OnlyPaths

(***************************************************************************)
(* Lemmas.                                                                 *)
(***************************************************************************)

LEMMA NodesAreItems == ASSUME NEW items PROVE NodesOf(items) \subseteq ToSet(items)
  BY DEF NodesOf, ToSet

(* If no two clusters share a UID, the map of the command holds every item *)
(* of an answer that holds each key once.                                  *)
LEMMA AllItemsAreNodes ==
    ASSUME TypeOK, OncePerKey, UIDsOfOneCluster(ToSet(collection))
    PROVE  NodesOf(collection) = ToSet(collection)
  <1>1. ASSUME NEW i \in DOMAIN collection, NEW k \in DOMAIN collection,
               collection[k].uid = collection[i].uid
        PROVE  k = i
    <2>1. collection[k].cluster = collection[i].cluster
      BY <1>1 DEF UIDsOfOneCluster, ToSet
    <2> QED BY <1>1, <2>1 DEF OncePerKey, Key
  <1>2. \A i \in DOMAIN collection : i \in Nat
    BY DEF TypeOK
  <1>3. ToSet(collection) \subseteq NodesOf(collection)
    BY <1>1, <1>2 DEF ToSet, NodesOf
  <1> QED BY <1>3, NodesAreItems

LEMMA RootIsPath == ASSUME NEW r \in nodes PROVE IsPath(<<r>>)
  BY DEF IsPath

LEMMA DescentIsPath ==
    ASSUME NEW p, IsPath(p), NEW q \in Descend(p) PROVE IsPath(q)
  <1>1. PICK s \in ChildrenOf(nodes, Last(p)) : q = Append(p, s)
    BY DEF Descend
  <1>2. s \in nodes /\ Last(p) \in nodes /\ Last(p).uid \in s.owners
    BY <1>1 DEF ChildrenOf, IsPath, Last
  <1>3. p \in Seq(nodes) /\ Len(p) \in Nat /\ Len(p) > 0
    BY DEF IsPath
  <1>4. /\ q \in Seq(nodes) /\ Len(q) = Len(p) + 1
        /\ q[Len(p) + 1] = s /\ \A i \in 1 .. Len(p) : q[i] = p[i]
    BY <1>1, <1>2, <1>3
  <1>5. Last(q) = s /\ q[Len(q) - 1] = Last(p)
    BY <1>3, <1>4 DEF Last
  <1>6. ASSUME UIDsOfOneCluster(nodes), NEW i \in DOMAIN q PROVE q[i].cluster = q[1].cluster
    <2>1. s.cluster = Last(p).cluster
      BY <1>2, <1>6 DEF UIDsOfOneCluster
    <2>2. \A j \in 1 .. Len(p) : p[j].cluster = p[1].cluster
      BY <1>3, <1>6 DEF IsPath
    <2>3. Last(p).cluster = p[1].cluster /\ q[1] = p[1]
      BY <1>3, <1>4, <2>2 DEF Last
    <2>4. i \in 1 .. Len(p) \/ i = Len(p) + 1
      BY <1>3, <1>4
    <2> QED BY <1>4, <2>1, <2>2, <2>3, <2>4
  <1> QED BY <1>1, <1>3, <1>4, <1>5, <1>6 DEF IsPath

(***************************************************************************)
(* The command does not disturb the walk.                                  *)
(***************************************************************************)

LEMMA CommandStep == [CommandNext]_<<vars, commandVars>> => [Next]_vars
  BY DEF CommandNext

(* A command, whenever it gives up or prints, leaves the walk in the       *)
(* server as it is: what is proved of a walk holds of the walk of a        *)
(* command (graph.go:40-52).                                               *)
THEOREM CommandWalks == CommandSpec => Spec
  <1>1. CommandInit => Init
    BY DEF CommandInit
  <1> QED BY <1>1, CommandStep, PTL DEF CommandSpec, Spec

(***************************************************************************)
(* The invariant holds at the start and is kept by every step.             *)
(***************************************************************************)

LEMMA InitTree == CommandInit => TreeInv
  BY DEF CommandInit, TreeInv, Answered, NothingForgotten, OnlyPaths

(* A walk that is done has stopped, and so has its table.                  *)
LEMMA WalkStep == TreeInv /\ Next /\ UNCHANGED commandVars => TreeInv'
  <1> SUFFICES ASSUME TreeInv, Next, UNCHANGED commandVars PROVE TreeInv'
    OBVIOUS
  <1>1. UNCHANGED <<command, nodes, toPrint, printed>>
    BY DEF commandVars
  <1>2. pc = "done" => UNCHANGED <<pc, collection>>
    BY DEF Next, Worker, UpsertResource, DeleteResource, SetTable, Walk, FetchRoots, Visit,
           LayerVisited, FetchParents, FetchChildren, QueryFails, NextLayer
  <1>3. command \in {"printing", "ended"} => UNCHANGED <<pc, collection>>
    BY <1>2 DEF TreeInv, Answered
  <1>4. Answered'
    BY <1>1, <1>3 DEF TreeInv, Answered
  <1>5. NothingForgotten'
    BY <1>1, <1>3 DEF TreeInv, NothingForgotten, Descend
  <1>6. OnlyPaths'
    BY <1>1 DEF TreeInv, OnlyPaths, IsPath
  <1> QED BY <1>4, <1>5, <1>6 DEF TreeInv

LEMMA BuildTreeStep == TreeInv /\ BuildTree /\ UNCHANGED vars => TreeInv'
  <1> SUFFICES ASSUME TreeInv, BuildTree, UNCHANGED vars PROVE TreeInv'
    OBVIOUS
  <1>1. /\ command = "waiting" /\ command' = "printing"
        /\ pc' = "done" /\ collection' = collection /\ collection # <<>>
        /\ nodes' = NodesOf(collection)
        /\ toPrint' = {<<r>> : r \in TreeRoots(nodes')}
        /\ printed = {} /\ printed' = {}
    BY DEF BuildTree, Waiting, TreeInv, Answered, vars, walkVars
  <1>2. Answered' /\ NothingForgotten'
    BY <1>1 DEF Answered, NothingForgotten
  <1>3. OnlyPaths'
    <2> SUFFICES ASSUME NEW p \in toPrint' PROVE IsPath(p)'
      BY <1>1 DEF OnlyPaths
    <2>1. PICK r \in nodes' : p = <<r>>
      BY <1>1 DEF TreeRoots
    <2> QED BY <2>1 DEF IsPath
  <1> QED BY <1>2, <1>3 DEF TreeInv

LEMMA PrintNodeStep ==
    ASSUME TreeInv, NEW path \in toPrint, PrintNode(path), UNCHANGED vars PROVE TreeInv'
  <1>1. /\ command = "printing" /\ UNCHANGED <<command, nodes, pc, collection>>
        /\ printed' = printed \union {path}
        /\ toPrint' = (toPrint \ {path}) \union Descend(path)
    BY DEF PrintNode, vars, walkVars
  <1>2. Answered'
    BY <1>1 DEF TreeInv, Answered
  <1>3. NothingForgotten'
    <2>1. \A p : Descend(p)' = Descend(p)
      BY <1>1 DEF Descend
    <2>2. printed \union toPrint \subseteq printed' \union toPrint'
      BY <1>1
    <2>3. Descend(path) \subseteq printed' \union toPrint'
      BY <1>1
    <2> QED BY <1>1, <2>1, <2>2, <2>3 DEF TreeInv, NothingForgotten
  <1>4. OnlyPaths'
    <2>1. \A p \in printed' \union toPrint' : p \in printed \union toPrint \union Descend(path)
      BY <1>1
    <2>2. \A p \in printed \union toPrint \union Descend(path) : IsPath(p)
      BY DescentIsPath DEF TreeInv, OnlyPaths
    <2> QED BY <1>1, <2>1, <2>2 DEF OnlyPaths, IsPath
  <1> QED BY <1>2, <1>3, <1>4 DEF TreeInv

LEMMA OtherCommandSteps ==
    TreeInv /\ (CallFails \/ NothingFound \/ Printed) /\ UNCHANGED vars => TreeInv'
  <1> SUFFICES ASSUME TreeInv, CallFails \/ NothingFound \/ Printed, UNCHANGED vars
               PROVE  TreeInv'
    OBVIOUS
  <1>1. UNCHANGED <<nodes, toPrint, printed, pc, collection>>
    BY DEF CallFails, NothingFound, Printed, vars, walkVars
  <1>2. Answered'
    BY <1>1 DEF CallFails, NothingFound, Printed, Waiting, TreeInv, Answered
  <1>3. NothingForgotten'
    BY <1>1 DEF CallFails, NothingFound, Printed, Waiting, TreeInv, NothingForgotten, Descend
  <1>4. OnlyPaths'
    BY <1>1 DEF TreeInv, OnlyPaths, IsPath
  <1> QED BY <1>2, <1>3, <1>4 DEF TreeInv

LEMMA NextTree == TreeInv /\ [CommandNext]_<<vars, commandVars>> => TreeInv'
  <1> SUFFICES ASSUME TreeInv, [CommandNext]_<<vars, commandVars>> PROVE TreeInv'
    OBVIOUS
  <1>1. CASE UNCHANGED <<vars, commandVars>>
    BY <1>1 DEF TreeInv, Answered, NothingForgotten, OnlyPaths, IsPath, Descend,
                vars, walkVars, commandVars
  <1>2. CASE Next /\ UNCHANGED commandVars
    BY <1>2, WalkStep
  <1>3. CASE Command /\ UNCHANGED vars
    BY <1>3, BuildTreeStep, PrintNodeStep, OtherCommandSteps DEF Command
  <1> QED BY <1>1, <1>2, <1>3 DEF CommandNext

LEMMA TreeInvariance == CommandSpec => []TreeInv
  BY InitTree, NextTree, PTL DEF CommandSpec

(***************************************************************************)
(* Theorem.                                                                *)
(***************************************************************************)

(* Take the items at which no printed path ends.  In an answer without     *)
(* cycles one of them has no owner among them; but then it is a root, or   *)
(* the child of a node that was printed.                                   *)
LEMMA EveryItemPrinted ==
    ASSUME TreeInv, command = "ended", collection # <<>>, Acyclic(nodes), NEW s \in nodes
    PROVE  \E p \in printed : Last(p) = s
  <1> DEFINE C == {t \in nodes : \A p \in printed : Last(p) # t}
  <1> SUFFICES ASSUME C # {} PROVE FALSE
    OBVIOUS
  <1>1. PICK t \in C : \A r \in C : t \notin ChildrenOf(nodes, r)
    BY DEF Acyclic
  <1>2. toPrint = {}
    BY DEF TreeInv, Answered
  <1>3. CASE t \in TreeRoots(nodes)
    <2>1. <<t>> \in printed
      BY <1>2, <1>3 DEF TreeInv, NothingForgotten
    <2> QED BY <2>1 DEF Last
  <1>4. CASE t \notin TreeRoots(nodes)
    <2>1. PICK r \in nodes : t \in ChildrenOf(nodes, r)
      BY <1>4 DEF TreeRoots
    <2>2. PICK p \in printed : Last(p) = r
      BY <1>1, <2>1
    <2>3. Append(p, t) \in printed
      BY <1>2, <2>1, <2>2 DEF TreeInv, NothingForgotten, Descend
    <2>4. p \in Seq(nodes)
      BY <2>2 DEF TreeInv, OnlyPaths, IsPath
    <2>5. Last(Append(p, t)) = t
      BY <2>4 DEF Last
    <2> QED BY <2>3, <2>5
  <1> QED BY <1>3, <1>4

LEMMA TreeIfInv == IInv /\ TreeInv => TreeShowsAnswer
  <1> DEFINE items == ToSet(collection)
  <1> SUFFICES ASSUME IInv, TreeInv, command = "ended",
                      UIDsOfOneCluster(items), Acyclic(items)
               PROVE  /\ \A s \in items : \E p \in printed : Last(p) = s
                      /\ \A r, s \in items :
                            (r.cluster = s.cluster /\ r.uid \in s.owners) <=>
                                \E p \in printed :
                                    Len(p) > 1 /\ Last(p) = s /\ p[Len(p) - 1] = r
                      /\ \A p \in printed : \A i \in DOMAIN p : p[i].cluster = p[1].cluster
    BY DEF TreeShowsAnswer
  <1>1. CASE collection = <<>>
    <2>1. items = {} /\ printed = {}
      BY <1>1 DEF ToSet, TreeInv, Answered
    <2> QED BY <2>1
  <1>2. CASE collection # <<>>
    <2>1. nodes = items
      BY <1>2, AllItemsAreNodes DEF TreeInv, Answered, IInv
    <2>2. toPrint = {} /\ \A p \in printed : IsPath(p)
      BY DEF TreeInv, Answered, OnlyPaths
    <2>3. \A s \in items : \E p \in printed : Last(p) = s
      BY <1>2, <2>1, EveryItemPrinted
    <2>4. ASSUME NEW r \in items, NEW s \in items, r.uid \in s.owners
          PROVE  \E p \in printed : Len(p) > 1 /\ Last(p) = s /\ p[Len(p) - 1] = r
      <3>1. PICK p \in printed : Last(p) = r
        BY <2>3
      <3>2. Append(p, s) \in printed
        BY <1>2, <2>1, <2>2, <2>4, <3>1 DEF TreeInv, NothingForgotten, Descend, ChildrenOf
      <3>3. p \in Seq(nodes) /\ Len(p) \in Nat /\ Len(p) > 0
        BY <2>2, <3>1 DEF IsPath
      <3>4. /\ Len(Append(p, s)) = Len(p) + 1
            /\ Append(p, s)[Len(p) + 1] = s /\ Append(p, s)[Len(p)] = p[Len(p)]
        BY <3>3
      <3>5. Len(p) + 1 > 1 /\ (Len(p) + 1) - 1 = Len(p)
        BY <3>3
      <3> DEFINE q == Append(p, s)
      <3>6. Len(q) > 1 /\ Last(q) = s /\ q[Len(q) - 1] = r
        BY <3>1, <3>4, <3>5 DEF Last
      <3> QED BY <3>2, <3>6
    <2>5. ASSUME NEW r \in items, NEW s \in items, NEW p \in printed,
                 Len(p) > 1, Last(p) = s, p[Len(p) - 1] = r
          PROVE  r.cluster = s.cluster /\ r.uid \in s.owners
      <3>1. r.uid \in s.owners
        BY <2>2, <2>5 DEF IsPath, ChildrenOf
      <3> QED BY <3>1 DEF UIDsOfOneCluster
    <2>6. \A p \in printed : \A i \in DOMAIN p : p[i].cluster = p[1].cluster
      BY <2>1, <2>2 DEF IsPath
    <2> QED BY <2>3, <2>4, <2>5, <2>6
  <1> QED BY <1>1, <1>2

(* Every item of an answer is printed, below each of its owners and below  *)
(* nothing else, however the answer was put together (graph.go:76-156).    *)
THEOREM TreeShows == CommandSpec => []TreeShowsAnswer
  BY CommandWalks, Invariance, TreeInvariance, TreeIfInv, PTL
=============================================================================
