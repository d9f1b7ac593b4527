----------------------------- MODULE DeltaFIFO ------------------------------
(***************************************************************************)
(* The queue between the Reflector and the controller's Process function   *)
(* (external: cache.DeltaFIFO of client-go, modelled from how              *)
(* pkg/sync/syncer.go builds it: KnownObjects is the DirectStore, the key  *)
(* function accepts tombstones, Process never returns an error).           *)
(*                                                                         *)
(* items[k] lists the deltas waiting for key k, queue the order in which   *)
(* keys with deltas are popped.                                            *)
(***************************************************************************)
EXTENDS Integers, Sequences, SequencesExt, ResourceKeys

VARIABLES queue, items, populated, initial

fifoVars == <<queue, items, populated, initial>>

(* A "put" stands for Sync, Replaced, Added and Updated, which Process     *)
(* treats alike.  A "tombstone" is a Deleted delta whose object is a       *)
(* DeletedFinalStateUnknown.                                               *)
Put(rv)   == [type |-> "put", rv |-> rv]
Deleted   == [type |-> "deleted", rv |-> 0]
Tombstone == [type |-> "tombstone", rv |-> 0]

Delta == [type : {"put", "deleted", "tombstone"}, rv : Nat]

IsDeletion(d) == d.type # "put"

(* queueActionInternalLocked with dedupDeltas: two deletions in a row      *)
(* become one, and of a deletion and a tombstone the former is kept.       *)
WithDelta(deltas, d) ==
    IF deltas # <<>> /\ IsDeletion(d) /\ IsDeletion(Last(deltas))
    THEN IF d.type = "tombstone" THEN deltas ELSE [deltas EXCEPT ![Len(deltas)] = d]
    ELSE Append(deltas, d)

FifoInit ==
    /\ queue = <<>>
    /\ items = [k \in Keys |-> <<>>]
    /\ populated = FALSE
    /\ initial = 0

QueueAction(k, d) ==
    /\ items' = [items EXCEPT ![k] = WithDelta(@, d)]
    /\ queue' = IF items[k] = <<>> THEN Append(queue, k) ELSE queue
    /\ populated' = TRUE
    /\ UNCHANGED initial

(* Add and Update. *)
FifoPut(k, rv) == QueueAction(k, Put(rv))

(* Delete: skipped for a key that is neither known nor waiting. *)
FifoDelete(k, known) ==
    IF k \in known \/ items[k] # <<>>
    THEN QueueAction(k, Deleted)
    ELSE populated' = TRUE /\ UNCHANGED <<queue, items, initial>>

(* Mutant: deletions are detected among the waiting keys only, not among   *)
(* the known objects.                                                      *)
MissingFromQueueOnly(list, known) == {k \in Keys : list[k] = 0 /\ items[k] # <<>>}

(* The keys a Replace with this list has to report as deleted. *)
Missing(list, known) == {k \in Keys : list[k] = 0 /\ (items[k] # <<>> \/ k \in known)}

(* The number of keys to be popped before HasSynced. *)
InitialPopulation(listed, missing) == Cardinality(listed) + Cardinality(missing)

(* Replace: one delta for every listed object, one tombstone for every     *)
(* missing one.                                                            *)
FifoReplace(list, known) ==
    LET listed   == {k \in Keys : list[k] # 0}
        missing  == Missing(list, known)
        Fresh(S) == {k \in S : items[k] = <<>>}
    IN  /\ items' = [k \in Keys |->
                        IF k \in listed THEN WithDelta(items[k], Put(list[k]))
                        ELSE IF k \in missing THEN WithDelta(items[k], Tombstone)
                        ELSE items[k]]
        /\ \E p \in SetToSeqs(Fresh(listed)), q \in SetToSeqs(Fresh(missing)) :
              queue' = queue \o p \o q
        /\ populated' = TRUE
        /\ initial' = IF populated THEN initial
                      ELSE InitialPopulation(listed, missing)

(* Mutant: the count of the initial population is not stopped at zero. *)
FifoPopUnbounded ==
    /\ queue # <<>>
    /\ queue' = Tail(queue)
    /\ items' = [items EXCEPT ![Head(queue)] = <<>>]
    /\ initial' = initial - 1
    /\ UNCHANGED populated

(* Pop removes the key at the head; its deltas go to Process. *)
FifoPop ==
    /\ queue # <<>>
    /\ queue' = Tail(queue)
    /\ items' = [items EXCEPT ![Head(queue)] = <<>>]
    /\ initial' = IF initial > 0 THEN initial - 1 ELSE 0
    /\ UNCHANGED populated

FifoHasSynced == populated /\ initial = 0

FifoReset ==
    /\ queue' = <<>>
    /\ items' = [k \in Keys |-> <<>>]
    /\ populated' = FALSE
    /\ initial' = 0
=============================================================================
