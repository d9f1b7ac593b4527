------------------------------ MODULE GVRSync -------------------------------
(***************************************************************************)
(* The pipeline a ClusterSyncer runs for one discovered resource type      *)
(* (the goroutine of pkg/sync/syncer.go): API server, Reflector,           *)
(* DeltaFIFO, Process function with its event handlers, DirectStore,       *)
(* datastore.                                                              *)
(*                                                                         *)
(* Pop holds the queue's lock while Process runs, so while processing is   *)
(* not idle neither the Reflector nor HasSynced gets to the queue.  The    *)
(* datastore calls of one Process run are separate steps: the process may  *)
(* crash between them.                                                     *)
(***************************************************************************)
EXTENDS ClusterAPI, DeltaFIFO, DirectStore

CONSTANTS
    Namespaces,   \* the namespaces of the cluster
    NamespaceOf,  \* the namespace of each key
    Configs,      \* the sets of namespaces the filters may select
    StaleLists,   \* may a first List be served from an old snapshot?
    MaxFaults     \* bound: how often the process may crash, a datastore
                  \* call may fail, a watch may break

FaultKinds == {"crash", "db", "relist"}

ASSUME SyncAssumption ==
    /\ NamespaceOf \in [Keys -> Namespaces]
    /\ Configs \subseteq SUBSET Namespaces
    /\ StaleLists \in BOOLEAN
    /\ MaxFaults \in [FaultKinds -> Nat]

VARIABLES
    phase,        \* "down", "running", "gaveup" (InitializeKeys failed)
    included,     \* the namespaces MatchesNamespace accepts in this run
    pos,          \* the Reflector's last resource version, 0 before a List
    base,         \* history: the resource version of the run's first List
    processing,   \* the deltas popped and not yet handled, per key
    faults

vars == <<hist, queue, items, populated, initial, rows, keys, failed,
          phase, included, pos, base, processing, faults>>

Idle == \A k \in Keys : processing[k] = <<>>

Fault(kind) ==
    /\ faults[kind] < MaxFaults[kind]
    /\ faults' = [faults EXCEPT ![kind] = @ + 1]

Init ==
    /\ ClusterInit /\ FifoInit /\ StoreInit
    /\ phase = "down"
    /\ included \in Configs
    /\ pos = 0
    /\ base = 0
    /\ processing = [k \in Keys |-> <<>>]
    /\ faults = [f \in FaultKinds |-> 0]

(***************************************************************************)
(* Life of the process.                                                    *)
(***************************************************************************)

(* The daemon starts, possibly with an edited configuration, and loads the *)
(* keys of this type.                                                      *)
Start ==
    /\ phase = "down"
    /\ InitializeKeys
    /\ phase' = "running"
    /\ included' \in Configs
    /\ UNCHANGED <<hist, fifoVars, pos, base, processing, faults>>

(* InitializeKeys returned an error: the goroutine ends and nothing        *)
(* watches this type until the next start.                                 *)
StartFails ==
    /\ phase = "down"
    /\ Fault("db")
    /\ phase' = "gaveup"
    /\ UNCHANGED <<hist, fifoVars, storeVars, included, pos, base, processing>>

(* A crash, or a shutdown: everything but the datastore is gone. *)
Crash ==
    /\ phase # "down"
    /\ Fault("crash")
    /\ FifoReset /\ StoreReset
    /\ phase' = "down"
    /\ pos' = 0
    /\ processing' = [k \in Keys |-> <<>>]
    /\ UNCHANGED <<hist, included, base>>

(***************************************************************************)
(* Reflector.                                                              *)
(***************************************************************************)

List(n) ==
    /\ phase = "running"
    /\ Idle
    /\ FifoReplace(hist[n], keys)
    /\ pos' = n
    /\ UNCHANGED <<hist, storeVars, phase, included, processing>>

(* A consistent List returns the current content.  One served from the API *)
(* server's cache may return any earlier content.                          *)
FirstList ==
    /\ pos = 0
    /\ \E n \in (IF StaleLists THEN 1 ELSE Len(hist)) .. Len(hist) :
          List(n) /\ base' = n
    /\ UNCHANGED faults

(* The watch broke with its resource version expired: list again, not      *)
(* older than what was seen.                                               *)
Relist ==
    /\ pos > 0
    /\ Fault("relist")
    /\ \E n \in pos .. Len(hist) : List(n)
    /\ UNCHANGED base

(* The change from the Reflector's position to the next version is one of  *)
(* the object k.                                                           *)
Event(k) ==
    /\ hist[pos + 1] = [hist[pos] EXCEPT ![k] = hist[pos + 1][k]]
    /\ hist[pos + 1][k] # hist[pos][k]

(* One watch event. *)
Watch ==
    /\ phase = "running"
    /\ Idle
    /\ pos > 0
    /\ pos < Len(hist)
    /\ \E k \in Keys :
          /\ Event(k)
          /\ IF hist[pos + 1][k] = Absent
             THEN FifoDelete(k, keys)
             ELSE FifoPut(k, hist[pos + 1][k])
    /\ pos' = pos + 1
    /\ UNCHANGED <<hist, storeVars, phase, included, base, processing, faults>>

(***************************************************************************)
(* Process and the event handlers.                                         *)
(***************************************************************************)

Pop ==
    /\ phase = "running"
    /\ Idle
    /\ FifoPop
    /\ processing' = [processing EXCEPT ![Head(queue)] = items[Head(queue)]]
    /\ UNCHANGED <<hist, storeVars, phase, included, pos, base, faults>>

MatchesNamespace(k) == NamespaceOf[k] \in included

(* Mutant: objects of excluded namespaces are stored as well. *)
AddFuncUnfiltered(k, rv) == Update(k, rv) /\ UNCHANGED faults

AddFunc(k, rv) ==
    IF MatchesNamespace(k)
    THEN \/ Update(k, rv) /\ UNCHANGED faults
         \/ UpdateError(k, rv) /\ Fault("db")
    ELSE UNCHANGED <<storeVars, faults>>

(* Mutant: an object that no longer matches the filter is left alone. *)
UpdateFuncIgnoresUnmatched(k, rv) ==
    IF MatchesNamespace(k)
    THEN Update(k, rv) /\ UNCHANGED faults
    ELSE UNCHANGED <<storeVars, faults>>

(* An object that no longer matches the filter is deleted; Process calls   *)
(* this handler for known keys only.                                       *)
UpdateFunc(k, rv) ==
    IF MatchesNamespace(k)
    THEN \/ Update(k, rv) /\ UNCHANGED faults
         \/ UpdateError(k, rv) /\ Fault("db")
    ELSE \/ Delete(k, FALSE) /\ UNCHANGED faults
         \/ DeleteError(k) /\ Fault("db")

DeleteFunc(k, tombstone) ==
    \/ Delete(k, tombstone) /\ UNCHANGED faults
    \/ DeleteError(k) /\ Fault("db")

(* The switch of Process over the delta's type and the key map.            *)
Handle(k, d) ==
    IF IsDeletion(d) THEN DeleteFunc(k, d.type = "tombstone")
    ELSE IF k \in keys THEN UpdateFunc(k, d.rv)
    ELSE AddFunc(k, d.rv)

(* Mutant: the loop over the popped deltas starts with the newest. *)
ProcessNewestFirst(k) ==
    /\ phase = "running"
    /\ processing[k] # <<>>
    /\ Handle(k, Last(processing[k]))
    /\ processing' = [processing EXCEPT ![k] = Front(@)]
    /\ UNCHANGED <<hist, fifoVars, phase, included, pos, base>>

(* The handling of one delta of the key whose deltas were popped.  A       *)
(* handler's error is logged and the delta is gone.                        *)
Process(k) ==
    /\ phase = "running"
    /\ processing[k] # <<>>
    /\ Handle(k, Head(processing[k]))
    /\ processing' = [processing EXCEPT ![k] = Tail(@)]
    /\ UNCHANGED <<hist, fifoVars, phase, included, pos, base>>

(***************************************************************************)
(* Specification.                                                          *)
(***************************************************************************)

(* The cluster's users. *)
Cluster ==
    /\ ApiNext
    /\ UNCHANGED <<fifoVars, storeVars, phase, included, pos, base, processing, faults>>

Next ==
    \/ Cluster
    \/ Start \/ StartFails \/ Crash
    \/ FirstList \/ Relist \/ Watch
    \/ Pop \/ \E k \in Keys : Process(k)

Spec == Init /\ [][Next]_vars

(* The daemon is started again after a crash; while it runs, the           *)
(* Reflector's goroutine and the process loop's goroutine keep running.    *)
Fairness ==
    /\ WF_vars(Start)
    /\ WF_vars(FirstList)
    /\ WF_vars(Watch)
    /\ WF_vars(Pop)
    /\ \A k \in Keys : WF_vars(Process(k))

FairSpec == Spec /\ Fairness

(***************************************************************************)
(* Properties.                                                             *)
(***************************************************************************)

TypeOK ==
    /\ hist \in Seq([Keys -> Nat]) \ {<<>>}
    /\ queue \in Seq(Keys)
    /\ items \in [Keys -> Seq(Delta)]
    /\ populated \in BOOLEAN
    /\ initial \in Nat
    /\ rows \in [Keys -> Nat]
    /\ keys \subseteq Keys
    /\ failed \subseteq Keys
    /\ phase \in {"down", "running", "gaveup"}
    /\ included \in Configs
    /\ pos \in 0 .. Len(hist)
    /\ base \in 0 .. Len(hist)
    /\ processing \in [Keys -> Seq(Delta)]
    /\ faults \in [FaultKinds -> Nat]

(* What the row of k should be when the cluster is at version n. *)
Want(k, n) == IF MatchesNamespace(k) THEN hist[n][k] ELSE NoRow

Settled(k) == items[k] = <<>> /\ processing[k] = <<>>

(* Once the type has been listed, a key with nothing left to handle has    *)
(* exactly the row the filters and the Reflector's position call for, and  *)
(* so has no row if the object is gone, excluded, or went away while the   *)
(* process was down - unless its last datastore call failed, since         *)
(* handlers only log errors (syncer.go:138-204).                           *)
Mirror ==
    (phase = "running" /\ pos > 0) =>
        \A k \in Keys \ failed : Settled(k) => rows[k] = Want(k, pos)

(* The key map knows every row, or deletions would be missed: the queue    *)
(* drops the deletion of a key it does not know.  Only an upsert that took *)
(* effect and still returned an error (store.go:75-77) leaves an unknown   *)
(* row.                                                                    *)
TrackedRows ==
    phase = "running" =>
        \A k \in Keys : rows[k] # NoRow =>
            k \in keys \/ (k \in failed /\ "applied" \in ErrorOutcomes)

(* When a controller reports HasSynced (syncer_hassynced.go:10-16), every  *)
(* row shows a version of the cluster no older than the first list: both   *)
(* the listed objects and the deletions the list revealed are handled.     *)
InitialSyncReconciled ==
    (phase = "running" /\ FifoHasSynced /\ Idle) =>
        \A k \in Keys \ failed : \E n \in base .. pos : rows[k] = Want(k, n)

(* A key the store claims to hold (store.go:185: "Returning exists=true    *)
(* satisfies processDeltas so it can decide between Add/Update") has a     *)
(* row, once its deltas are handled without error.                         *)
KnownKeysHaveRows ==
    (phase = "running" /\ pos > 0) =>
        \A k \in keys \ failed : Settled(k) => rows[k] # NoRow

(* The Reflector has no event left to read, no key is queued and no delta  *)
(* is being processed: until the cluster changes, the watch breaks or the  *)
(* process ends, nothing happens any more.                                 *)
AtRest ==
    /\ phase = "running" /\ pos > 0
    /\ Idle /\ queue = <<>>
    /\ ~(pos < Len(hist) /\ \E k \in Keys : Event(k))

(* The pipeline comes to rest only when its work is done: every row whose  *)
(* last datastore call succeeded is as the cluster and the filters call    *)
(* for now.  No delta waits under a key that is not queued, no change of   *)
(* the cluster is passed over, no row outlives its object.                 *)
RestsOnlyWhenMirrored ==
    AtRest => \A k \in Keys \ failed : rows[k] = Want(k, Len(hist))

(* The datastore holds what the cluster holds now. *)
Mirrored ==
    phase = "running" /\ \A k \in Keys : rows[k] = Want(k, Len(hist))

(* A start after the last datastore failure repairs whatever failures,     *)
(* crashes and missed events had left wrong: in the end the datastore      *)
(* holds what the cluster holds, and keeps it ("Automated State            *)
(* Reconciliation", README.md).                                            *)
RestartHeals ==
    (phase = "down" /\ faults["db"] = MaxFaults["db"]) ~> []Mirrored

(* Handling d leaves key k as it is at version n. *)
Reaches(d, k, n) ==
    IF IsDeletion(d) THEN hist[n][k] = Absent ELSE d.rv = hist[n][k]

(* The keys with no delta, waiting or being processed, that is only known  *)
(* from versions older than the row; the Reflector has got to the row.     *)
CaughtUp ==
    {k \in Keys :
        /\ rows[k] <= pos
        /\ \A d \in ToSet(items[k]) \union ToSet(processing[k]) :
              \E n \in base .. pos : n >= rows[k] /\ Reaches(d, k, n)}

Following ==
    IF pos > 0 THEN CaughtUp ELSE IF StaleLists THEN {} ELSE Keys

(* Every write is one the abstract mirror allows: a row goes back to an    *)
(* older version only with its first write after a start whose first list  *)
(* was stale (syncer.go:99-239).                                           *)
Abstract == INSTANCE StateMirror WITH horizon <- base, following <- Following

ImplementsMirror == Abstract!Spec
=============================================================================
