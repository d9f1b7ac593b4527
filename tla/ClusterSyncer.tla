--------------------------- MODULE ClusterSyncer ----------------------------
(***************************************************************************)
(* The goroutines of pkg/sync that keep clusters in sync: one per active   *)
(* cluster, started by the Manager, and below it one per discovered        *)
(* resource type, whose inside is GVRSync.  They share a context that the  *)
(* daemon cancels, and the datastore.                                      *)
(***************************************************************************)
EXTENDS Naturals, FiniteSets

CONSTANTS
    Clusters,      \* the configured clusters
    ResourcesOf    \* of a cluster: the resource types its API server offers

ASSUME ClusterSyncerAssumption == IsFiniteSet(Clusters)

VARIABLES
    ctxDone,       \* the context is cancelled
    syncer,        \* the goroutine of a cluster
    worker,        \* the goroutine of a resource type of a cluster
    controllers,   \* cs.controllers
    synced         \* the controllers whose HasSynced is true

syncVars == <<syncer, worker, controllers, synced>>

Resources == UNION {ResourcesOf[c] : c \in Clusters}

Workers == Clusters \X Resources

WorkersOf(c) == {<<c, g>> : g \in ResourcesOf[c]}

SyncersInit ==
    /\ ctxDone = FALSE
    /\ syncer = [c \in Clusters |-> "none"]
    /\ worker = [w \in Workers |-> "none"]
    /\ controllers = [c \in Clusters |-> {}]
    /\ synced = [c \in Clusters |-> {}]

(* buildRESTConfig and the two client constructors. *)
Connect(c) ==
    /\ syncer[c] = "connecting"
    /\ \E outcome \in {"discovering", "returned"} :
          syncer' = [syncer EXCEPT ![c] = outcome]
    /\ UNCHANGED <<ctxDone, worker, controllers, synced>>

(* Start: discovery succeeds, and a goroutine is started for every         *)
(* resource type the filters let pass.                                     *)
Discover(c) ==
    /\ syncer[c] = "discovering"
    /\ syncer' = [syncer EXCEPT ![c] = "active"]
    /\ \E resources \in SUBSET ResourcesOf[c] :
          worker' = [w \in Workers |->
                        IF w[1] = c /\ w[2] \in resources THEN "starting" ELSE worker[w]]
    /\ UNCHANGED <<ctxDone, controllers, synced>>

(* Start returns the error; nobody calls it again. *)
DiscoveryFails(c) ==
    /\ syncer[c] = "discovering"
    /\ syncer' = [syncer EXCEPT ![c] = "returned"]
    /\ UNCHANGED <<ctxDone, worker, controllers, synced>>

InitializeKeysFails(c, g) ==
    /\ worker[<<c, g>>] = "starting"
    /\ worker' = [worker EXCEPT ![<<c, g>>] = "returned"]
    /\ UNCHANGED <<ctxDone, syncer, controllers, synced>>

(* Mutant: two goroutines append at once, and one controller is lost. *)
RegisterLost(c, g) ==
    /\ worker[<<c, g>>] = "starting"
    /\ worker' = [worker EXCEPT ![<<c, g>>] = "running"]
    /\ UNCHANGED <<ctxDone, syncer, controllers, synced>>

(* The keys are loaded; the controller is appended to cs.controllers and   *)
(* run.                                                                    *)
Register(c, g) ==
    /\ worker[<<c, g>>] = "starting"
    /\ worker' = [worker EXCEPT ![<<c, g>>] = "running"]
    /\ controllers' = [controllers EXCEPT ![c] = @ \union {g}]
    /\ UNCHANGED <<ctxDone, syncer, synced>>

(* The controller has handled its first list. *)
InitialSync(c, g) ==
    /\ worker[<<c, g>>] = "running"
    /\ g \notin synced[c]
    /\ synced' = [synced EXCEPT ![c] = @ \union {g}]
    /\ UNCHANGED <<ctxDone, syncer, worker, controllers>>

(* A datastore call of Process.  It uses context.Background(), so the      *)
(* cancelled context does not end it.                                      *)
BeginWrite(c, g) ==
    /\ worker[<<c, g>>] = "running"
    /\ worker' = [worker EXCEPT ![<<c, g>>] = "writing"]
    /\ UNCHANGED <<ctxDone, syncer, controllers, synced>>

EndWrite(c, g) ==
    /\ worker[<<c, g>>] = "writing"
    /\ worker' = [worker EXCEPT ![<<c, g>>] = "running"]
    /\ UNCHANGED <<ctxDone, syncer, controllers, synced>>

(* controller.Run returns, between two calls of Process. *)
RunReturns(c, g) ==
    /\ ctxDone
    /\ worker[<<c, g>>] = "running"
    /\ worker' = [worker EXCEPT ![<<c, g>>] = "returned"]
    /\ UNCHANGED <<ctxDone, syncer, controllers, synced>>

(* Mutant: wg.Wait is missing. *)
NoWait(c) == TRUE

(* Mutant: the group counts the types that the filters left out. *)
AllTypesFinished(c) == \A w \in WorkersOf(c) : worker[w] = "returned"

WorkersFinished(c) == \A w \in WorkersOf(c) : worker[w] \in {"none", "returned"}

(* The end of Start. *)
StartReturns(c) ==
    /\ syncer[c] = "active"
    /\ ctxDone
    /\ WorkersFinished(c)
    /\ syncer' = [syncer EXCEPT ![c] = "returned"]
    /\ UNCHANGED <<ctxDone, worker, controllers, synced>>

(* What one goroutine of the package may do next. *)
WorkerStep(c, g) ==
    \/ InitializeKeysFails(c, g) \/ Register(c, g)
    \/ InitialSync(c, g)
    \/ BeginWrite(c, g) \/ EndWrite(c, g)
    \/ RunReturns(c, g)

SyncerStep(c) ==
    \/ Connect(c)
    \/ Discover(c) \/ DiscoveryFails(c)
    \/ StartReturns(c)

HasSynced(c) == controllers[c] # {} /\ controllers[c] \subseteq synced[c]
=============================================================================
