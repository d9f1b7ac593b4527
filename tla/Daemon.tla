------------------------------- MODULE Daemon -------------------------------
(***************************************************************************)
(* The server process, cmd/server/main.go: the datastore it opens, the     *)
(* gRPC API and the sync Manager it starts, and its shutdown.              *)
(***************************************************************************)
EXTENDS ClusterSyncer

CONSTANT MaxCalls   \* bound: how many gRPC calls are in flight at a time

ASSUME DaemonAssumption == MaxCalls \in Nat

VARIABLES
    main,            \* where main's goroutine is
    enableAPI, enableSync, active,  \* flags; the clusters enabled and selected
    storeOpen,
    server,          \* the gRPC server
    serving,         \* the goroutine in Serve
    stopper,         \* the goroutine that calls GracefulStop
    calls,           \* gRPC calls in flight
    manager          \* the goroutine in Manager.Start

mainVars == <<main, enableAPI, enableSync, active, storeOpen>>
apiVars  == <<server, serving, stopper, calls>>
vars     == <<ctxDone, syncVars, mainVars, apiVars, manager>>

Init ==
    /\ SyncersInit
    /\ main = "opening"
    /\ enableAPI \in BOOLEAN /\ enableSync \in BOOLEAN
    /\ enableAPI \/ enableSync
    /\ active \in SUBSET Clusters
    /\ storeOpen = FALSE
    /\ server = "idle" /\ serving = "none" /\ stopper = "none" /\ calls = 0
    /\ manager = "none"

(* SIGINT or SIGTERM. *)
Signal ==
    /\ main \notin {"closing", "exited"}
    /\ ctxDone' = TRUE
    /\ UNCHANGED <<syncVars, mainVars, apiVars, manager>>

(***************************************************************************)
(* main's goroutine.                                                       *)
(***************************************************************************)

(* Connecting or InitSchema fails, or the datastore is ready. *)
OpenStore ==
    /\ main = "opening"
    /\ \/ main' = "exited" /\ storeOpen' = FALSE
       \/ main' = "closing" /\ storeOpen' = TRUE
       \/ main' = "startAPI" /\ storeOpen' = TRUE
    /\ UNCHANGED <<ctxDone, syncVars, enableAPI, enableSync, active, apiVars, manager>>

(* net.Listen fails, or the two goroutines of the API are started. *)
StartAPI ==
    /\ main = "startAPI"
    /\ IF enableAPI
       THEN \/ main' = "closing" /\ UNCHANGED <<serving, stopper>>
            \/ main' = "startSync" /\ serving' = "starting" /\ stopper' = "waiting"
       ELSE main' = "startSync" /\ UNCHANGED <<serving, stopper>>
    /\ UNCHANGED <<ctxDone, syncVars, enableAPI, enableSync, active, storeOpen,
                   server, calls, manager>>

(* LoadConfig fails, and main returns with the API running; or the Manager *)
(* is started.                                                             *)
StartSync ==
    /\ main = "startSync"
    /\ IF enableSync
       THEN \/ main' = "closing" /\ UNCHANGED manager
            \/ main' = "waiting" /\ manager' = "starting"
       ELSE main' = "waiting" /\ UNCHANGED manager
    /\ UNCHANGED <<ctxDone, syncVars, enableAPI, enableSync, active, storeOpen, apiVars>>

ContextDone ==
    /\ main = "waiting"
    /\ ctxDone
    /\ main' = "joining"
    /\ UNCHANGED <<ctxDone, syncVars, enableAPI, enableSync, active, storeOpen,
                   apiVars, manager>>

(* wg.Wait. *)
Joined ==
    /\ serving \in {"none", "returned"}
    /\ stopper \in {"none", "returned"}
    /\ manager \in {"none", "returned"}

WaitGroup ==
    /\ main = "joining"
    /\ Joined
    /\ main' = "stopped cleanly"
    /\ UNCHANGED <<ctxDone, syncVars, enableAPI, enableSync, active, storeOpen,
                   apiVars, manager>>

(* The deferred Close. *)
CloseStore ==
    /\ main \in {"closing", "stopped cleanly"}
    /\ storeOpen
    /\ storeOpen' = FALSE
    /\ UNCHANGED <<ctxDone, syncVars, main, enableAPI, enableSync, active, apiVars, manager>>

(* The deferred stop, and the end of the process. *)
Exit ==
    /\ main \in {"closing", "stopped cleanly"}
    /\ ~storeOpen
    /\ ctxDone' = TRUE
    /\ main' = "exited"
    /\ UNCHANGED <<syncVars, enableAPI, enableSync, active, storeOpen, apiVars, manager>>

Main ==
    \/ OpenStore \/ StartAPI \/ StartSync \/ ContextDone \/ WaitGroup
    \/ CloseStore \/ Exit

(***************************************************************************)
(* The gRPC server (grpc.Server is external): after GracefulStop has begun *)
(* no call is accepted, and Serve returns when the last one has ended.     *)
(***************************************************************************)

Serve ==
    /\ serving = "starting"
    /\ IF server = "idle"
       THEN server' = "serving" /\ serving' = "serving"
       ELSE serving' = "returned" /\ UNCHANGED server
    /\ UNCHANGED <<ctxDone, syncVars, mainVars, stopper, calls, manager>>

(* Serve returns an error of the listener. *)
ServeFails ==
    /\ serving = "serving" /\ server = "serving"
    /\ serving' = "returned"
    /\ server' = "broken"
    /\ UNCHANGED <<ctxDone, syncVars, mainVars, stopper, calls, manager>>

ServeReturns ==
    /\ serving = "serving" /\ server = "stopped"
    /\ serving' = "returned"
    /\ UNCHANGED <<ctxDone, syncVars, mainVars, server, stopper, calls, manager>>

GracefulStop ==
    /\ stopper = "waiting"
    /\ ctxDone
    /\ stopper' = "stopping"
    /\ server' = "stopping"
    /\ UNCHANGED <<ctxDone, syncVars, mainVars, serving, calls, manager>>

CallsEnded == calls = 0

GracefulStopReturns ==
    /\ stopper = "stopping"
    /\ CallsEnded
    /\ stopper' = "returned"
    /\ server' = "stopped"
    /\ UNCHANGED <<ctxDone, syncVars, mainVars, serving, calls, manager>>

BeginCall ==
    /\ server = "serving"
    /\ calls < MaxCalls
    /\ calls' = calls + 1
    /\ UNCHANGED <<ctxDone, syncVars, mainVars, server, serving, stopper, manager>>

EndCall ==
    /\ calls > 0
    /\ calls' = calls - 1
    /\ UNCHANGED <<ctxDone, syncVars, mainVars, server, serving, stopper, manager>>

(* The exit of main ends every goroutine of the process. *)
Alive == main # "exited"

ServeGoroutine == Alive /\ (Serve \/ ServeReturns)
StopGoroutine  == Alive /\ (GracefulStop \/ GracefulStopReturns)
CallGoroutine  == Alive /\ EndCall

(***************************************************************************)
(* Manager.Start.                                                          *)
(***************************************************************************)

(* A goroutine for every cluster enabled and selected; an error if there   *)
(* is none.                                                                *)
ManagerStart ==
    /\ manager = "starting"
    /\ manager' = IF active = {} THEN "returned" ELSE "running"
    /\ syncer' = [c \in Clusters |-> IF c \in active THEN "connecting" ELSE syncer[c]]
    /\ UNCHANGED <<ctxDone, worker, controllers, synced, mainVars, apiVars>>

ManagerReturns ==
    /\ manager = "running"
    /\ ctxDone
    /\ \A c \in Clusters : syncer[c] \in {"none", "returned"}
    /\ manager' = "returned"
    /\ UNCHANGED <<ctxDone, syncVars, mainVars, apiVars>>

Manager == Alive /\ (ManagerStart \/ ManagerReturns)

Syncer(c)    == Alive /\ SyncerStep(c) /\ UNCHANGED <<mainVars, apiVars, manager>>
Worker(c, g) == Alive /\ WorkerStep(c, g) /\ UNCHANGED <<mainVars, apiVars, manager>>

WorkerStops(c, g) == Alive /\ RunReturns(c, g) /\ UNCHANGED <<mainVars, apiVars, manager>>

Next ==
    \/ Signal
    \/ Main
    \/ ServeGoroutine \/ StopGoroutine \/ CallGoroutine
    \/ Alive /\ (ServeFails \/ BeginCall)
    \/ Manager
    \/ \E c \in Clusters : Syncer(c)
    \/ \E c \in Clusters : \E g \in ResourcesOf[c] : Worker(c, g)

Spec == Init /\ [][Next]_vars

(* Every goroutine that can go on goes on.  RunReturns gets strong         *)
(* fairness: after the signal the Reflector adds nothing to the queue, and *)
(* Run looks at the context between two calls of Process.  Queries, and    *)
(* so calls, come to an end.                                               *)
Fairness ==
    /\ WF_vars(Main) /\ WF_vars(Manager)
    /\ WF_vars(ServeGoroutine) /\ WF_vars(StopGoroutine) /\ WF_vars(CallGoroutine)
    /\ \A c \in Clusters : WF_vars(Syncer(c))
    /\ \A c \in Clusters : \A g \in ResourcesOf[c] :
          WF_vars(Worker(c, g)) /\ SF_vars(WorkerStops(c, g))

FairSpec == Spec /\ Fairness

(***************************************************************************)
(* Properties.                                                             *)
(***************************************************************************)

FlagsOK ==
    /\ ctxDone \in BOOLEAN /\ storeOpen \in BOOLEAN
    /\ enableAPI \in BOOLEAN /\ enableSync \in BOOLEAN

PhasesOK ==
    /\ main \in {"opening", "startAPI", "startSync", "waiting", "joining",
                 "stopped cleanly", "closing", "exited"}
    /\ server \in {"idle", "serving", "broken", "stopping", "stopped"}
    /\ serving \in {"none", "starting", "serving", "returned"}
    /\ stopper \in {"none", "waiting", "stopping", "returned"}
    /\ calls \in 0 .. MaxCalls
    /\ manager \in {"none", "starting", "running", "returned"}

SyncersOK ==
    /\ active \subseteq Clusters
    /\ syncer \in [Clusters -> {"none", "connecting", "discovering", "active", "returned"}]
    /\ worker \in [Workers -> {"none", "starting", "running", "writing", "returned"}]
    /\ controllers \in [Clusters -> SUBSET Resources]
    /\ synced \in [Clusters -> SUBSET Resources]
    /\ \A c \in Clusters : controllers[c] \subseteq ResourcesOf[c] /\ synced[c] \subseteq controllers[c]

TypeOK == FlagsOK /\ PhasesOK /\ SyncersOK

WorkerUsesStore(w) == worker[w] \in {"starting", "writing"}

(* The datastore is closed only when no worker uses it any more, and the   *)
(* daemon reports that it stopped cleanly only when no call does either    *)
(* (main.go:177-180, 79).  A call meets a closed datastore in one case:    *)
(* the configuration could not be loaded, and main returned with the API   *)
(* running (main.go:141-150).                                              *)
StoreOutlivesUse ==
    /\ main = "stopped cleanly" => calls = 0
    /\ main = "stopped cleanly" \/ ~storeOpen => \A w \in Workers : ~WorkerUsesStore(w)
    /\ ~storeOpen /\ calls > 0 => enableSync /\ manager = "none"

(* The goroutines that could take their next step, by what they wait for.  *)
MainCanGo    == main # "joining" \/ Joined
ApiCanGo     ==
    \/ serving = "starting" \/ (serving = "serving" /\ server = "stopped")
    \/ stopper = "waiting" \/ (stopper = "stopping" /\ CallsEnded)
    \/ calls > 0
ManagerCanGo ==
    \/ manager = "starting"
    \/ manager = "running" /\ \A c \in Clusters : syncer[c] \in {"none", "returned"}
SyncersCanGo ==
    \/ \E c \in Clusters :
          \/ syncer[c] \in {"connecting", "discovering"}
          \/ syncer[c] = "active" /\ WorkersFinished(c)
    \/ \E w \in Workers : worker[w] \in {"starting", "running", "writing"}

(* After a termination signal somebody can always go on until the process  *)
(* has ended: however many clusters, types and calls there are, nobody     *)
(* waits for somebody who waits in turn (main.go:173-180, 126-136,         *)
(* manager.go:134-143, syncer.go:258-267).                                 *)
ShutdownNeverStuck ==
    (ctxDone /\ Alive) => MainCanGo \/ ApiCanGo \/ ManagerCanGo \/ SyncersCanGo

(* A termination signal ends the process (main.go:173-180).                *)
SignalEndsDaemon == ctxDone ~> main = "exited"

(* "Wait for termination signal or component exit" (main.go:173): when     *)
(* every component has exited, so does the daemon.                         *)
ComponentExitEndsDaemon ==
    (main = "waiting" /\ serving \in {"none", "returned"} /\ manager \in {"none", "returned"})
        ~> main = "exited"

(* A cluster that reports to be synced has handled the first list of every *)
(* resource type it discovered and could start.                            *)
HasSyncedMeansAll ==
    \A c \in Clusters : HasSynced(c) =>
        \A w \in WorkersOf(c) :
            worker[w] \in {"starting", "running", "writing"} => w[2] \in synced[c]
=============================================================================
