---------------------------- MODULE DaemonProofs ----------------------------
(***************************************************************************)
(* Proofs about the server process, for any clusters, resource types and   *)
(* number of calls.                                                        *)
(***************************************************************************)
EXTENDS Daemon, TLAPS

(***************************************************************************)
(* The inductive invariant.                                                *)
(***************************************************************************)

(* How far main has got tells which goroutines it has started.             *)
StartOrder ==
    /\ main \in {"startAPI", "startSync", "waiting", "joining"} => storeOpen
    /\ main \in {"opening", "startAPI"} => serving = "none"
    /\ main \in {"opening", "startAPI", "startSync"} => manager = "none"

(* The gRPC server follows the two goroutines of the API.                  *)
ApiOrder ==
    /\ serving = "none" <=> stopper = "none"
    /\ serving = "none" => server = "idle"
    /\ server = "idle" => calls = 0
    /\ stopper = "stopping" => server = "stopping"
    /\ stopper = "returned" => server = "stopped" /\ calls = 0

(* main leaves after wg.Wait, or because a component cannot be started.    *)
EndOrder ==
    /\ main = "stopped cleanly" => Joined
    /\ main \in {"closing", "stopped cleanly", "exited"} =>
           Joined \/ (manager = "none" /\ (serving # "none" => enableSync))

(* A goroutine ends after those that it started.                           *)
SyncOrder ==
    /\ manager \in {"none", "starting"} => \A c \in Clusters : syncer[c] = "none"
    /\ manager = "returned" => \A c \in Clusters : syncer[c] \in {"none", "returned"}
    /\ \A c \in Clusters : \A g \in Resources :
          /\ syncer[c] # "active" => worker[<<c, g>>] \in {"none", "returned"}
          /\ worker[<<c, g>>] \in {"running", "writing"} => g \in controllers[c]
          /\ worker[<<c, g>>] # "none" => g \in ResourcesOf[c]

IInv == TypeOK /\ StartOrder /\ ApiOrder /\ EndOrder /\ SyncOrder

(***************************************************************************)
(* Initial states.                                                         *)
(***************************************************************************)

LEMMA InitIInv == Init => IInv
  <1> SUFFICES ASSUME Init PROVE IInv
    OBVIOUS
  <1> USE DEF Init, SyncersInit
  <1>1. TypeOK
    <2>1. FlagsOK
      BY Zenon DEF FlagsOK
    <2>2. PhasesOK /\ SyncersOK
      BY DaemonAssumption DEF PhasesOK, SyncersOK
    <2> QED BY <2>1, <2>2 DEF TypeOK
  <1>2. StartOrder /\ ApiOrder /\ EndOrder
    BY DEF StartOrder, ApiOrder, EndOrder, Joined
  <1>3. SyncOrder
    <2>1. \A c \in Clusters, g \in Resources : <<c, g>> \in Workers
      BY DEF Workers
    <2> QED BY <2>1 DEF SyncOrder
  <1> QED BY <1>1, <1>2, <1>3 DEF IInv

(***************************************************************************)
(* Steps of main, the API and the Manager.                                 *)
(***************************************************************************)

LEMMA MainStep == IInv /\ (Signal \/ Main) => IInv'
  <1> SUFFICES ASSUME IInv, Signal \/ Main PROVE IInv'
    OBVIOUS
  <1> USE DEF IInv, syncVars, mainVars, apiVars
  <1>1. CASE Signal \/ ContextDone \/ CloseStore \/ Exit
    <2>1. TypeOK'
      <3>1. FlagsOK'
        BY <1>1, Zenon DEF Signal, ContextDone, CloseStore, Exit, TypeOK, FlagsOK
      <3>2. PhasesOK'
        BY <1>1 DEF Signal, ContextDone, CloseStore, Exit, TypeOK, PhasesOK
      <3>3. SyncersOK'
        BY <1>1 DEF Signal, ContextDone, CloseStore, Exit, TypeOK, SyncersOK
      <3> QED BY <3>1, <3>2, <3>3 DEF TypeOK
    <2>2. StartOrder' /\ ApiOrder' /\ EndOrder'
      BY <1>1 DEF Signal, ContextDone, CloseStore, Exit, TypeOK, PhasesOK,
                  StartOrder, ApiOrder, EndOrder, Joined
    <2>3. SyncOrder'
      BY <1>1 DEF Signal, ContextDone, CloseStore, Exit, SyncOrder
    <2> QED BY <2>1, <2>2, <2>3
  <1>2. CASE OpenStore \/ StartAPI \/ WaitGroup
    <2>1. TypeOK'
      <3>1. FlagsOK'
        BY <1>2, Zenon DEF OpenStore, StartAPI, WaitGroup, TypeOK, FlagsOK
      <3>2. PhasesOK'
        BY <1>2 DEF OpenStore, StartAPI, WaitGroup, TypeOK, PhasesOK
      <3>3. SyncersOK'
        BY <1>2 DEF OpenStore, StartAPI, WaitGroup, TypeOK, SyncersOK
      <3> QED BY <3>1, <3>2, <3>3 DEF TypeOK
    <2>2. StartOrder' /\ ApiOrder' /\ EndOrder'
      BY <1>2 DEF OpenStore, StartAPI, WaitGroup, TypeOK, PhasesOK,
                  StartOrder, ApiOrder, EndOrder, Joined
    <2>3. SyncOrder'
      BY <1>2 DEF OpenStore, StartAPI, WaitGroup, SyncOrder
    <2> QED BY <2>1, <2>2, <2>3
  <1>3. CASE StartSync
    <2>1. TypeOK'
      <3>1. FlagsOK'
        BY <1>3, Zenon DEF StartSync, TypeOK, FlagsOK
      <3>2. PhasesOK'
        BY <1>3 DEF StartSync, TypeOK, PhasesOK
      <3>3. SyncersOK'
        BY <1>3 DEF StartSync, TypeOK, SyncersOK
      <3> QED BY <3>1, <3>2, <3>3 DEF TypeOK
    <2>2. StartOrder' /\ ApiOrder' /\ EndOrder'
      BY <1>3 DEF StartSync, TypeOK, PhasesOK, StartOrder, ApiOrder, EndOrder, Joined
    <2>3. SyncOrder'
      BY <1>3 DEF StartSync, StartOrder, SyncOrder
    <2> QED BY <2>1, <2>2, <2>3
  <1> QED BY <1>1, <1>2, <1>3 DEF Main

LEMMA ApiStep ==
    IInv /\ (\/ ServeGoroutine \/ StopGoroutine \/ CallGoroutine
             \/ Alive /\ (ServeFails \/ BeginCall)) => IInv'
  <1> SUFFICES ASSUME IInv,
                      \/ Serve \/ ServeReturns \/ ServeFails
                      \/ GracefulStop \/ GracefulStopReturns
                      \/ BeginCall \/ EndCall,
                      main # "exited"
               PROVE  IInv'
    BY DEF ServeGoroutine, StopGoroutine, CallGoroutine, Alive
  <1> USE DEF IInv, syncVars, mainVars
  <1>1. CASE Serve \/ ServeReturns \/ ServeFails
    <2>1. TypeOK'
      <3>1. FlagsOK'
        BY <1>1, Zenon DEF Serve, ServeReturns, ServeFails, TypeOK, FlagsOK
      <3>2. PhasesOK'
        BY <1>1 DEF Serve, ServeReturns, ServeFails, TypeOK, PhasesOK
      <3>3. SyncersOK'
        BY <1>1 DEF Serve, ServeReturns, ServeFails, TypeOK, SyncersOK
      <3> QED BY <3>1, <3>2, <3>3 DEF TypeOK
    <2>2. StartOrder' /\ ApiOrder' /\ EndOrder'
      BY <1>1 DEF Serve, ServeReturns, ServeFails, TypeOK, PhasesOK,
                  StartOrder, ApiOrder, EndOrder, Joined
    <2>3. SyncOrder'
      BY <1>1 DEF Serve, ServeReturns, ServeFails, SyncOrder
    <2> QED BY <2>1, <2>2, <2>3
  <1>2. CASE GracefulStop \/ GracefulStopReturns
    <2>1. TypeOK'
      <3>1. FlagsOK'
        BY <1>2, Zenon DEF GracefulStop, GracefulStopReturns, TypeOK, FlagsOK
      <3>2. PhasesOK'
        BY <1>2 DEF GracefulStop, GracefulStopReturns, TypeOK, PhasesOK
      <3>3. SyncersOK'
        BY <1>2 DEF GracefulStop, GracefulStopReturns, TypeOK, SyncersOK
      <3> QED BY <3>1, <3>2, <3>3 DEF TypeOK
    <2>2. StartOrder' /\ ApiOrder' /\ EndOrder'
      BY <1>2 DEF GracefulStop, GracefulStopReturns, CallsEnded, TypeOK, PhasesOK,
                  StartOrder, ApiOrder, EndOrder, Joined
    <2>3. SyncOrder'
      BY <1>2 DEF GracefulStop, GracefulStopReturns, SyncOrder
    <2> QED BY <2>1, <2>2, <2>3
  <1>3. CASE BeginCall \/ EndCall
    <2>1. calls' \in 0 .. MaxCalls
      <3>1. calls \in 0 .. MaxCalls
        BY Zenon DEF TypeOK, PhasesOK
      <3>2. \/ calls < MaxCalls /\ calls' = calls + 1
            \/ calls > 0 /\ calls' = calls - 1
        BY <1>3, Zenon DEF BeginCall, EndCall
      <3> QED BY ONLY <3>1, <3>2, DaemonAssumption
    <2> USE DEF BeginCall, EndCall
    <2>2. FlagsOK'
      BY <1>3, Zenon DEF TypeOK, FlagsOK
    <2>3. PhasesOK' /\ SyncersOK'
      BY <1>3, <2>1 DEF TypeOK, PhasesOK, SyncersOK
    <2>4. CASE BeginCall
      <3>1. stopper # "returned" /\ server' # "idle"
        BY <2>4 DEF ApiOrder
      <3> QED BY <2>2, <2>3, <2>4, <3>1 DEF TypeOK, StartOrder, ApiOrder, EndOrder, Joined,
                                            SyncOrder
    <2>5. CASE EndCall
      <3>1. calls # 0
        <4>1. calls > 0
          BY <2>5, Zenon
        <4> QED BY ONLY <4>1
      <3>2. server # "idle" /\ stopper # "returned"
        BY <3>1, Zenon DEF ApiOrder
      <3> QED BY <2>2, <2>3, <2>5, <3>2 DEF TypeOK, StartOrder, ApiOrder, EndOrder, Joined,
                                            SyncOrder
    <2> QED BY <1>3, <2>4, <2>5
  <1> QED BY <1>1, <1>2, <1>3

LEMMA ManagerStep == IInv /\ Manager => IInv'
  <1> SUFFICES ASSUME IInv, ManagerStart \/ ManagerReturns, main # "exited"
               PROVE  IInv'
    BY DEF Manager, Alive
  <1> USE DEF IInv, syncVars, mainVars, apiVars
  <1>1. TypeOK'
    <2>1. FlagsOK'
      BY Zenon DEF ManagerStart, ManagerReturns, TypeOK, FlagsOK
    <2>2. PhasesOK' /\ SyncersOK'
      BY DEF ManagerStart, ManagerReturns, TypeOK, PhasesOK, SyncersOK
    <2> QED BY <2>1, <2>2 DEF TypeOK
  <1>2. StartOrder' /\ ApiOrder' /\ EndOrder'
    BY DEF ManagerStart, ManagerReturns, TypeOK, PhasesOK, StartOrder, ApiOrder, EndOrder, Joined
  <1>3. SyncOrder'
    BY DEF ManagerStart, ManagerReturns, TypeOK, SyncersOK, SyncOrder
  <1> QED BY <1>1, <1>2, <1>3

(***************************************************************************)
(* Steps of the goroutines of a cluster.                                   *)
(***************************************************************************)

LEMMA SyncerStepKeeps ==
    ASSUME NEW c \in Clusters, IInv, Syncer(c) PROVE IInv'
  <1> USE DEF IInv, mainVars, apiVars
  <1>1. /\ Connect(c) \/ Discover(c) \/ DiscoveryFails(c) \/ StartReturns(c)
        /\ UNCHANGED <<mainVars, apiVars, manager>>
    BY DEF Syncer, SyncerStep
  <1>2. \A g \in Resources : <<c, g>> \in Workers
    BY DEF Workers
  <1>3. TypeOK'
    <2>1. FlagsOK'
      BY <1>1, Zenon DEF Connect, Discover, DiscoveryFails, StartReturns, TypeOK, FlagsOK
    <2>2. PhasesOK'
      BY <1>1 DEF Connect, Discover, DiscoveryFails, StartReturns, TypeOK, PhasesOK
    <2>3. SyncersOK'
      BY <1>1 DEF Connect, Discover, DiscoveryFails, StartReturns, TypeOK, SyncersOK
    <2> QED BY <2>1, <2>2, <2>3 DEF TypeOK
  <1>4. StartOrder' /\ ApiOrder' /\ EndOrder'
    BY <1>1 DEF StartOrder, ApiOrder, EndOrder, Joined
  <1>5. SyncOrder'
    <2>1. syncer[c] \in {"connecting", "discovering", "active"}
      BY <1>1 DEF Connect, Discover, DiscoveryFails, StartReturns
    <2>2. manager = "running"
      BY <2>1 DEF SyncOrder, TypeOK, PhasesOK
    <2>3. \A d \in Clusters : \A g \in Resources :
             worker'[<<d, g>>] \in {"running", "writing"} =>
                 worker[<<d, g>>] \in {"running", "writing"}
      BY <1>1 DEF Connect, Discover, DiscoveryFails, StartReturns, Workers
    <2>6. \A d \in Clusters : \A g \in Resources :
             worker'[<<d, g>>] # "none" => worker[<<d, g>>] # "none" \/ g \in ResourcesOf[d]
      BY <1>1 DEF Connect, Discover, DiscoveryFails, StartReturns, Workers
    <2>4. controllers' = controllers
      BY <1>1 DEF Connect, Discover, DiscoveryFails, StartReturns
    <2>5. ASSUME NEW d \in Clusters, NEW g \in Resources, syncer'[d] # "active"
          PROVE  worker'[<<d, g>>] \in {"none", "returned"}
      <3>1. CASE d = c /\ StartReturns(c)
        <4>1. worker[<<c, g>>] \in {"none", "returned"}
          BY <3>1 DEF StartReturns, WorkersFinished, WorkersOf, SyncOrder
        <4> QED BY <4>1, <3>1 DEF StartReturns
      <3>2. CASE d # c \/ Connect(c) \/ DiscoveryFails(c)
        BY <1>1, <2>5, <3>2 DEF Connect, Discover, DiscoveryFails, StartReturns,
                                SyncOrder, TypeOK, SyncersOK, Workers
      <3>3. CASE d = c /\ Discover(c)
        BY <3>3, <2>5 DEF Discover, TypeOK, SyncersOK
      <3> QED BY <1>1, <3>1, <3>2, <3>3
    <2> QED BY <1>1, <2>2, <2>3, <2>4, <2>5, <2>6 DEF SyncOrder
  <1> QED BY <1>3, <1>4, <1>5

LEMMA WorkerStepKeeps ==
    ASSUME NEW c \in Clusters, NEW g \in ResourcesOf[c], IInv, Worker(c, g) PROVE IInv'
  <1> USE DEF IInv, mainVars, apiVars
  <1>1. /\ \/ InitializeKeysFails(c, g) \/ Register(c, g) \/ InitialSync(c, g)
           \/ BeginWrite(c, g) \/ EndWrite(c, g) \/ RunReturns(c, g)
        /\ UNCHANGED <<mainVars, apiVars, manager>>
    BY DEF Worker, WorkerStep
  <1>2. g \in Resources /\ <<c, g>> \in Workers
    BY DEF Workers, Resources
  <1>3. TypeOK'
    <2>1. worker[<<c, g>>] = "running" => g \in controllers[c]
      BY <1>2 DEF SyncOrder
    <2>2. FlagsOK'
      BY <1>1, Zenon DEF InitializeKeysFails, Register, InitialSync, BeginWrite, EndWrite,
                  RunReturns, TypeOK, FlagsOK
    <2>3. PhasesOK'
      BY <1>1 DEF TypeOK, PhasesOK
    <2>4. SyncersOK'
      <3>1. CASE Register(c, g) \/ InitialSync(c, g)
        BY <1>1, <1>2, <2>1, <3>1 DEF Register, InitialSync, TypeOK, SyncersOK
      <3>2. CASE \/ InitializeKeysFails(c, g) \/ RunReturns(c, g)
                 \/ BeginWrite(c, g) \/ EndWrite(c, g)
        BY <1>1, <1>2, <3>2 DEF InitializeKeysFails, RunReturns, BeginWrite, EndWrite,
                                TypeOK, SyncersOK
      <3> QED BY <1>1, <3>1, <3>2
    <2> QED BY <2>2, <2>3, <2>4 DEF TypeOK
  <1>4. StartOrder' /\ ApiOrder' /\ EndOrder'
    BY <1>1 DEF StartOrder, ApiOrder, EndOrder, Joined
  <1>5. SyncOrder'
    <2>1. syncer' = syncer
      BY <1>1 DEF InitializeKeysFails, Register, InitialSync, BeginWrite, EndWrite, RunReturns
    <2>2. syncer[c] = "active"
      BY <1>1, <1>2 DEF InitializeKeysFails, Register, InitialSync, BeginWrite, EndWrite,
                        RunReturns, SyncOrder
    <2>3. ASSUME NEW d \in Clusters, NEW h \in Resources
          PROVE  /\ syncer'[d] # "active" => worker'[<<d, h>>] \in {"none", "returned"}
                 /\ worker'[<<d, h>>] \in {"running", "writing"} => h \in controllers'[d]
                 /\ worker'[<<d, h>>] # "none" => h \in ResourcesOf[d]
      <3>1. <<d, h>> \in Workers
        BY DEF Workers
      <3>2. CASE d = c /\ h = g
        BY <1>1, <1>2, <2>1, <2>2, <3>2 DEF InitializeKeysFails, Register, InitialSync,
             BeginWrite, EndWrite, RunReturns, SyncOrder, TypeOK, SyncersOK
      <3>3. CASE <<d, h>> # <<c, g>>
        <4>1. worker'[<<d, h>>] = worker[<<d, h>>]
          BY <1>1, <3>1, <3>3 DEF InitializeKeysFails, Register, InitialSync,
               BeginWrite, EndWrite, RunReturns, TypeOK, SyncersOK
        <4>2. controllers[d] \subseteq controllers'[d]
          BY <1>1 DEF InitializeKeysFails, Register, InitialSync,
               BeginWrite, EndWrite, RunReturns, TypeOK, SyncersOK
        <4> QED BY <2>1, <4>1, <4>2 DEF SyncOrder
      <3> QED BY <3>2, <3>3
    <2> QED BY <1>1, <2>1, <2>3 DEF SyncOrder
  <1> QED BY <1>3, <1>4, <1>5

LEMMA NextIInv == IInv /\ [Next]_vars => IInv'
  <1> SUFFICES ASSUME IInv, [Next]_vars PROVE IInv'
    OBVIOUS
  <1>1. CASE UNCHANGED vars
    <2> USE <1>1 DEF vars, syncVars, mainVars, apiVars, IInv
    <2>1. FlagsOK'
      BY Zenon DEF TypeOK, FlagsOK
    <2>2. PhasesOK' /\ SyncersOK'
      BY DEF TypeOK, PhasesOK, SyncersOK
    <2>3. StartOrder' /\ ApiOrder' /\ EndOrder' /\ SyncOrder'
      BY DEF StartOrder, ApiOrder, EndOrder, Joined, SyncOrder
    <2> QED BY <2>1, <2>2, <2>3 DEF TypeOK
  <1>2. CASE Next
    BY <1>2, MainStep, ApiStep, ManagerStep, SyncerStepKeeps, WorkerStepKeeps DEF Next
  <1> QED BY <1>1, <1>2

(***************************************************************************)
(* Theorems.                                                               *)
(***************************************************************************)

(* Every variable keeps its type; in particular a controller that has      *)
(* synced is one that was registered (syncer.go:243-245).                  *)
THEOREM TypeCorrect == Spec => []TypeOK
  <1>1. IInv => TypeOK
    BY DEF IInv
  <1> QED BY InitIInv, NextIInv, <1>1, PTL DEF Spec

(* The datastore outlives the workers, and the calls unless the            *)
(* configuration could not be loaded (main.go:79, 141-150, 177-180).       *)
THEOREM StoreSafe == Spec => []StoreOutlivesUse
  <1>1. IInv => StoreOutlivesUse
    <2> SUFFICES ASSUME IInv PROVE StoreOutlivesUse
      OBVIOUS
    <2> USE DEF IInv
    <2>1. (main = "stopped cleanly" \/ ~storeOpen) =>
              (manager = "none" \/ Joined)
      BY DEF StartOrder, EndOrder, TypeOK, PhasesOK
    <2>2. ASSUME manager \in {"none", "returned"}, NEW w \in Workers
          PROVE  ~WorkerUsesStore(w)
      <3>1. PICK c \in Clusters, g \in Resources : w = <<c, g>>
        BY DEF Workers
      <3>2. syncer[c] # "active"
        BY <2>2 DEF SyncOrder
      <3> QED BY <3>1, <3>2 DEF SyncOrder, WorkerUsesStore
    <2>3. Joined => calls = 0
      BY DEF Joined, ApiOrder
    <2>4. ASSUME ~storeOpen, calls > 0 PROVE enableSync /\ manager = "none"
      <3>1. ~Joined /\ serving # "none"
        BY <2>3, <2>4 DEF ApiOrder
      <3>2. main \in {"closing", "stopped cleanly", "exited"}
        BY <2>4, <3>1 DEF StartOrder, TypeOK, PhasesOK
      <3> QED BY <3>1, <3>2, Zenon DEF EndOrder
    <2> QED BY <2>1, <2>2, <2>3, <2>4 DEF StoreOutlivesUse, EndOrder, Joined
  <1> QED BY InitIInv, NextIInv, <1>1, PTL DEF Spec

LEMMA SyncersGo == IInv /\ manager = "running" => ManagerCanGo \/ SyncersCanGo
  <1> SUFFICES ASSUME IInv, manager = "running",
                      NEW c \in Clusters, syncer[c] \notin {"none", "returned"}
               PROVE  SyncersCanGo
    BY DEF ManagerCanGo
  <1> USE DEF IInv
  <1>1. CASE syncer[c] \in {"connecting", "discovering"}
    BY <1>1 DEF SyncersCanGo
  <1>2. CASE syncer[c] = "active" /\ WorkersFinished(c)
    BY <1>2 DEF SyncersCanGo
  <1>3. CASE syncer[c] = "active" /\ ~WorkersFinished(c)
    <2>1. PICK g \in ResourcesOf[c] : worker[<<c, g>>] \notin {"none", "returned"}
      BY <1>3 DEF WorkersFinished, WorkersOf
    <2>2. <<c, g>> \in Workers
      BY DEF Workers, Resources
    <2> QED BY <2>1, <2>2 DEF SyncersCanGo, TypeOK, SyncersOK
  <1> QED BY <1>1, <1>2, <1>3 DEF TypeOK, SyncersOK

LEMMA ApiGoes ==
    IInv => ApiCanGo \/ (serving \in {"none", "returned"} /\ stopper \in {"none", "returned"})
  <1> SUFFICES ASSUME IInv PROVE
                  ApiCanGo \/ (serving \in {"none", "returned"} /\ stopper \in {"none", "returned"})
    OBVIOUS
  <1>1. calls \in 0 .. MaxCalls
    BY Zenon DEF IInv, TypeOK, PhasesOK
  <1>2. calls > 0 \/ calls = 0
    BY ONLY <1>1, DaemonAssumption
  <1> QED BY <1>2, Zenon DEF ApiCanGo, CallsEnded, IInv, ApiOrder, TypeOK, PhasesOK

(* A shutdown never gets stuck, for any number of clusters, types and      *)
(* calls (main.go:173-180).                                                *)
THEOREM NeverStuck == Spec => []ShutdownNeverStuck
  <1>1. IInv => ShutdownNeverStuck
    <2> SUFFICES ASSUME IInv, main = "joining", ~Joined
                 PROVE  ApiCanGo \/ ManagerCanGo \/ SyncersCanGo
      BY DEF ShutdownNeverStuck, MainCanGo
    <2>1. CASE manager \in {"none", "returned"}
      BY <2>1, ApiGoes DEF Joined
    <2>2. CASE manager = "starting"
      BY <2>2 DEF ManagerCanGo
    <2>3. CASE manager = "running"
      BY <2>3, SyncersGo
    <2> QED BY <2>1, <2>2, <2>3 DEF IInv, TypeOK, PhasesOK
  <1> QED BY InitIInv, NextIInv, <1>1, PTL DEF Spec
=============================================================================
