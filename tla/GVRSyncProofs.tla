--------------------------- MODULE GVRSyncProofs ----------------------------
(***************************************************************************)
(* Machine-checked proofs about GVRSync for every set of keys and          *)
(* namespaces, every bound, stale first lists and ambiguous datastore      *)
(* errors included.                                                        *)
(*                                                                         *)
(* Mirror is not inductive: what a settled key's row shows was decided     *)
(* when its last delta was queued.  Pending says that the last delta       *)
(* waiting for a key, or being processed, leads to the content at the      *)
(* Reflector's position; TrackedRows is needed where the queue drops a     *)
(* deletion, or a list does not mention a key, because the key is unknown. *)
(***************************************************************************)
EXTENDS GVRSync, SequenceTheorems, FiniteSetTheorems, TLAPS

(* A process that does not run has no Reflector position and no work; and  *)
(* there is no work before the first list.                                 *)
Life ==
    /\ phase # "running" => pos = 0
    /\ pos = 0 => \A k \in Keys : Settled(k)

Pending ==
    pos > 0 => \A k \in Keys :
        /\ items[k] # <<>> => Reaches(Last(items[k]), k, pos)
        /\ processing[k] # <<>> => Reaches(Last(processing[k]), k, pos)

IInv == TypeOK /\ Life /\ TrackedRows /\ Pending /\ Mirror

-----------------------------------------------------------------------------
(* Sequences of deltas.                                                    *)

(* A queued delta is the last one of its key, or is merged into a last one *)
(* of the same effect.                                                     *)
LEMMA WithDeltaEnds ==
    ASSUME NEW s \in Seq(Delta), NEW d \in Delta
    PROVE  /\ WithDelta(s, d) \in Seq(Delta)
           /\ WithDelta(s, d) # <<>>
           /\ IsDeletion(d) => IsDeletion(Last(WithDelta(s, d)))
           /\ ~IsDeletion(d) => Last(WithDelta(s, d)) = d
<1>1. CASE s # <<>> /\ IsDeletion(d) /\ IsDeletion(Last(s))
  <2>1. CASE d.type = "tombstone"
    BY <1>1, <2>1 DEF WithDelta
  <2>2. CASE d.type # "tombstone"
    <3>1. WithDelta(s, d) = [s EXCEPT ![Len(s)] = d]
      BY <1>1, <2>2 DEF WithDelta
    <3>2. Len(s) \in 1 .. Len(s) /\ Len(s) \in Nat
      BY <1>1
    <3>3. /\ [s EXCEPT ![Len(s)] = d] \in Seq(Delta)
          /\ Len([s EXCEPT ![Len(s)] = d]) = Len(s)
          /\ [s EXCEPT ![Len(s)] = d][Len(s)] = d
      BY <3>2
    <3> QED BY <1>1, <3>1, <3>2, <3>3 DEF Last
  <2> QED BY <2>1, <2>2
<1>2. CASE ~(s # <<>> /\ IsDeletion(d) /\ IsDeletion(Last(s)))
  <2>1. WithDelta(s, d) = Append(s, d)
    BY <1>2 DEF WithDelta
  <2> QED BY <2>1 DEF Last
<1> QED BY <1>1, <1>2

(* Handling the deltas of a key front to back ends with the last one. *)
LEMMA TailEnds ==
    ASSUME NEW s \in Seq(Delta), s # <<>>
    PROVE  /\ Head(s) \in Delta
           /\ Tail(s) \in Seq(Delta)
           /\ Tail(s) # <<>> => Last(Tail(s)) = Last(s)
           /\ Tail(s) = <<>> => Head(s) = Last(s)
<1>1. /\ Len(s) \in Nat \ {0}
      /\ Head(s) = s[1] /\ s[1] \in Delta
      /\ Tail(s) \in Seq(Delta)
      /\ Len(Tail(s)) = Len(s) - 1
      /\ \A i \in 1 .. Len(Tail(s)) : Tail(s)[i] = s[i + 1]
  BY HeadTailProperties, EmptySeq, ElementOfSeq
<1>2. ASSUME Tail(s) # <<>> PROVE Last(Tail(s)) = Last(s)
  <2>1. Len(Tail(s)) \in Nat \ {0}
    BY <1>1, <1>2, EmptySeq
  <2> QED BY <1>1, <2>1 DEF Last
<1>3. ASSUME Tail(s) = <<>> PROVE Head(s) = Last(s)
  <2>1. Len(Tail(s)) = 0
    BY <1>3, EmptySeq, Zenon
  <2>2. Len(s) = 1
    BY <2>1, HeadTailProperties
  <2> QED BY <1>1, <2>2 DEF Last
<1> QED BY <1>1, <1>2, <1>3

(* The order a list queues its keys in is a sequence of those keys. *)
LEMMA OrderIsSequence ==
    ASSUME NEW S \in SUBSET Keys, NEW p \in SetToSeqs(S)
    PROVE  p \in Seq(Keys)
<1>1. IsFiniteSet(S)
  BY KeysAssumption, FS_Subset
<1>2. Cardinality(S) \in Nat
  BY <1>1, FS_CardinalityType
<1>3. p \in [1 .. Cardinality(S) -> S]
  BY DEF SetToSeqs
<1>4. \A n \in Nat : \A f \in [1 .. n -> S] : f \in Seq(Keys)
  OBVIOUS
<1> QED BY <1>2, <1>3, <1>4, Zenon

(* A step of the cluster adds a version and changes none. *)
LEMMA HistoryGrows ==
    ASSUME hist \in Seq([Keys -> Nat]) \ {<<>>}, ApiNext
    PROVE  /\ hist' \in Seq([Keys -> Nat]) \ {<<>>}
           /\ Len(hist') = Len(hist) + 1
           /\ \A n \in 1 .. Len(hist) : hist'[n] = hist[n]
<1>1. PICK k \in Keys, v \in Nat : hist' = Append(hist, [Last(hist) EXCEPT ![k] = v])
  <2>1. NextRV \in Nat /\ Absent \in Nat
    BY DEF NextRV, Absent
  <2> QED BY <2>1, Zenon DEF ApiNext, ApiPut, ApiDelete
<1>2. [Last(hist) EXCEPT ![k] = v] \in [Keys -> Nat]
  BY DEF Last
<1> QED BY <1>1, <1>2
-----------------------------------------------------------------------------
(* Types.                                                                  *)

LEMMA NoDeltas == [k \in Keys |-> <<>>] \in [Keys -> Seq(Delta)]
OBVIOUS

LEMMA DeltaTypes ==
    /\ \A rv \in Nat : Put(rv) \in Delta /\ ~IsDeletion(Put(rv)) /\ Put(rv).rv = rv
    /\ Deleted \in Delta /\ IsDeletion(Deleted)
    /\ Tombstone \in Delta /\ IsDeletion(Tombstone)
BY DEF Delta, Put, Deleted, Tombstone, IsDeletion

(* What a datastore call made for one key may do to the row, the key map   *)
(* and the error history.                                                  *)
StoreTypes ==
    /\ rows \in [Keys -> Nat]
    /\ keys \subseteq Keys
    /\ failed \subseteq Keys

OnlyTouches(k) ==
    \A j \in Keys \ {k} :
        /\ rows'[j] = rows[j]
        /\ j \in keys' <=> j \in keys
        /\ j \in failed' <=> j \in failed

LEMMA UpdateEffect ==
    ASSUME StoreTypes, NEW k \in Keys, NEW rv \in Nat, Update(k, rv)
    PROVE  StoreTypes' /\ OnlyTouches(k) /\ rows'[k] = rv /\ k \in keys' /\ k \notin failed'
BY DEF StoreTypes, OnlyTouches, Update

LEMMA DeleteEffect ==
    ASSUME StoreTypes, NEW k \in Keys, NEW t \in BOOLEAN, Delete(k, t)
    PROVE  StoreTypes' /\ OnlyTouches(k) /\ rows'[k] = NoRow /\ k \notin failed'
<1>1. keys' \subseteq keys /\ keys \subseteq keys' \union {k}
  BY DEF Delete
<1> QED BY <1>1 DEF StoreTypes, OnlyTouches, Delete, NoRow

LEMMA UpdateErrorEffect ==
    ASSUME StoreTypes, NEW k \in Keys, NEW rv \in Nat, UpdateError(k, rv)
    PROVE  /\ StoreTypes' /\ OnlyTouches(k) /\ k \in failed' /\ keys' = keys
           /\ (rows'[k] = rows[k] \/ "applied" \in ErrorOutcomes)
<1>1. /\ (rows' = rows \/ "applied" \in ErrorOutcomes)
      /\ \E v \in Nat : rows' = [rows EXCEPT ![k] = v]
  BY DEF StoreTypes, UpdateError
<1> QED BY <1>1 DEF StoreTypes, OnlyTouches, UpdateError

LEMMA DeleteErrorEffect ==
    ASSUME StoreTypes, NEW k \in Keys, DeleteError(k)
    PROVE  /\ StoreTypes' /\ OnlyTouches(k) /\ k \in failed' /\ keys' = keys
           /\ (rows'[k] = rows[k] \/ rows'[k] = NoRow)
<1>1. rows' = rows \/ rows' = [rows EXCEPT ![k] = NoRow]
  BY DEF StoreTypes, DeleteError
<1> QED BY <1>1 DEF StoreTypes, OnlyTouches, DeleteError, NoRow

LEMMA FaultType ==
    ASSUME faults \in [FaultKinds -> Nat], NEW kind \in FaultKinds, Fault(kind)
    PROVE  faults' \in [FaultKinds -> Nat]
BY DEF Fault

(* The handling of one delta is one datastore call for its key or, for an  *)
(* excluded and unknown object, none; it leaves the row as the delta asks, *)
(* unless it fails.                                                        *)
LEMMA HandleEffect ==
    ASSUME StoreTypes, faults \in [FaultKinds -> Nat],
           NEW k \in Keys, NEW d \in Delta, Handle(k, d)
    PROVE  /\ StoreTypes' /\ OnlyTouches(k) /\ faults' \in [FaultKinds -> Nat]
           /\ \/ k \notin failed' /\ rows'[k] = NoRow
                 /\ (IsDeletion(d) \/ ~MatchesNamespace(k))
              \/ k \notin failed' /\ k \in keys' /\ rows'[k] = d.rv
                 /\ ~IsDeletion(d) /\ MatchesNamespace(k)
              \/ k \in failed' /\ keys' = keys
                 /\ (rows'[k] = rows[k] \/ rows'[k] = NoRow \/ "applied" \in ErrorOutcomes)
              \/ UNCHANGED storeVars /\ k \notin keys /\ ~MatchesNamespace(k)
<1> d.rv \in Nat /\ (d.type = "tombstone") \in BOOLEAN
  BY DEF Delta
<1> "db" \in FaultKinds
  BY DEF FaultKinds
<1>1. CASE IsDeletion(d) /\ DeleteFunc(k, d.type = "tombstone")
  BY <1>1, DeleteEffect, DeleteErrorEffect, FaultType DEF DeleteFunc
<1>2. CASE ~IsDeletion(d) /\ k \in keys /\ UpdateFunc(k, d.rv)
  <2>1. CASE MatchesNamespace(k)
    BY <1>2, <2>1, UpdateEffect, UpdateErrorEffect, FaultType DEF UpdateFunc
  <2>2. CASE ~MatchesNamespace(k)
    BY <1>2, <2>2, DeleteEffect, DeleteErrorEffect, FaultType DEF UpdateFunc
  <2> QED BY <2>1, <2>2
<1>3. CASE ~IsDeletion(d) /\ k \notin keys /\ AddFunc(k, d.rv)
  <2>1. CASE MatchesNamespace(k)
    BY <1>3, <2>1, UpdateEffect, UpdateErrorEffect, FaultType DEF AddFunc
  <2>2. CASE ~MatchesNamespace(k)
    BY <1>3, <2>2 DEF AddFunc, StoreTypes, OnlyTouches, storeVars
  <2> QED BY <2>1, <2>2
<1> QED BY <1>1, <1>2, <1>3 DEF Handle

LEMMA ListTypes ==
    ASSUME TypeOK, NEW n \in 1 .. Len(hist), List(n)
    PROVE  /\ queue' \in Seq(Keys)
           /\ items' \in [Keys -> Seq(Delta)]
           /\ populated' \in BOOLEAN
           /\ initial' \in Nat
           /\ pos' \in 0 .. Len(hist)
<1> DEFINE listed   == {k \in Keys : hist[n][k] # 0}
           missing  == Missing(hist[n], keys)
           Fresh(S) == {k \in S : items[k] = <<>>}
<1>0. /\ hist[n] \in [Keys -> Nat]
      /\ items \in [Keys -> Seq(Delta)]
      /\ queue \in Seq(Keys)
      /\ initial \in Nat
  BY DEF TypeOK
<1>1. listed \in SUBSET Keys /\ missing \in SUBSET Keys
  BY DEF Missing
<1>2. items' \in [Keys -> Seq(Delta)]
  <2>1. \A k \in Keys : WithDelta(items[k], Put(hist[n][k])) \in Seq(Delta)
    BY <1>0, WithDeltaEnds, DeltaTypes
  <2>2. \A k \in Keys : WithDelta(items[k], Tombstone) \in Seq(Delta)
    BY <1>0, WithDeltaEnds, DeltaTypes
  <2>3. items' = [k \in Keys |->
                    IF k \in listed THEN WithDelta(items[k], Put(hist[n][k]))
                    ELSE IF k \in missing THEN WithDelta(items[k], Tombstone)
                    ELSE items[k]]
    BY DEF List, FifoReplace
  <2> HIDE DEF listed, missing
  <2> QED BY <1>0, <2>1, <2>2, <2>3
<1>3. queue' \in Seq(Keys)
  <2>1. PICK p \in SetToSeqs(Fresh(listed)), q \in SetToSeqs(Fresh(missing)) :
            queue' = queue \o p \o q
    BY DEF List, FifoReplace
  <2>2. Fresh(listed) \in SUBSET Keys /\ Fresh(missing) \in SUBSET Keys
    BY <1>1
  <2>3. p \in Seq(Keys) /\ q \in Seq(Keys)
    BY <2>2, OrderIsSequence
  <2> QED BY <1>0, <2>1, <2>3
<1>4. initial' \in Nat
  <2>1. Cardinality(listed) \in Nat /\ Cardinality(missing) \in Nat
    BY <1>1, KeysAssumption, FS_Subset, FS_CardinalityType
  <2>2. initial' = initial \/ initial' = Cardinality(listed) + Cardinality(missing)
    BY DEF List, FifoReplace, InitialPopulation
  <2> QED BY <1>0, <2>1, <2>2
<1> QED BY <1>2, <1>3, <1>4 DEF List, FifoReplace

LEMMA QueueActionTypes ==
    ASSUME TypeOK, NEW k \in Keys, NEW d \in Delta, QueueAction(k, d)
    PROVE  /\ queue' \in Seq(Keys)
           /\ items' \in [Keys -> Seq(Delta)]
           /\ populated' \in BOOLEAN
           /\ initial' \in Nat
           /\ items' = [items EXCEPT ![k] = WithDelta(items[k], d)]
<1>1. WithDelta(items[k], d) \in Seq(Delta)
  BY WithDeltaEnds DEF TypeOK
<1>2. items' \in [Keys -> Seq(Delta)]
  BY <1>1 DEF TypeOK, QueueAction
<1>3. queue' \in Seq(Keys)
  BY DEF TypeOK, QueueAction
<1> QED BY <1>2, <1>3 DEF TypeOK, QueueAction

(* What a watch event for key k leaves in the queue. *)
LEMMA WatchEffect ==
    ASSUME TypeOK, Watch
    PROVE  /\ queue' \in Seq(Keys)
           /\ items' \in [Keys -> Seq(Delta)]
           /\ populated' \in BOOLEAN
           /\ initial' \in Nat
           /\ \E k \in Keys :
                 /\ hist[pos + 1] = [hist[pos] EXCEPT ![k] = hist[pos + 1][k]]
                 /\ \A j \in Keys \ {k} : items'[j] = items[j]
                 /\ \/ items'[k] # <<>> /\ Reaches(Last(items'[k]), k, pos + 1)
                    \/ /\ items' = items /\ items[k] = <<>> /\ k \notin keys
                       /\ hist[pos + 1][k] = Absent
<1>0. items \in [Keys -> Seq(Delta)] /\ hist[pos + 1] \in [Keys -> Nat]
  BY DEF TypeOK, Watch, Event
<1>1. PICK k \in Keys :
          /\ hist[pos + 1] = [hist[pos] EXCEPT ![k] = hist[pos + 1][k]]
          /\ IF hist[pos + 1][k] = Absent
             THEN FifoDelete(k, keys)
             ELSE FifoPut(k, hist[pos + 1][k])
  BY DEF Watch, Event
<1>2. CASE hist[pos + 1][k] # Absent
  <2> DEFINE d == Put(hist[pos + 1][k])
  <2>1. d \in Delta /\ ~IsDeletion(d) /\ d.rv = hist[pos + 1][k]
    BY <1>0, DeltaTypes
  <2>2. QueueAction(k, d)
    BY <1>1, <1>2 DEF FifoPut
  <2> HIDE DEF d
  <2>3. WithDelta(items[k], d) # <<>> /\ Last(WithDelta(items[k], d)) = d
    BY <1>0, <2>1, WithDeltaEnds
  <2>4. items'[k] = WithDelta(items[k], d) /\ \A j \in Keys \ {k} : items'[j] = items[j]
    BY <1>0, <2>1, <2>2, QueueActionTypes
  <2>5. Reaches(Last(items'[k]), k, pos + 1)
    BY <2>1, <2>3, <2>4 DEF Reaches
  <2> QED BY <1>1, <2>1, <2>2, <2>3, <2>4, <2>5, QueueActionTypes
<1>3. CASE hist[pos + 1][k] = Absent /\ (k \in keys \/ items[k] # <<>>)
  <2>1. QueueAction(k, Deleted)
    BY <1>1, <1>3 DEF FifoDelete
  <2>2. WithDelta(items[k], Deleted) # <<>> /\ IsDeletion(Last(WithDelta(items[k], Deleted)))
    BY <1>0, DeltaTypes, WithDeltaEnds
  <2>3. items'[k] = WithDelta(items[k], Deleted) /\ \A j \in Keys \ {k} : items'[j] = items[j]
    BY <1>0, <2>1, DeltaTypes, QueueActionTypes
  <2>4. Reaches(Last(items'[k]), k, pos + 1)
    BY <1>3, <2>2, <2>3 DEF Reaches
  <2> QED BY <1>1, <2>1, <2>2, <2>3, <2>4, DeltaTypes, QueueActionTypes
<1>4. CASE hist[pos + 1][k] = Absent /\ k \notin keys /\ items[k] = <<>>
  BY <1>1, <1>4 DEF FifoDelete, TypeOK
<1> QED BY <1>1, <1>2, <1>3, <1>4

(* What a list leaves in the queue: deltas that lead to the listed state,  *)
(* and none for a key that is neither listed, waiting nor known.           *)
LEMMA ListEffect ==
    ASSUME TypeOK, NEW n \in 1 .. Len(hist), List(n), NEW k \in Keys
    PROVE  \/ items'[k] # <<>> /\ Reaches(Last(items'[k]), k, n)
           \/ items'[k] = <<>> /\ items[k] = <<>> /\ k \notin keys /\ hist[n][k] = Absent
<1>0. items[k] \in Seq(Delta) /\ hist[n][k] \in Nat
  BY DEF TypeOK
<1>1. items'[k] = IF hist[n][k] # 0 THEN WithDelta(items[k], Put(hist[n][k]))
                  ELSE IF items[k] # <<>> \/ k \in keys THEN WithDelta(items[k], Tombstone)
                  ELSE items[k]
  BY DEF List, FifoReplace, Missing
<1>2. CASE hist[n][k] # 0
  <2> DEFINE d == Put(hist[n][k])
  <2>1. d \in Delta /\ ~IsDeletion(d) /\ d.rv = hist[n][k]
    BY <1>0, DeltaTypes
  <2>2. items'[k] = WithDelta(items[k], d)
    BY <1>1, <1>2
  <2> HIDE DEF d
  <2>3. items'[k] # <<>> /\ Last(items'[k]) = d
    BY <1>0, <2>1, <2>2, WithDeltaEnds
  <2> QED BY <2>1, <2>3 DEF Reaches
<1>3. CASE hist[n][k] = 0 /\ (items[k] # <<>> \/ k \in keys)
  <2>1. items'[k] = WithDelta(items[k], Tombstone)
    BY <1>1, <1>3
  <2>2. items'[k] # <<>> /\ IsDeletion(Last(items'[k]))
    BY <1>0, <2>1, DeltaTypes, WithDeltaEnds
  <2> QED BY <1>3, <2>2 DEF Reaches, Absent
<1>4. CASE hist[n][k] = 0 /\ items[k] = <<>> /\ k \notin keys
  BY <1>1, <1>4 DEF Absent
<1> QED BY <1>2, <1>3, <1>4

LEMMA FirstListIsList ==
    ASSUME TypeOK, FirstList
    PROVE  \E n \in 1 .. Len(hist) : List(n) /\ base' = n
BY DEF TypeOK, FirstList

LEMMA RelistIsList ==
    ASSUME TypeOK, Relist
    PROVE  \E n \in 1 .. Len(hist) : List(n) /\ base' = base
BY DEF TypeOK, Relist

LEMMA TypeInit == Init => TypeOK
<1> SUFFICES ASSUME Init PROVE TypeOK
  OBVIOUS
<1>1. hist \in Seq([Keys -> Nat]) \ {<<>>} /\ Len(hist) = 1
  BY DEF Init, ClusterInit, Absent
<1>2. rows \in [Keys -> Nat] /\ faults \in [FaultKinds -> Nat]
  BY DEF Init, StoreInit, NoRow
<1>3. items \in [Keys -> Seq(Delta)] /\ processing \in [Keys -> Seq(Delta)]
  BY NoDeltas DEF Init, FifoInit
<1>4. <<>> \in Seq(Keys) /\ 0 \in 0 .. Len(hist)
  BY <1>1
<1>5. /\ queue \in Seq(Keys) /\ populated \in BOOLEAN /\ initial \in Nat
      /\ keys \subseteq Keys /\ failed \subseteq Keys
      /\ pos \in 0 .. Len(hist) /\ base \in 0 .. Len(hist)
  BY <1>4 DEF Init, FifoInit, StoreInit
<1> QED BY <1>1, <1>2, <1>3, <1>5 DEF Init, TypeOK

LEMMA TypeStep == TypeOK /\ [Next]_vars => TypeOK'
<1> SUFFICES ASSUME TypeOK, [Next]_vars PROVE TypeOK'
  OBVIOUS
<1> USE DEF fifoVars, storeVars
<1>1. CASE Cluster
  BY <1>1, HistoryGrows DEF Cluster, TypeOK
<1>2. CASE Start
  BY <1>2 DEF Start, InitializeKeys, TypeOK
<1>3. CASE StartFails
  <2>1. faults' \in [FaultKinds -> Nat]
    BY <1>3, FaultType DEF StartFails, FaultKinds, TypeOK
  <2> QED BY <1>3, <2>1 DEF StartFails, TypeOK
<1>4. CASE Crash
  <2>1. faults' \in [FaultKinds -> Nat]
    BY <1>4, FaultType DEF Crash, FaultKinds, TypeOK
  <2>2. items' \in [Keys -> Seq(Delta)] /\ processing' \in [Keys -> Seq(Delta)]
    BY <1>4, NoDeltas DEF Crash, FifoReset
  <2>3. queue' = <<>> /\ populated' = FALSE /\ initial' = 0 /\ keys' = {}
    BY <1>4 DEF Crash, FifoReset, StoreReset
  <2>4. pos' \in 0 .. Len(hist)
    BY <1>4 DEF Crash, TypeOK
  <2>5. /\ UNCHANGED <<hist, rows, failed, included, base>>
        /\ phase' = "down"
    BY <1>4 DEF Crash, StoreReset
  <2>6. <<>> \in Seq(Keys)
    OBVIOUS
  <2> QED BY <2>1, <2>2, <2>3, <2>4, <2>5, <2>6 DEF TypeOK
<1>5. CASE FirstList
  <2>1. PICK n \in 1 .. Len(hist) : List(n) /\ base' = n
    BY <1>5, FirstListIsList
  <2> QED BY <1>5, <2>1, ListTypes DEF FirstList, List, TypeOK
<1>6. CASE Relist
  <2>1. PICK n \in 1 .. Len(hist) : List(n) /\ base' = base
    BY <1>6, RelistIsList
  <2>2. faults' \in [FaultKinds -> Nat]
    BY <1>6, FaultType DEF Relist, FaultKinds, TypeOK
  <2> QED BY <2>1, <2>2, ListTypes DEF List, TypeOK
<1>7. CASE Watch
  <2>1. pos' \in 0 .. Len(hist)
    BY <1>7 DEF Watch, Event, TypeOK
  <2> QED BY <1>7, <2>1, WatchEffect DEF Watch, Event, TypeOK
<1>8. CASE Pop
  <2>1. Head(queue) \in Keys /\ Tail(queue) \in Seq(Keys)
    BY <1>8 DEF Pop, FifoPop, TypeOK
  <2>2. items' \in [Keys -> Seq(Delta)] /\ processing' \in [Keys -> Seq(Delta)]
    BY <1>8, <2>1 DEF Pop, FifoPop, TypeOK
  <2>3. initial' \in Nat
    BY <1>8 DEF Pop, FifoPop, TypeOK
  <2> QED BY <1>8, <2>1, <2>2, <2>3 DEF Pop, FifoPop, TypeOK
<1>9. ASSUME NEW k \in Keys, Process(k) PROVE TypeOK'
  <2>1. processing[k] \in Seq(Delta) /\ processing[k] # <<>>
    BY <1>9 DEF Process, TypeOK
  <2>2. Head(processing[k]) \in Delta /\ Tail(processing[k]) \in Seq(Delta)
    BY <2>1, TailEnds
  <2>3. StoreTypes' /\ faults' \in [FaultKinds -> Nat]
    BY <1>9, <2>2, HandleEffect DEF Process, TypeOK, StoreTypes
  <2>4. processing' \in [Keys -> Seq(Delta)]
    BY <1>9, <2>2 DEF Process, TypeOK
  <2> QED BY <1>9, <2>3, <2>4 DEF Process, TypeOK, StoreTypes
<1>10. CASE UNCHANGED vars
  BY <1>10 DEF vars, TypeOK
<1> QED BY <1>1, <1>2, <1>3, <1>4, <1>5, <1>6, <1>7, <1>8, <1>9, <1>10 DEF Next

(* Every variable keeps its type, whatever the cluster, the queue and the  *)
(* faults do (syncer.go:51-267, store.go:47-155).                          *)
THEOREM TypeCorrect == Spec => []TypeOK
<1>1. Init => TypeOK
  BY TypeInit
<1>2. TypeOK /\ [Next]_vars => TypeOK'
  BY TypeStep
<1> QED BY <1>1, <1>2, PTL DEF Spec

-----------------------------------------------------------------------------
(* The inductive invariant.                                                *)

LEMMA InvInit == Init => IInv
<1> SUFFICES ASSUME Init PROVE IInv
  OBVIOUS
<1>1. \A k \in Keys : Settled(k)
  BY DEF Init, FifoInit, Settled
<1>2. phase = "down" /\ pos = 0
  BY DEF Init
<1> QED BY <1>1, <1>2, TypeInit DEF IInv, Life, TrackedRows, Pending, Mirror

(* A step that reads the cluster at version n and leaves the datastore     *)
(* alone keeps the invariant, if every key is either led to n or unknown   *)
(* and absent at n.                                                        *)
LEMMA ReadStep ==
    ASSUME IInv, TypeOK', NEW n \in 1 .. Len(hist),
           Idle, pos' = n,
           UNCHANGED <<hist, rows, keys, failed, phase, included, processing>>,
           phase = "running",
           \A k \in Keys :
              \/ items'[k] # <<>> /\ Reaches(Last(items'[k]), k, n)
              \/ items'[k] = <<>> /\ k \notin keys /\ hist[n][k] = Absent
              \/ /\ items'[k] = items[k] /\ pos > 0
                 /\ hist[n][k] = hist[pos][k]
    PROVE  IInv'
<1>1. TrackedRows' /\ Life'
  BY DEF IInv, TrackedRows, Life
<1>2. ASSUME NEW k \in Keys PROVE processing'[k] = <<>>
  BY DEF Idle
<1>3. Pending'
  <2> SUFFICES ASSUME NEW k \in Keys, items'[k] # <<>>
               PROVE  Reaches(Last(items'[k]), k, n)
    BY <1>2 DEF Pending, Reaches
  <2> QED BY DEF IInv, Pending, Reaches
<1>4. Mirror'
  <2> SUFFICES ASSUME NEW k \in Keys, k \notin failed, items'[k] = <<>>
               PROVE  rows[k] = Want(k, n)
    BY DEF Mirror, Settled, Want, MatchesNamespace
  <2>1. CASE k \notin keys /\ hist[n][k] = Absent
    BY <2>1 DEF IInv, TrackedRows, Want, NoRow, Absent
  <2>2. CASE items'[k] = items[k] /\ pos > 0 /\ hist[n][k] = hist[pos][k]
    BY <2>2, <1>2 DEF IInv, Mirror, Settled, Want
  <2> QED BY <2>1, <2>2
<1> QED BY <1>1, <1>3, <1>4 DEF IInv

LEMMA InvList ==
    ASSUME IInv, TypeOK', NEW n \in 1 .. Len(hist), List(n)
    PROVE  IInv'
<1>1. TypeOK
  BY DEF IInv
<1> QED BY <1>1, ListEffect, ReadStep DEF List, storeVars

LEMMA InvWatch ==
    ASSUME IInv, TypeOK', Watch
    PROVE  IInv'
<1>0. TypeOK /\ pos > 0 /\ pos < Len(hist) /\ pos' = pos + 1
  BY DEF IInv, Watch, Event
<1>1. pos \in 1 .. Len(hist) /\ pos + 1 \in 1 .. Len(hist)
  BY <1>0 DEF TypeOK
<1>2. PICK k \in Keys :
          /\ hist[pos + 1] = [hist[pos] EXCEPT ![k] = hist[pos + 1][k]]
          /\ \A j \in Keys \ {k} : items'[j] = items[j]
          /\ \/ items'[k] # <<>> /\ Reaches(Last(items'[k]), k, pos + 1)
             \/ /\ items' = items /\ items[k] = <<>> /\ k \notin keys
                /\ hist[pos + 1][k] = Absent
  BY <1>0, WatchEffect
<1>3. \A j \in Keys \ {k} : hist[pos + 1][j] = hist[pos][j]
  <2>1. hist[pos] \in [Keys -> Nat]
    BY <1>0, <1>1, ElementOfSeq DEF TypeOK
  <2> QED BY <1>2, <2>1
<1> QED BY <1>0, <1>1, <1>2, <1>3, ReadStep DEF Watch, Event, storeVars

LEMMA InvPop ==
    ASSUME IInv, TypeOK', Pop
    PROVE  IInv'
<1> DEFINE h == Head(queue)
<1>1. h \in Keys
  BY DEF IInv, TypeOK, Pop, FifoPop
<1>2. /\ items' = [items EXCEPT ![h] = <<>>]
      /\ processing' = [processing EXCEPT ![h] = items[h]]
      /\ UNCHANGED <<hist, rows, keys, failed, phase, included, pos>>
      /\ Idle /\ phase = "running"
  BY DEF Pop, FifoPop, storeVars
<1> HIDE DEF h
<1>3. /\ items'[h] = <<>> /\ processing'[h] = items[h] /\ processing[h] = <<>>
      /\ \A k \in Keys \ {h} : items'[k] = items[k] /\ processing'[k] = processing[k]
  BY <1>1, <1>2 DEF IInv, TypeOK, Idle
<1>4. Life' /\ TrackedRows'
  BY <1>2, <1>3 DEF IInv, Life, TrackedRows, Settled
<1>5. Pending'
  BY <1>2, <1>3 DEF IInv, Pending, Reaches
<1>6. Mirror'
  BY <1>2, <1>3 DEF IInv, Mirror, Settled, Want, MatchesNamespace
<1> QED BY <1>4, <1>5, <1>6 DEF IInv

LEMMA InvProcess ==
    ASSUME IInv, TypeOK', NEW k \in Keys, Process(k)
    PROVE  IInv'
<1> DEFINE d == Head(processing[k])
<1>1. processing[k] \in Seq(Delta) /\ processing[k] # <<>> /\ TypeOK
  BY DEF Process, IInv, TypeOK
<1>2. /\ d \in Delta /\ Tail(processing[k]) \in Seq(Delta)
      /\ Tail(processing[k]) # <<>> => Last(Tail(processing[k])) = Last(processing[k])
      /\ Tail(processing[k]) = <<>> => d = Last(processing[k])
  BY <1>1, TailEnds
<1>3. /\ Handle(k, d)
      /\ processing' = [processing EXCEPT ![k] = Tail(@)]
      /\ UNCHANGED <<hist, items, phase, included, pos>>
      /\ phase = "running"
  BY DEF Process, fifoVars
<1> HIDE DEF d
<1>4. /\ OnlyTouches(k)
      /\ \/ k \notin failed' /\ rows'[k] = NoRow
            /\ (IsDeletion(d) \/ ~MatchesNamespace(k))
         \/ k \notin failed' /\ k \in keys' /\ rows'[k] = d.rv
            /\ ~IsDeletion(d) /\ MatchesNamespace(k)
         \/ k \in failed' /\ keys' = keys
            /\ (rows'[k] = rows[k] \/ rows'[k] = NoRow \/ "applied" \in ErrorOutcomes)
         \/ UNCHANGED storeVars /\ k \notin keys /\ ~MatchesNamespace(k)
  BY <1>1, <1>2, <1>3, HandleEffect DEF StoreTypes, TypeOK
<1>5. /\ processing'[k] = Tail(processing[k])
      /\ \A j \in Keys \ {k} : processing'[j] = processing[j]
  BY <1>1, <1>3 DEF TypeOK
<1>6. pos > 0 /\ Life'
  BY <1>1, <1>3 DEF IInv, Life, Settled, TypeOK
<1>7. TrackedRows'
  BY <1>3, <1>4 DEF IInv, TrackedRows, OnlyTouches, storeVars
<1>8. Pending'
  <2>1. ASSUME NEW j \in Keys, items'[j] # <<>> PROVE Reaches(Last(items[j]), j, pos)
    BY <1>3, <1>6, <2>1 DEF IInv, Pending
  <2>2. ASSUME NEW j \in Keys, processing'[j] # <<>> PROVE Reaches(Last(processing'[j]), j, pos)
    BY <1>1, <1>2, <1>5, <1>6, <2>2 DEF IInv, Pending
  <2> QED BY <1>3, <2>1, <2>2 DEF Pending, Reaches
<1>9. Mirror'
  <2> SUFFICES ASSUME NEW j \in Keys, j \notin failed', Settled(j)'
               PROVE  rows'[j] = Want(j, pos)
    BY <1>3 DEF Mirror, Want, MatchesNamespace
  <2>1. CASE j # k
    BY <1>3, <1>4, <1>5, <1>6, <2>1 DEF IInv, Mirror, Settled, OnlyTouches
  <2>2. CASE j = k
    <3>1. Reaches(d, k, pos)
      BY <1>1, <1>2, <1>5, <1>6, <2>2 DEF IInv, Pending, Settled
    <3>2. CASE UNCHANGED storeVars /\ k \notin keys /\ ~MatchesNamespace(k)
      BY <1>3, <2>2, <3>2 DEF IInv, TrackedRows, Want, storeVars
    <3> QED BY <1>4, <2>2, <3>1, <3>2 DEF Reaches, Want, NoRow, Absent
  <2> QED BY <2>1, <2>2
<1> QED BY <1>6, <1>7, <1>8, <1>9 DEF IInv

LEMMA InvCluster ==
    ASSUME IInv, TypeOK', Cluster
    PROVE  IInv'
<1>1. TypeOK /\ \A n \in 1 .. Len(hist) : hist'[n] = hist[n]
  BY HistoryGrows DEF IInv, TypeOK, Cluster
<1>2. UNCHANGED <<items, rows, keys, failed, phase, included, pos, processing>>
  BY DEF Cluster, fifoVars, storeVars
<1>3. pos > 0 => hist'[pos] = hist[pos]
  BY <1>1 DEF TypeOK
<1>4. Life' /\ TrackedRows'
  BY <1>2 DEF IInv, Life, TrackedRows, Settled
<1>5. Pending'
  BY <1>2, <1>3 DEF IInv, Pending, Reaches
<1>6. Mirror'
  BY <1>2, <1>3 DEF IInv, Mirror, Settled, Want, MatchesNamespace
<1> QED BY <1>4, <1>5, <1>6 DEF IInv

(* The process starts, gives up or stops: no list has been seen. *)
LEMMA InvLifecycle ==
    ASSUME IInv, TypeOK', Start \/ StartFails \/ Crash
    PROVE  IInv'
<1>1. pos' = 0
  BY DEF IInv, Life, Start, StartFails, Crash
<1>2. \A k \in Keys : Settled(k)'
  BY DEF IInv, Life, Settled, Start, StartFails, Crash, FifoReset, fifoVars
<1>3. TrackedRows'
  BY DEF IInv, TypeOK, TrackedRows, Start, InitializeKeys, StartFails, Crash
<1> QED BY <1>1, <1>2, <1>3 DEF IInv, Life, Pending, Mirror

LEMMA InvStep == IInv /\ [Next]_vars => IInv'
<1> SUFFICES ASSUME IInv, [Next]_vars PROVE IInv'
  OBVIOUS
<1>0. TypeOK /\ TypeOK'
  BY TypeStep DEF IInv
<1>1. CASE Cluster
  BY <1>0, <1>1, InvCluster
<1>2. CASE Start \/ StartFails \/ Crash
  BY <1>0, <1>2, InvLifecycle
<1>3. CASE FirstList
  BY <1>0, <1>3, FirstListIsList, InvList
<1>4. CASE Relist
  BY <1>0, <1>4, RelistIsList, InvList
<1>5. CASE Watch
  BY <1>0, <1>5, InvWatch
<1>6. CASE Pop
  BY <1>0, <1>6, InvPop
<1>7. ASSUME NEW k \in Keys, Process(k) PROVE IInv'
  BY <1>0, <1>7, InvProcess
<1>8. CASE UNCHANGED vars
  BY <1>0, <1>8 DEF vars, IInv, Life, TrackedRows, Pending, Mirror, Settled,
                    Reaches, Want, MatchesNamespace
<1> QED BY <1>1, <1>2, <1>3, <1>4, <1>5, <1>6, <1>7, <1>8 DEF Next

THEOREM Invariance == Spec => []IInv
<1>1. Init => IInv
  BY InvInit
<1>2. IInv /\ [Next]_vars => IInv'
  BY InvStep
<1> QED BY <1>1, <1>2, PTL DEF Spec

-----------------------------------------------------------------------------
(* Whatever the interleaving of cluster, Reflector, process loop, crashes, *)
(* restarts with other filters and failing datastore calls: a settled key  *)
(* that did not just fail has exactly the row it should have               *)
(* (syncer.go:99-239).                                                     *)
THEOREM MirrorAlways == Spec => []Mirror
<1>1. IInv => Mirror
  BY DEF IInv
<1> QED BY <1>1, Invariance, PTL

(* The key map of store.go never misses a row, except after an upsert that *)
(* took effect and returned an error (store.go:75-77).                     *)
THEOREM RowsAreTracked == Spec => []TrackedRows
<1>1. IInv => TrackedRows
  BY DEF IInv
<1> QED BY <1>1, Invariance, PTL

(* With a datastore whose errors mean that nothing was written, no row is  *)
(* ever unknown to the key map that decides which deletions are passed on. *)
THEOREM CleanErrorsTrackEveryRow ==
    ASSUME "applied" \notin ErrorOutcomes
    PROVE  Spec => [](phase = "running" => \A k \in Keys : rows[k] # NoRow => k \in keys)
<1>1. IInv => (phase = "running" => \A k \in Keys : rows[k] # NoRow => k \in keys)
  BY DEF IInv, TrackedRows
<1> QED BY <1>1, Invariance, PTL
=============================================================================
