---------------------------- MODULE MirrorProofs ----------------------------
(***************************************************************************)
(* Machine-checked proof that the pipeline implements StateMirror: a row   *)
(* is only ever written from a version of the cluster no older than the    *)
(* first list of this run and, once written in this run, no older than the *)
(* version the row shows.  With consistent first lists that holds from one *)
(* run to the next as well.                                                *)
(*                                                                         *)
(* A row is written when the deltas of its key are handled, long after     *)
(* they were queued, so the order has to be carried through the queue:     *)
(* the deltas of a key lead to versions no older than those of the deltas  *)
(* before them (Chained).  So whoever writes a row puts it in step with    *)
(* what still waits, and it stays so, since new deltas join at the end     *)
(* with the Reflector's position, which no such row is ahead of.           *)
(*                                                                         *)
(* The last part proves that the pipeline comes to rest only when it has   *)
(* mirrored the cluster: the invariants say that nothing waits unseen, and *)
(* a version more than the Reflector's is an event it can read.            *)
(***************************************************************************)
EXTENDS InitialSyncProofs

(* The deltas s of key k lead, one after the other, to versions between a  *)
(* and b that are not older than version r.                                *)
InOrder(s, k, a, b, r) ==
    \A j \in 1 .. Len(s) : \E n \in a .. b :
        /\ Reaches(s[j], k, n)
        /\ n >= r
        /\ \A i \in 1 .. j - 1 : IsDeletion(s[i]) \/ s[i].rv <= n

InStep(k, r) ==
    InOrder(items[k], k, base, pos, r) /\ InOrder(processing[k], k, base, pos, r)

(* Pop lets nobody queue deltas for a key that is being processed. *)
OneBatch == \A k \in Keys : processing[k] # <<>> => items[k] = <<>>

(* An object was last modified at a version up to the one it is seen at. *)
PastVersions == \A n \in 1 .. Len(hist) : \A k \in Keys : hist[n][k] <= n

Chained == pos > 0 => \A k \in Keys : InStep(k, 0)

(* With consistent first lists no row is ever ahead of the Reflector. *)
RowsBehind ==
    ~StaleLists =>
        IF pos > 0 THEN CaughtUp = Keys ELSE \A k \in Keys : rows[k] <= Len(hist)

OrderInv == OneBatch /\ PastVersions /\ Chained /\ RowsBehind

-----------------------------------------------------------------------------
(* Deltas.                                                                 *)

LEMMA NothingToOrder == ASSUME NEW k, NEW a, NEW b, NEW r PROVE InOrder(<<>>, k, a, b, r)
BY DEF InOrder

LEMMA OrderLater ==
    ASSUME NEW k, NEW s, NEW a \in Nat, NEW b \in Nat, NEW c \in Nat, b <= c, NEW r,
           InOrder(s, k, a, b, r)
    PROVE  InOrder(s, k, a, c, r)
<1>1. a .. b \subseteq a .. c
  OBVIOUS
<1> QED BY <1>1 DEF InOrder

(* A delta that leads to version c goes behind deltas of older versions,   *)
(* or in place of the last one.                                            *)
LEMMA OrderMore ==
    ASSUME PastVersions, NEW k \in Keys, NEW s \in Seq(Delta), NEW d \in Delta,
           NEW a \in Nat, NEW b \in Nat, NEW c \in Nat, 0 < a, a <= b, b <= c, b <= Len(hist),
           NEW r \in Nat, r <= c,
           hist \in Seq([Keys -> Nat]),
           InOrder(s, k, a, b, r), Reaches(d, k, c)
    PROVE  InOrder(WithDelta(s, d), k, a, c, r)
<1>1. a .. b \subseteq a .. c /\ c \in a .. c /\ a .. b \subseteq 1 .. Len(hist)
  OBVIOUS
<1>2. \A i \in 1 .. Len(s) : IsDeletion(s[i]) \/ s[i].rv <= c
  <2> SUFFICES ASSUME NEW i \in 1 .. Len(s), ~IsDeletion(s[i]) PROVE s[i].rv <= c
    OBVIOUS
  <2>1. PICK n \in a .. b : Reaches(s[i], k, n)
    BY DEF InOrder
  <2>2. s[i].rv = hist[n][k] /\ hist[n][k] <= n /\ n \in Nat /\ n <= c
    BY <1>1, <2>1 DEF Reaches, PastVersions
  <2>3. hist[n][k] \in Nat
    BY <1>1, <2>1
  <2> QED BY <2>2, <2>3
<1> SUFFICES ASSUME NEW j \in 1 .. Len(WithDelta(s, d))
             PROVE  \E n \in a .. c :
                       /\ Reaches(WithDelta(s, d)[j], k, n)
                       /\ n >= r
                       /\ \A i \in 1 .. j - 1 :
                             IsDeletion(WithDelta(s, d)[i]) \/ WithDelta(s, d)[i].rv <= n
  BY DEF InOrder
<1> DEFINE w == WithDelta(s, d)
<1>3. w \in Seq(Delta) /\ Len(w) \in Nat /\ Len(s) \in Nat
  <2>1. w \in Seq(Delta)
    BY WithDeltaEnds
  <2> HIDE DEF w
  <2> QED BY <2>1
<1>4. \A i \in 1 .. Len(w) : w[i] = d \/ (i \in 1 .. Len(s) /\ w[i] = s[i])
  BY WithDeltaMembers
(* Only the last delta is new. *)
<1>5. \A i \in 1 .. Len(w) - 1 : i \in 1 .. Len(s) /\ w[i] = s[i]
  <2>1. CASE s # <<>> /\ IsDeletion(d) /\ IsDeletion(Last(s))
    <3>1. CASE d.type = "tombstone"
      <4>1. w = s
        BY <2>1, <3>1 DEF WithDelta
      <4> QED BY <1>3, <4>1
    <3>2. CASE d.type # "tombstone"
      <4>1. w = [s EXCEPT ![Len(s)] = d]
        BY <2>1, <3>2 DEF WithDelta
      <4> QED BY <1>3, <4>1
    <3> QED BY <3>1, <3>2
  <2>2. CASE ~(s # <<>> /\ IsDeletion(d) /\ IsDeletion(Last(s)))
    <3>1. w = Append(s, d)
      BY <2>2 DEF WithDelta
    <3> QED BY <3>1
  <2> QED BY <2>1, <2>2
<1> HIDE DEF w
<1>6. \A i \in 1 .. j - 1 : i \in 1 .. Len(s) /\ w[i] = s[i]
  <2>1. j \in 1 .. Len(w)
    BY DEF w
  <2>2. \A i \in 1 .. j - 1 : i \in 1 .. Len(w) - 1
    BY <1>3, <2>1
  <2> QED BY <1>5, <2>2
<1>7. CASE w[j] = d
  <2>1. \A i \in 1 .. j - 1 : IsDeletion(w[i]) \/ w[i].rv <= c
    BY <1>2, <1>6
  <2>2. c >= r
    OBVIOUS
  <2> QED BY <1>1, <1>7, <2>1, <2>2 DEF w
<1>8. CASE j \in 1 .. Len(s) /\ w[j] = s[j]
  <2>1. PICK n \in a .. b :
            /\ Reaches(s[j], k, n)
            /\ n >= r
            /\ \A i \in 1 .. j - 1 : IsDeletion(s[i]) \/ s[i].rv <= n
    BY <1>8 DEF InOrder
  <2>2. \A i \in 1 .. j - 1 : IsDeletion(w[i]) \/ w[i].rv <= n
    BY <1>6, <2>1
  <2> QED BY <1>1, <1>8, <2>1, <2>2 DEF w
<1>9. w[j] = d \/ (j \in 1 .. Len(s) /\ w[j] = s[j])
  BY <1>4 DEF w
<1> QED BY <1>7, <1>8, <1>9

(* Handling the first delta leaves the others in order after it. *)
LEMMA OrderTail ==
    ASSUME NEW k \in Keys, NEW s \in Seq(Delta), s # <<>>, NEW a, NEW b, NEW r \in Nat,
           a \in Nat, b \in Nat, InOrder(s, k, a, b, r),
           NEW v \in Nat, v = r \/ v = 0 \/ (~IsDeletion(Head(s)) /\ v = Head(s).rv)
    PROVE  InOrder(Tail(s), k, a, b, v)
<1>1. /\ Len(s) \in Nat /\ Len(s) > 0 /\ Head(s) = s[1]
      /\ Len(Tail(s)) = Len(s) - 1
      /\ \A i \in 1 .. Len(Tail(s)) : Tail(s)[i] = s[i + 1]
  OBVIOUS
<1> SUFFICES ASSUME NEW j \in 1 .. Len(Tail(s))
             PROVE  \E n \in a .. b :
                       /\ Reaches(Tail(s)[j], k, n)
                       /\ n >= v
                       /\ \A i \in 1 .. j - 1 : IsDeletion(Tail(s)[i]) \/ Tail(s)[i].rv <= n
  BY DEF InOrder
<1>2. j + 1 \in 1 .. Len(s) /\ Tail(s)[j] = s[j + 1] /\ j \in Nat
  BY <1>1
<1>3. PICK n \in a .. b :
          /\ Reaches(s[j + 1], k, n)
          /\ n >= r
          /\ \A i \in 1 .. (j + 1) - 1 : IsDeletion(s[i]) \/ s[i].rv <= n
  BY <1>2 DEF InOrder
<1>4. n \in Nat
  BY <1>3
<1>5. 1 \in 1 .. (j + 1) - 1
  BY <1>2
<1>6. n >= v
  <2>1. IsDeletion(s[1]) \/ s[1].rv <= n
    BY <1>3, <1>5
  <2> QED BY <1>1, <1>3, <1>4, <2>1
<1>7. \A i \in 1 .. j - 1 : IsDeletion(Tail(s)[i]) \/ Tail(s)[i].rv <= n
  <2> TAKE i \in 1 .. j - 1
  <2>1. i + 1 \in 1 .. (j + 1) - 1 /\ i \in 1 .. Len(Tail(s))
    BY <1>1, <1>2
  <2>2. Tail(s)[i] = s[i + 1]
    BY <1>1, <2>1
  <2> QED BY <1>3, <2>1, <2>2
<1> QED BY <1>2, <1>3, <1>6, <1>7

(* The handling of a delta leaves the row, or makes it what the delta and  *)
(* the filter ask for.                                                     *)
LEMMA HandleRow ==
    ASSUME StoreTypes, NEW k \in Keys, NEW d \in Delta, Handle(k, d)
    PROVE  \/ rows' = rows
           \/ rows' = [rows EXCEPT ![k] = IF IsDeletion(d) \/ ~MatchesNamespace(k)
                                          THEN NoRow ELSE d.rv]
<1>1. CASE IsDeletion(d) /\ DeleteFunc(k, d.type = "tombstone")
  BY <1>1 DEF DeleteFunc, Delete, DeleteError
<1>2. CASE ~IsDeletion(d) /\ k \in keys /\ UpdateFunc(k, d.rv)
  BY <1>2 DEF UpdateFunc, Update, UpdateError, Delete, DeleteError
<1>3. CASE ~IsDeletion(d) /\ k \notin keys /\ AddFunc(k, d.rv)
  BY <1>3 DEF AddFunc, Update, UpdateError, storeVars
<1> QED BY <1>1, <1>2, <1>3 DEF Handle

-----------------------------------------------------------------------------
(* Keys that have caught up.                                               *)

(* Of two versions a delta leads to, the later one will do. *)
LEMMA InOrderFrom ==
    ASSUME NEW k, NEW s \in Seq(Delta), NEW a \in Nat, NEW b \in Nat, NEW r \in Nat,
           InOrder(s, k, a, b, 0),
           \A j \in 1 .. Len(s) : \E n \in a .. b : n >= r /\ Reaches(s[j], k, n)
    PROVE  InOrder(s, k, a, b, r)
<1> SUFFICES ASSUME NEW j \in 1 .. Len(s)
             PROVE  \E n \in a .. b :
                       /\ Reaches(s[j], k, n)
                       /\ n >= r
                       /\ \A i \in 1 .. j - 1 : IsDeletion(s[i]) \/ s[i].rv <= n
  BY DEF InOrder
<1>1. PICK m \in a .. b : m >= r /\ Reaches(s[j], k, m)
  OBVIOUS
<1>2. PICK n \in a .. b :
          /\ Reaches(s[j], k, n)
          /\ \A i \in 1 .. j - 1 : IsDeletion(s[i]) \/ s[i].rv <= n
  BY DEF InOrder
<1>3. CASE n >= r
  BY <1>2, <1>3
<1>4. CASE n < m
  <2>1. \A i \in 1 .. j - 1 : s[i].rv \in Nat
    <3>1. \A i \in 1 .. j - 1 : i \in 1 .. Len(s) /\ s[i] \in Delta
      OBVIOUS
    <3> QED BY <3>1 DEF Delta
  <2>2. \A i \in 1 .. j - 1 : IsDeletion(s[i]) \/ s[i].rv <= m
    BY <1>2, <1>4, <2>1
  <2> QED BY <1>1, <2>2
<1> QED BY <1>1, <1>2, <1>3, <1>4

LEMMA CaughtUpInStep ==
    TypeOK /\ Started /\ Chained /\ pos > 0 =>
        CaughtUp = {k \in Keys : rows[k] <= pos /\ InStep(k, rows[k])}
<1> SUFFICES ASSUME TypeOK, Started, Chained, pos > 0, NEW k \in Keys
             PROVE  k \in CaughtUp <=> rows[k] <= pos /\ InStep(k, rows[k])
  BY DEF CaughtUp
<1>0. /\ base \in Nat /\ pos \in Nat /\ rows[k] \in Nat
      /\ items[k] \in Seq(Delta) /\ processing[k] \in Seq(Delta)
  BY DEF TypeOK
<1>1. \A s \in {items[k], processing[k]} :
         /\ InOrder(s, k, base, pos, 0)
         /\ ToSet(s) = {s[j] : j \in 1 .. Len(s)}
  BY <1>0 DEF Chained, InStep, ToSet
<1>2. \A s \in {items[k], processing[k]} :
         (\A d \in ToSet(s) : \E n \in base .. pos : n >= rows[k] /\ Reaches(d, k, n))
            <=> \A j \in 1 .. Len(s) : \E n \in base .. pos :
                     n >= rows[k] /\ Reaches(s[j], k, n)
  BY <1>1
<1>3. k \in CaughtUp <=>
         /\ rows[k] <= pos
         /\ \A s \in {items[k], processing[k]} :
               \A d \in ToSet(s) : \E n \in base .. pos : n >= rows[k] /\ Reaches(d, k, n)
  BY DEF CaughtUp
<1>4. ASSUME NEW s \in {items[k], processing[k]}
      PROVE  InOrder(s, k, base, pos, rows[k]) <=>
                \A j \in 1 .. Len(s) : \E n \in base .. pos :
                    n >= rows[k] /\ Reaches(s[j], k, n)
  <2>1. InOrder(s, k, base, pos, rows[k]) =>
           \A j \in 1 .. Len(s) : \E n \in base .. pos : n >= rows[k] /\ Reaches(s[j], k, n)
    BY DEF InOrder
  <2> QED BY <1>0, <1>1, <2>1, InOrderFrom
<1> QED BY <1>2, <1>3, <1>4 DEF InStep

LEMMA CaughtUpInStepNext ==
    TypeOK' /\ Started' /\ Chained' /\ pos' > 0 =>
        CaughtUp' = {k \in Keys : rows'[k] <= pos' /\ InStep(k, rows[k])'}
<1>1. (TypeOK /\ Started /\ Chained /\ pos > 0)'
        => (CaughtUp = {k \in Keys : rows[k] <= pos /\ InStep(k, rows[k])})'
  BY CaughtUpInStep, PTL
<1> QED BY <1>1

-----------------------------------------------------------------------------
(* The steps: each keeps the invariant, and no key falls behind.           *)

(* A later list or a watch event: new deltas show the new position. *)
LEMMA OrderRead ==
    ASSUME TypeOK, TypeOK', Started, Started', OrderInv, pos > 0, pos' >= pos, Idle,
           UNCHANGED <<hist, rows, base, processing>>,
           \A k \in Keys :
              \/ items'[k] = items[k]
              \/ \E d \in Delta : items'[k] = WithDelta(items[k], d) /\ Reaches(d, k, pos')
    PROVE  OrderInv' /\ CaughtUp \subseteq CaughtUp'
<1>0. /\ pos \in Nat /\ pos' \in Nat /\ base \in Nat /\ 0 < base /\ base <= pos
      /\ pos <= Len(hist) /\ pos' <= Len(hist)
      /\ hist \in Seq([Keys -> Nat])
  BY DEF TypeOK, Started
<1>1. \A k \in Keys : items[k] \in Seq(Delta) /\ rows[k] \in Nat
  BY DEF TypeOK
<1>2. OneBatch' /\ PastVersions'
  BY DEF OrderInv, OneBatch, PastVersions, Idle
<1>3. ASSUME NEW k \in Keys, NEW r \in Nat, r <= pos', InStep(k, r)
      PROVE  InStep(k, r)'
  <2>0. InOrder(processing[k], k, base, pos', r)
    BY <1>0, <1>3, OrderLater DEF InStep
  <2>1. CASE items'[k] = items[k]
    <3>1. InOrder(items'[k], k, base, pos', r)
      BY <1>0, <1>3, <2>1, OrderLater DEF InStep
    <3> QED BY <2>0, <3>1 DEF InStep, InOrder, Reaches
  <2>2. ASSUME NEW d \in Delta, items'[k] = WithDelta(items[k], d), Reaches(d, k, pos')
        PROVE  InStep(k, r)'
    <3>1. InOrder(WithDelta(items[k], d), k, base, pos', r)
      BY <1>0, <1>1, <1>3, <2>2, OrderMore DEF OrderInv, InStep
    <3>2. InOrder(items'[k], k, base, pos', r)
      BY <2>2, <3>1
    <3> QED BY <2>0, <3>2 DEF InStep, InOrder, Reaches
  <2> QED BY <2>1, <2>2
<1>4. Chained'
  BY <1>0, <1>3 DEF OrderInv, Chained
<1>5. CaughtUp \subseteq CaughtUp'
  <2> SUFFICES ASSUME NEW k \in Keys, k \in CaughtUp PROVE k \in CaughtUp'
    BY DEF CaughtUp
  <2>1. rows[k] <= pos /\ InStep(k, rows[k])
    BY CaughtUpInStep DEF OrderInv
  <2>2. rows[k] <= pos' /\ InStep(k, rows[k])'
    <3>1. rows[k] <= pos'
      BY <1>0, <1>1, <2>1
    <3>2. ASSUME NEW r \in Nat, r = rows[k] PROVE InStep(k, r)' /\ rows'[k] = r
      BY <1>3, <2>1, <3>1, <3>2
    <3>3. InStep(k, rows[k])'
      BY <1>1, <3>2 DEF InStep
    <3> QED BY <3>1, <3>3
  <2>3. pos' > 0
    BY <1>0
  <2> QED BY <1>4, <2>2, <2>3, CaughtUpInStepNext
<1>6. RowsBehind'
  <2>1. pos' > 0 /\ CaughtUp' \subseteq Keys
    BY <1>0 DEF CaughtUp
  <2> QED BY <1>5, <2>1 DEF OrderInv, RowsBehind
<1> QED BY <1>2, <1>4, <1>5, <1>6 DEF OrderInv

LEMMA OrderRelist ==
    ASSUME IInv, TypeOK', SyncInv, SyncInv', OrderInv, Relist
    PROVE  OrderInv' /\ CaughtUp \subseteq CaughtUp'
<1>1. PICK n \in pos .. Len(hist) : List(n)
  BY DEF Relist
<1>2. TypeOK /\ pos > 0 /\ n \in 1 .. Len(hist) /\ pos' = n /\ pos' >= pos
  BY <1>1 DEF IInv, TypeOK, Relist, List
<1>3. Idle /\ UNCHANGED <<hist, rows, base, processing>>
  BY <1>1 DEF List, Relist, storeVars
<1>4. \A k \in Keys :
         \/ items'[k] = items[k]
         \/ \E d \in Delta : items'[k] = WithDelta(items[k], d) /\ Reaches(d, k, pos')
  BY <1>1, <1>2, ListDeltas
<1> QED BY <1>2, <1>3, <1>4, OrderRead DEF SyncInv

LEMMA OrderWatch ==
    ASSUME IInv, TypeOK', SyncInv, SyncInv', OrderInv, Watch
    PROVE  OrderInv' /\ CaughtUp \subseteq CaughtUp'
<1>1. TypeOK /\ pos > 0 /\ pos' = pos + 1
  BY DEF IInv, Watch, Event
<1>2. pos' >= pos
  BY <1>1 DEF TypeOK
<1>3. Idle /\ UNCHANGED <<hist, rows, base, processing>>
  BY DEF Watch, Event, storeVars
<1> QED BY <1>1, <1>2, <1>3, WatchDeltas, OrderRead DEF SyncInv

(* A consistent first list is as new as any row. *)
LEMMA OrderFirstList ==
    ASSUME IInv, TypeOK', SyncInv', OrderInv, FirstList
    PROVE  OrderInv'
<1>0. /\ TypeOK /\ pos = 0 /\ hist \in Seq([Keys -> Nat])
      /\ Len(hist) \in Nat /\ Len(hist) > 0
  BY DEF IInv, TypeOK, FirstList
<1>1. PICK n \in 1 .. Len(hist) :
          List(n) /\ base' = n /\ (~StaleLists => n = Len(hist))
  BY <1>0 DEF FirstList
<1>2. n \in Nat /\ 0 < n /\ n <= n /\ n <= Len(hist)
  BY <1>0
<1>3. pos' = n /\ Idle /\ UNCHANGED <<hist, rows, processing>>
  BY <1>1 DEF List, storeVars
<1>4. \A k \in Keys : /\ items[k] = <<>> /\ processing[k] = <<>>
                      /\ items[k] \in Seq(Delta) /\ rows[k] \in Nat
  BY <1>0 DEF IInv, TypeOK, Life, Settled
<1>5. OneBatch' /\ PastVersions'
  BY <1>3, <1>4 DEF OrderInv, OneBatch, PastVersions
<1>6. ASSUME NEW k \in Keys, NEW r \in Nat, r <= n PROVE InStep(k, r)'
  <2>1. InOrder(items[k], k, n, n, r) /\ InOrder(processing[k], k, n, n, r)
    BY <1>4, NothingToOrder
  <2>2. ASSUME NEW d \in Delta, items'[k] = WithDelta(items[k], d), Reaches(d, k, n)
        PROVE  InOrder(items'[k], k, n, n, r)
    <3>1. InOrder(WithDelta(items[k], d), k, n, n, r)
      BY <1>0, <1>2, <1>4, <1>6, <2>1, <2>2, OrderMore DEF OrderInv
    <3> QED BY <2>2, <3>1
  <2>3. InOrder(items'[k], k, n, n, r)
    BY <1>0, <1>1, <2>1, <2>2, ListDeltas
  <2> QED BY <1>1, <1>3, <2>1, <2>3 DEF InStep, InOrder, Reaches
<1>7. Chained'
  BY <1>2, <1>6 DEF Chained
<1>8. RowsBehind'
  <2> SUFFICES ASSUME ~StaleLists, NEW k \in Keys PROVE k \in CaughtUp'
    BY <1>2, <1>3 DEF RowsBehind, CaughtUp
  <2>1. rows[k] \in Nat /\ rows[k] <= n
    BY <1>0, <1>1, <1>4 DEF OrderInv, RowsBehind
  <2>2. ASSUME NEW r \in Nat, r = rows[k] PROVE InStep(k, rows[k])'
    BY <1>3, <1>6, <2>1, <2>2 DEF InStep
  <2>3. rows'[k] <= pos' /\ InStep(k, rows[k])' /\ pos' > 0
    BY <1>2, <1>3, <2>1, <2>2
  <2> QED BY <1>7, <2>3, CaughtUpInStepNext DEF SyncInv
<1> QED BY <1>5, <1>7, <1>8 DEF OrderInv

(* The deltas of a key go to Process as they are. *)
LEMMA OrderPop ==
    ASSUME IInv, TypeOK', SyncInv, SyncInv', OrderInv, Pop
    PROVE  OrderInv' /\ CaughtUp \subseteq CaughtUp'
<1> DEFINE h == Head(queue)
<1>1. h \in Keys
  BY DEF IInv, TypeOK, Pop, FifoPop
<1>2. /\ items' = [items EXCEPT ![h] = <<>>]
      /\ processing' = [processing EXCEPT ![h] = items[h]]
      /\ UNCHANGED <<hist, rows, pos, base>>
      /\ Idle
  BY DEF Pop, FifoPop, storeVars
<1> HIDE DEF h
<1>3. /\ items'[h] = <<>> /\ processing'[h] = items[h]
      /\ \A k \in Keys \ {h} : items'[k] = items[k] /\ processing'[k] = <<>>
  BY <1>1, <1>2 DEF IInv, TypeOK, Idle
<1>4. OneBatch'
  BY <1>3 DEF OneBatch
<1>5. UNCHANGED <<hist, rows, pos, base>>
  BY <1>2
<1>6. ASSUME NEW k \in Keys, NEW r, InStep(k, r) PROVE InStep(k, r)'
  <2>1. /\ InOrder(items'[k], k, base, pos, r)
        /\ InOrder(processing'[k], k, base, pos, r)
    BY <1>3, <1>6, NothingToOrder DEF InStep
  <2> QED BY <1>5, <2>1 DEF InStep, InOrder, Reaches
<1>7. Chained'
  BY <1>5, <1>6 DEF OrderInv, Chained
<1>8. CaughtUp \subseteq CaughtUp'
  <2> SUFFICES ASSUME NEW k \in Keys, k \in CaughtUp PROVE k \in CaughtUp'
    BY DEF CaughtUp
  <2>1. pos > 0
    BY <1>1 DEF IInv, Life, Settled, TypeOK, Pop, FifoPop, SyncInv, Started
  <2>2. rows[k] <= pos /\ InStep(k, rows[k])
    BY <2>1, CaughtUpInStep DEF OrderInv, IInv, SyncInv
  <2>3. InStep(k, rows[k])'
    <3>1. ASSUME NEW r, r = rows[k] PROVE InStep(k, rows[k])'
      BY <1>5, <1>6, <2>2, <3>1 DEF InStep
    <3> QED BY <3>1
  <2>4. rows'[k] <= pos' /\ pos' > 0
    BY <1>5, <2>1, <2>2
  <2> QED BY <1>7, <2>3, <2>4, CaughtUpInStepNext DEF SyncInv
<1>9. PastVersions' /\ RowsBehind'
  BY <1>5, <1>8 DEF OrderInv, PastVersions, RowsBehind, CaughtUp
<1> QED BY <1>4, <1>7, <1>8, <1>9 DEF OrderInv

(* What the handling of a delta of k writes is in step with the deltas     *)
(* that are left; other keys stay where they are.                          *)
LEMMA OrderProcess ==
    ASSUME IInv, TypeOK', SyncInv, SyncInv', OrderInv, NEW k \in Keys, Process(k)
    PROVE  /\ OrderInv'
           /\ CaughtUp \subseteq CaughtUp'
           /\ rows' # rows => CaughtUp' = CaughtUp \union {k}
<1> DEFINE d == Head(processing[k])
           s == processing[k]
<1>1. /\ processing \in [Keys -> Seq(Delta)] /\ s \in Seq(Delta) /\ s # <<>>
      /\ TypeOK /\ phase = "running" /\ rows \in [Keys -> Nat]
  BY DEF Process, IInv, TypeOK
<1>2. /\ d \in Delta /\ Tail(s) \in Seq(Delta) /\ d = s[1] /\ 1 \in 1 .. Len(s)
      /\ d = Head(s)
  BY <1>1
<1>3. /\ Handle(k, d)
      /\ processing' = [processing EXCEPT ![k] = Tail(s)]
      /\ UNCHANGED <<hist, items, pos, base>>
  BY DEF Process, fifoVars
<1>4. pos > 0 /\ pos \in Nat /\ base \in Nat /\ pos <= Len(hist) /\ 0 < base
  <2>1. pos > 0 /\ pos \in Nat /\ pos <= Len(hist)
    BY <1>1 DEF IInv, Life, Settled, TypeOK
  <2> QED BY <2>1 DEF SyncInv, Started
<1>5. items[k] = <<>>
  BY <1>1 DEF OrderInv, OneBatch
<1>6. /\ processing'[k] = Tail(s)
      /\ \A j \in Keys \ {k} : processing'[j] = processing[j]
  BY <1>1, <1>3
<1> HIDE DEF d, s
<1>7. InOrder(s, k, base, pos, 0)
  BY <1>4 DEF OrderInv, Chained, InStep, s
<1>8. d.rv \in Nat /\ (IsDeletion(d) \/ d.rv <= pos)
  <2>0. PICK n \in base .. pos : Reaches(d, k, n)
    BY <1>2, <1>7 DEF InOrder
  <2>1. n \in 1 .. Len(hist) /\ n \in Nat /\ n <= pos
    BY <1>1, <1>4, <2>0 DEF TypeOK
  <2>2. hist[n] \in [Keys -> Nat]
    <3>1. hist \in Seq([Keys -> Nat])
      BY <1>1 DEF TypeOK
    <3> QED BY <2>1, <3>1, ElementOfSeq
  <2>3. hist[n][k] \in Nat /\ hist[n][k] <= n
    BY <2>1, <2>2 DEF OrderInv, PastVersions
  <2>4. d.rv \in Nat
    BY <1>2 DEF Delta
  <2>5. IsDeletion(d) \/ d.rv = hist[n][k]
    BY <2>0 DEF Reaches
  <2> QED BY <1>4, <2>1, <2>3, <2>4, <2>5
<1>9. \/ rows' = rows
      \/ rows' = [rows EXCEPT ![k] = 0]
      \/ ~IsDeletion(d) /\ rows' = [rows EXCEPT ![k] = d.rv]
  BY <1>1, <1>2, <1>3, HandleRow DEF StoreTypes, TypeOK, NoRow
<1>10. /\ rows \in [Keys -> Nat] /\ rows' \in [Keys -> Nat]
       /\ \A j \in Keys \ {k} : rows'[j] = rows[j]
  BY <1>1, <1>9 DEF TypeOK
<1>11. OneBatch' /\ PastVersions'
  BY <1>3, <1>5, <1>6 DEF OrderInv, OneBatch, PastVersions
(* The key in question. *)
<1>12. ASSUME NEW r \in Nat, InOrder(s, k, base, pos, r),
              NEW v \in Nat, v = r \/ v = 0 \/ (~IsDeletion(d) /\ v = d.rv)
       PROVE  InStep(k, v)'
  <2>1. InOrder(Tail(s), k, base, pos, v)
    BY <1>1, <1>2, <1>4, <1>12, OrderTail
  <2>2. InOrder(items'[k], k, base, pos, v) /\ InOrder(processing'[k], k, base, pos, v)
    BY <1>3, <1>5, <1>6, <2>1, NothingToOrder
  <2> QED BY <1>3, <2>2 DEF InStep, InOrder, Reaches
(* The others. *)
<1>13. ASSUME NEW j \in Keys \ {k}, NEW r PROVE InStep(j, r)' <=> InStep(j, r)
  BY <1>3, <1>6 DEF InStep, InOrder, Reaches
<1>14. Chained'
  BY <1>3, <1>7, <1>12, <1>13 DEF OrderInv, Chained
<1>15. /\ CaughtUp = {j \in Keys : rows[j] <= pos /\ InStep(j, rows[j])}
       /\ CaughtUp' = {j \in Keys : rows'[j] <= pos /\ InStep(j, rows[j])'}
  BY <1>1, <1>3, <1>4, <1>14, CaughtUpInStep, CaughtUpInStepNext DEF OrderInv, SyncInv
<1>16. \A j \in Keys \ {k} : j \in CaughtUp' <=> j \in CaughtUp
  <2> TAKE j \in Keys \ {k}
  <2>1. ASSUME NEW r, r = rows[j] PROVE InStep(j, rows[j])' <=> InStep(j, rows[j])
    <3>1. rows'[j] = r
      BY <1>10, <2>1
    <3>2. InStep(j, rows[j])' <=> InStep(j, r)'
      BY <3>1 DEF InStep
    <3> QED BY <1>13, <2>1, <3>2
  <2>2. InStep(j, rows[j])' <=> InStep(j, rows[j])
    BY <2>1
  <2> QED BY <1>10, <1>15, <2>2
<1>17. rows' # rows => k \in CaughtUp'
  <2> SUFFICES ASSUME rows' # rows PROVE k \in CaughtUp'
    OBVIOUS
  <2>1. rows'[k] = 0 \/ (~IsDeletion(d) /\ rows'[k] = d.rv)
    BY <1>9, <1>10
  <2>2. rows'[k] <= pos
    BY <1>4, <1>8, <2>1
  <2>3. ASSUME NEW v \in Nat, v = rows'[k] PROVE InStep(k, rows[k])'
    BY <1>7, <1>12, <2>1, <2>3 DEF InStep
  <2>4. InStep(k, rows[k])'
    BY <1>10, <2>3
  <2> QED BY <1>15, <2>2, <2>4
<1>18. ASSUME rows' = rows, k \in CaughtUp PROVE k \in CaughtUp'
  <2>1. rows[k] <= pos /\ InOrder(s, k, base, pos, rows[k])
    BY <1>15, <1>18 DEF InStep, s
  <2>2. ASSUME NEW v \in Nat, v = rows[k] PROVE InStep(k, rows[k])'
    BY <1>12, <1>18, <2>1, <2>2 DEF InStep
  <2>3. InStep(k, rows[k])'
    BY <1>10, <2>2
  <2> QED BY <1>15, <1>18, <2>1, <2>3
<1>19. CaughtUp \subseteq Keys /\ CaughtUp' \subseteq Keys
  BY DEF CaughtUp
<1>20. CaughtUp \subseteq CaughtUp'
  BY <1>16, <1>17, <1>18, <1>19
<1>21. RowsBehind'
  <2>1. pos' > 0 /\ pos > 0
    BY <1>3, <1>4
  <2> QED BY <1>19, <1>20, <2>1 DEF OrderInv, RowsBehind
<1> QED BY <1>11, <1>14, <1>16, <1>17, <1>19, <1>20, <1>21 DEF OrderInv

LEMMA OrderCluster ==
    ASSUME IInv, TypeOK', SyncInv, OrderInv, Cluster
    PROVE  OrderInv' /\ (pos > 0 => CaughtUp' = CaughtUp)
<1>1. /\ TypeOK /\ Len(hist) \in Nat /\ Len(hist) > 0 /\ ApiNext
      /\ hist \in Seq([Keys -> Nat])
  BY DEF IInv, TypeOK, Cluster
<1>2. Len(hist') = Len(hist) + 1 /\ \A n \in 1 .. Len(hist) : hist'[n] = hist[n]
  BY <1>1, HistoryGrows DEF TypeOK
<1>3. UNCHANGED <<items, rows, pos, base, processing>>
  BY DEF Cluster, fifoVars, storeVars
<1>4. PastVersions'
  <2>1. PICK k \in Keys, v \in {0, Len(hist) + 1} :
            hist' = Append(hist, [Last(hist) EXCEPT ![k] = v])
    BY <1>1 DEF ApiNext, ApiPut, ApiDelete, NextRV, Absent
  <2>2. hist'[Len(hist) + 1] = [hist[Len(hist)] EXCEPT ![k] = v]
    BY <1>1, <2>1 DEF Last
  <2>3. hist[Len(hist)] \in [Keys -> Nat]
    BY <1>1
  <2>4. \A j \in Keys : hist[Len(hist)][j] <= Len(hist) /\ hist[Len(hist)][j] \in Nat
    BY <1>1, <2>3 DEF OrderInv, PastVersions
  <2>5. \A j \in Keys : hist'[Len(hist) + 1][j] <= Len(hist) + 1
    BY <1>1, <2>2, <2>3, <2>4
  <2>6. \A n \in 1 .. Len(hist') : n \in 1 .. Len(hist) \/ n = Len(hist) + 1
    BY <1>1, <1>2
  <2> QED BY <1>2, <2>5, <2>6 DEF OrderInv, PastVersions
<1>5. OneBatch'
  BY <1>3 DEF OrderInv, OneBatch
<1>6. pos > 0 => \A n \in base .. pos : hist'[n] = hist[n]
  <2>1. pos > 0 => base .. pos \subseteq 1 .. Len(hist)
    BY <1>1 DEF TypeOK, SyncInv, Started
  <2> QED BY <1>2, <2>1
<1>7. Chained'
  <2> SUFFICES ASSUME pos > 0, NEW k \in Keys PROVE InStep(k, 0)'
    BY <1>3 DEF Chained
  <2>1. InStep(k, 0)
    BY DEF OrderInv, Chained
  <2> QED BY <1>3, <1>6, <2>1 DEF InStep, InOrder, Reaches
<1>8. pos > 0 => CaughtUp' = CaughtUp
  BY <1>3, <1>6 DEF CaughtUp, Reaches
<1>9. RowsBehind'
  <2>1. \A k \in Keys : rows[k] \in Nat
    BY <1>1 DEF TypeOK
  <2>2. CASE pos > 0
    BY <1>3, <1>8, <2>2 DEF OrderInv, RowsBehind
  <2>3. CASE ~(pos > 0)
    BY <1>1, <1>2, <1>3, <2>1, <2>3 DEF OrderInv, RowsBehind
  <2> QED BY <2>2, <2>3
<1> QED BY <1>4, <1>5, <1>7, <1>8, <1>9 DEF OrderInv

(* The process starts, gives up or stops: nothing waits. *)
LEMMA OrderLifecycle ==
    ASSUME IInv, TypeOK', OrderInv, Start \/ StartFails \/ Crash
    PROVE  OrderInv'
<1>1. pos' = 0 /\ UNCHANGED <<hist, rows>>
  BY DEF IInv, Life, Start, StartFails, Crash, InitializeKeys, StoreReset, storeVars
<1>2. \A k \in Keys : processing'[k] = <<>>
  BY DEF IInv, Life, Settled, Start, StartFails, Crash
<1>3. ~StaleLists => \A k \in Keys : rows[k] <= Len(hist)
  <2>1. \A k \in Keys : rows[k] \in Nat
    BY DEF IInv, TypeOK
  <2>2. pos \in Nat /\ pos <= Len(hist) /\ Len(hist) \in Nat
    BY DEF IInv, TypeOK
  <2> QED BY <2>1, <2>2 DEF OrderInv, RowsBehind, CaughtUp
<1> QED BY <1>1, <1>2, <1>3 DEF OrderInv, OneBatch, PastVersions, RowsBehind, Chained

LEMMA OrderInit == Init => OrderInv
<1> SUFFICES ASSUME Init PROVE OrderInv
  OBVIOUS
<1>1. /\ pos = 0 /\ \A k \in Keys : rows[k] = 0 /\ processing[k] = <<>>
      /\ hist = <<[k \in Keys |-> 0]>>
  BY DEF Init, ClusterInit, StoreInit, Absent, NoRow
<1>2. Len(hist) = 1 /\ \A k \in Keys : hist[1][k] = 0
  BY <1>1
<1> QED BY <1>1, <1>2 DEF OrderInv, OneBatch, PastVersions, RowsBehind, Chained

LEMMA OrderStep == IInv /\ IInv' /\ SyncInv /\ SyncInv' /\ OrderInv /\ [Next]_vars => OrderInv'
<1> SUFFICES ASSUME IInv, IInv', SyncInv, SyncInv', OrderInv, [Next]_vars PROVE OrderInv'
  OBVIOUS
<1>0. TypeOK'
  BY DEF IInv
<1>1. CASE Cluster
  BY <1>0, <1>1, OrderCluster
<1>2. CASE Start \/ StartFails \/ Crash
  BY <1>0, <1>2, OrderLifecycle
<1>3. CASE FirstList
  BY <1>0, <1>3, OrderFirstList
<1>4. CASE Relist
  BY <1>0, <1>4, OrderRelist
<1>5. CASE Watch
  BY <1>0, <1>5, OrderWatch
<1>6. CASE Pop
  BY <1>0, <1>6, OrderPop
<1>7. ASSUME NEW k \in Keys, Process(k) PROVE OrderInv'
  BY <1>0, <1>7, OrderProcess
<1>8. CASE UNCHANGED vars
  <2>1. UNCHANGED <<hist, items, rows, pos, base, processing>>
    BY <1>8 DEF vars
  <2> QED BY <2>1 DEF OrderInv, OneBatch, PastVersions, RowsBehind, Chained, InStep,
                      InOrder, Reaches, CaughtUp
<1> QED BY <1>1, <1>2, <1>3, <1>4, <1>5, <1>6, <1>7, <1>8 DEF Next

-----------------------------------------------------------------------------
(* Refinement.                                                             *)

(* Handling a delta brings the row to a version the mirror may look at. *)
LEMMA ProcessObserves ==
    ASSUME IInv, IInv', SyncInv, SyncInv', OrderInv, NEW k \in Keys, Process(k)
    PROVE  [Abstract!Next]_(Abstract!mirrorVars)
<1> DEFINE d == Head(processing[k])
           r == IF k \in CaughtUp THEN rows[k] ELSE 0
<1>1. /\ processing[k] \in Seq(Delta) /\ processing[k] # <<>>
      /\ TypeOK /\ phase = "running"
  BY DEF Process, IInv, TypeOK
<1>2. d \in Delta /\ d = processing[k][1] /\ 1 \in 1 .. Len(processing[k])
  BY <1>1
<1>3. Handle(k, d) /\ UNCHANGED <<hist, included, base, pos>>
  BY DEF Process
<1> HIDE DEF d
<1>4. pos > 0 /\ pos \in Nat /\ base \in Nat /\ pos <= Len(hist) /\ 0 < base
  <2>1. pos > 0 /\ pos \in Nat /\ pos <= Len(hist)
    BY <1>1 DEF IInv, Life, Settled, TypeOK
  <2> QED BY <2>1 DEF SyncInv, Started
<1>5. Following = CaughtUp /\ Following' = CaughtUp'
  BY <1>3, <1>4 DEF Following
<1>6. /\ CaughtUp \subseteq CaughtUp' /\ CaughtUp' \subseteq Keys
      /\ rows' # rows => CaughtUp' = CaughtUp \union {k}
  BY OrderProcess DEF CaughtUp, IInv
<1>7. InOrder(processing[k], k, base, pos, r)
  <2>1. CASE k \in CaughtUp
    BY <1>1, <1>4, <2>1, CaughtUpInStep DEF OrderInv, SyncInv, InStep
  <2>2. CASE k \notin CaughtUp
    BY <1>4, <2>2 DEF OrderInv, Chained, InStep
  <2> QED BY <2>1, <2>2
<1>8. PICK n \in base .. pos : Reaches(d, k, n) /\ n >= r
  BY <1>2, <1>7 DEF InOrder
<1>9. n \in 1 .. Len(hist) /\ n >= base /\ (k \in Following => n >= rows[k])
  BY <1>1, <1>4, <1>5, <1>8 DEF TypeOK
<1>10. \/ rows' = rows
       \/ rows' = [rows EXCEPT ![k] = IF IsDeletion(d) \/ ~MatchesNamespace(k)
                                      THEN NoRow ELSE d.rv]
  BY <1>1, <1>2, <1>3, HandleRow DEF StoreTypes, TypeOK
<1>11. CASE rows' = rows
  <2>1. Abstract!Follow
    BY <1>3, <1>5, <1>6, <1>11 DEF Abstract!Follow
  <2> QED BY <2>1 DEF Abstract!Next
<1>12. CASE rows' # rows
  <2>1. (IF IsDeletion(d) \/ ~MatchesNamespace(k) THEN NoRow ELSE d.rv)
        = (IF NamespaceOf[k] \in included THEN hist[n][k] ELSE Abstract!Absent)
    BY <1>8 DEF Reaches, MatchesNamespace, NoRow, Absent, Abstract!Absent
  <2>2. rows' = [rows EXCEPT ![k] =
                    IF NamespaceOf[k] \in included THEN hist[n][k] ELSE Abstract!Absent]
    BY <1>10, <1>12, <2>1
  <2>3. Abstract!Observe(k, n)
    BY <1>3, <1>5, <1>6, <1>9, <1>12, <2>2 DEF Abstract!Observe
  <2> QED BY <1>9, <2>3 DEF Abstract!Next
<1> QED BY <1>11, <1>12

(* The first list sets the horizon. *)
LEMMA FirstListAdvances ==
    ASSUME IInv, OrderInv, OrderInv', FirstList
    PROVE  Abstract!Advance
<1>1. /\ TypeOK /\ Len(hist) \in Nat /\ Len(hist) > 0 /\ pos = 0
      /\ base \in 0 .. Len(hist)
  BY DEF IInv, TypeOK, FirstList
<1>2. PICK n \in 1 .. Len(hist) :
          List(n) /\ base' = n /\ (~StaleLists => n = Len(hist))
  BY <1>1 DEF FirstList
<1>3. pos' = n /\ pos' > 0 /\ UNCHANGED <<hist, rows, included>>
  BY <1>1, <1>2 DEF List, storeVars
<1>4. Following = (IF StaleLists THEN {} ELSE Keys) /\ Following' = CaughtUp'
  BY <1>1, <1>3 DEF Following
<1>5. Following \subseteq Following' /\ Following' \subseteq Keys
  <2>1. ~StaleLists => CaughtUp' = Keys
    BY <1>3 DEF OrderInv, RowsBehind
  <2>2. CaughtUp' \subseteq Keys
    BY DEF CaughtUp
  <2> QED BY <1>4, <2>1, <2>2
<1>6. \/ base' \in base .. Len(hist)
      \/ StaleLists /\ Following = {} /\ base' \in 1 .. Len(hist)
  BY <1>1, <1>2, <1>4
<1> QED BY <1>3, <1>5, <1>6 DEF Abstract!Advance

LEMMA MirrorStep ==
    IInv /\ IInv' /\ SyncInv /\ SyncInv' /\ OrderInv /\ OrderInv' /\ [Next]_vars
        => [Abstract!Next]_(Abstract!mirrorVars)
<1> SUFFICES ASSUME IInv, IInv', SyncInv, SyncInv', OrderInv, OrderInv', [Next]_vars
             PROVE  [Abstract!Next]_(Abstract!mirrorVars)
  OBVIOUS
<1>0. /\ TypeOK /\ TypeOK' /\ pos \in Nat /\ pos' \in Nat
      /\ CaughtUp' \subseteq Keys
      /\ ~StaleLists /\ pos > 0 => CaughtUp = Keys
  <2>1. TypeOK /\ TypeOK' /\ pos \in Nat /\ pos' \in Nat
    BY DEF IInv, TypeOK
  <2>2. CaughtUp' \subseteq Keys
    BY DEF CaughtUp
  <2>3. ~StaleLists /\ pos > 0 => CaughtUp = Keys
    BY DEF OrderInv, RowsBehind
  <2> QED BY <2>1, <2>2, <2>3
<1>1. CASE Cluster
  <2>1. Abstract!ApiNext
    BY <1>1 DEF Cluster, ApiNext, ApiPut, ApiDelete, NextRV, Absent,
                Abstract!ApiNext, Abstract!ApiPut, Abstract!ApiDelete,
                Abstract!NextRV, Abstract!Absent, Last, Abstract!Last
  <2>2. UNCHANGED <<rows, included, base, pos>>
    BY <1>1 DEF Cluster, storeVars
  <2>3. Following' = Following
    BY <1>0, <1>1, <2>2, OrderCluster DEF Following
  <2> QED BY <2>1, <2>2, <2>3 DEF Abstract!Next, Abstract!ClusterStep
<1>2. CASE Start \/ StartFails
  <2>1. pos = 0 /\ pos' = 0 /\ UNCHANGED <<hist, rows, base>>
        /\ (included' \in Configs \/ included' = included)
    BY <1>2 DEF Start, StartFails, InitializeKeys, storeVars, IInv, Life
  <2>2. Following' = Following
    BY <2>1 DEF Following
  <2> QED BY <2>1, <2>2 DEF Abstract!Next, Abstract!Reconfigure, Abstract!mirrorVars
<1>3. CASE Crash
  <2>1. pos' = 0 /\ UNCHANGED <<hist, rows, included, base>>
    BY <1>3 DEF Crash, StoreReset
  <2>2. Following' = IF StaleLists THEN {} ELSE Following
    BY <1>0, <2>1 DEF Following
  <2> QED BY <2>1, <2>2 DEF Abstract!Next, Abstract!Restart
<1>4. CASE Relist \/ Watch \/ Pop
  <2>1. UNCHANGED <<hist, rows, included, base>>
    BY <1>4 DEF Relist, List, Watch, Event, Pop, storeVars
  <2>2. CaughtUp \subseteq CaughtUp'
    BY <1>0, <1>4, OrderRelist, OrderWatch, OrderPop
  <2>3. pos > 0 /\ pos' > 0
    <3>1. pos > 0
      BY <1>0, <1>4 DEF Relist, Watch, Event, Pop, FifoPop, SyncInv, Started, TypeOK
    <3> QED BY <1>0, <1>4, <3>1 DEF Relist, List, Watch, Event, Pop, TypeOK
  <2>4. Abstract!Follow
    BY <1>0, <2>1, <2>2, <2>3 DEF Following, Abstract!Follow
  <2> QED BY <2>4 DEF Abstract!Next
<1>5. CASE FirstList
  BY <1>5, FirstListAdvances DEF Abstract!Next
<1>6. ASSUME NEW k \in Keys, Process(k)
      PROVE  [Abstract!Next]_(Abstract!mirrorVars)
  BY <1>6, ProcessObserves
<1>7. CASE UNCHANGED vars
  BY <1>7 DEF vars, Abstract!mirrorVars, Following, CaughtUp, Reaches
<1> QED BY <1>1, <1>2, <1>3, <1>4, <1>5, <1>6, <1>7 DEF Next

(* Whatever crashes, restarts with other filters, stale first lists,       *)
(* broken watches and failing datastore calls do: every write of the       *)
(* handlers is one StateMirror allows.  No row shows what the cluster      *)
(* never held, and none goes back to an older manifest, but for the first  *)
(* write of a row after a start whose list was stale (syncer.go:99-239,    *)
(* store.go:47-155).                                                       *)
THEOREM ImplementsStateMirror == Spec => ImplementsMirror
<1>1. Init => Abstract!Init
  BY DEF Init, ClusterInit, StoreInit, Absent, NoRow, Following,
         Abstract!Init, Abstract!ClusterInit, Abstract!Absent
<1>2. Init => OrderInv
  BY OrderInit
<1>3. IInv /\ IInv' /\ SyncInv /\ SyncInv' /\ OrderInv /\ [Next]_vars => OrderInv'
  BY OrderStep
<1>4. IInv /\ IInv' /\ SyncInv /\ SyncInv' /\ OrderInv /\ OrderInv' /\ [Next]_vars
         => [Abstract!Next]_(Abstract!mirrorVars)
  BY MirrorStep
<1> QED BY <1>1, <1>2, <1>3, <1>4, Invariance, SyncInvariance, PTL
        DEF Spec, ImplementsMirror, Abstract!Spec
-----------------------------------------------------------------------------
(* The pipeline at rest.                                                   *)

(* From each version to the next, one object changes. *)
OneChange == \A n \in 1 .. Len(hist) - 1 : \E k \in Keys :
    /\ hist[n + 1] = [hist[n] EXCEPT ![k] = hist[n + 1][k]]
    /\ hist[n + 1][k] # hist[n][k]

(* A new version changes an object: a put gives it a resource version that *)
(* none has had, a deletion finds it there.                                *)
LEMMA ClusterChanges ==
    ASSUME TypeOK, PastVersions, OneChange, Cluster
    PROVE  OneChange'
<1>1. hist \in Seq([Keys -> Nat]) /\ Len(hist) \in Nat /\ Len(hist) > 0 /\ ApiNext
  BY DEF TypeOK, Cluster
<1>2. PICK c \in Nat : c = Len(hist)
  BY <1>1
<1>3. /\ Len(hist') = c + 1
      /\ \A n \in 1 .. c : hist'[n] = hist[n]
  BY <1>1, <1>2, HistoryGrows DEF TypeOK
<1>4. c > 0 /\ hist[c] \in [Keys -> Nat] /\ \A k \in Keys : hist[c][k] <= c
  BY <1>1, <1>2 DEF PastVersions
<1>5. PICK k \in Keys, v \in {0, c + 1} :
          /\ hist' = Append(hist, [hist[c] EXCEPT ![k] = v])
          /\ v = 0 => hist[c][k] # 0
  <2>1. Last(hist) = hist[c]
    BY <1>2 DEF Last
  <2>2. PICK k \in Keys : ApiPut(k) \/ ApiDelete(k)
    BY <1>1 DEF ApiNext
  <2>3. CASE ApiPut(k)
    <3>1. hist' = Append(hist, [hist[c] EXCEPT ![k] = c + 1])
      BY <1>2, <2>1, <2>3 DEF ApiPut, NextRV
    <3>2. c + 1 # 0
      BY <1>2
    <3> QED BY <3>1, <3>2
  <2>4. CASE ApiDelete(k)
    BY <1>2, <2>1, <2>4 DEF ApiDelete, Absent
  <2> QED BY <2>2, <2>3, <2>4
<1>6. hist'[c + 1] = [hist[c] EXCEPT ![k] = v]
  BY <1>1, <1>2, <1>5
<1>7. v # hist[c][k]
  BY <1>4, <1>5
<1>8. hist'[c] = hist[c]
  BY <1>3, <1>4
<1>9. hist'[c + 1][k] = v
  BY <1>4, <1>6
<1>10. /\ hist'[c + 1] = [hist'[c] EXCEPT ![k] = hist'[c + 1][k]]
       /\ hist'[c + 1][k] # hist'[c][k]
  BY <1>6, <1>7, <1>8, <1>9
<1>11. ASSUME NEW n \in 1 .. Len(hist') - 1, n # c
       PROVE  \E j \in Keys :
                 /\ hist'[n + 1] = [hist'[n] EXCEPT ![j] = hist'[n + 1][j]]
                 /\ hist'[n + 1][j] # hist'[n][j]
  <2>1. n \in 1 .. c - 1 /\ n \in 1 .. c /\ n + 1 \in 1 .. c
    BY <1>3, <1>11
  <2> QED BY <1>2, <1>3, <2>1 DEF OneChange
<1> QED BY <1>10, <1>11 DEF OneChange

LEMMA ChangesStep == TypeOK /\ PastVersions /\ OneChange /\ [Next]_vars => OneChange'
<1>1. [Next]_vars => Cluster \/ UNCHANGED hist
  BY DEF Next, vars, Start, StartFails, Crash, FirstList, Relist, List, Watch, Pop, Process
<1>2. ASSUME OneChange, UNCHANGED hist PROVE OneChange'
  BY <1>2 DEF OneChange
<1> QED BY <1>1, <1>2, ClusterChanges

(* The Reflector is where the cluster is, and no delta is left: one that   *)
(* waited would have its key in the queue.                                 *)
LEMMA RestIsMirrored == IInv /\ SyncInv /\ OneChange => RestsOnlyWhenMirrored
<1> SUFFICES ASSUME IInv, SyncInv, OneChange, AtRest, NEW k \in Keys \ failed
             PROVE  rows[k] = Want(k, Len(hist))
  BY DEF RestsOnlyWhenMirrored
<1>1. pos \in Nat /\ pos > 0 /\ Len(hist) \in Nat /\ pos <= Len(hist) /\ phase = "running"
  BY DEF IInv, TypeOK, AtRest
<1>2. pos = Len(hist)
  <2> SUFFICES ASSUME pos < Len(hist) PROVE FALSE
    BY <1>1
  <2>1. pos \in 1 .. Len(hist) - 1
    BY <1>1
  <2> QED BY <2>1 DEF OneChange, AtRest, Event
<1>3. Settled(k)
  <2>1. Len(queue) = 0
    BY DEF AtRest
  <2> QED BY <2>1 DEF AtRest, Idle, SyncInv, OneEntryPerKey, Settled
<1> QED BY <1>1, <1>2, <1>3 DEF IInv, Mirror

(* However the events, lists, crashes, failures and handlers interleave:   *)
(* when the pipeline has nothing left to do, every row whose last          *)
(* datastore call succeeded shows what the cluster and the filters call    *)
(* for now (syncer.go:99-249).                                             *)
THEOREM RestsMirrored == Spec => []RestsOnlyWhenMirrored
<1>1. Init => OrderInv
  BY OrderInit
<1>2. Init => OneChange
  <2> SUFFICES ASSUME Init PROVE OneChange
    OBVIOUS
  <2>1. Len(hist) = 1
    BY DEF Init, ClusterInit
  <2> QED BY <2>1 DEF OneChange
<1>3. IInv /\ IInv' /\ SyncInv /\ SyncInv' /\ OrderInv /\ [Next]_vars => OrderInv'
  BY OrderStep
<1>4. IInv /\ OrderInv /\ OneChange /\ [Next]_vars => OneChange'
  BY ChangesStep DEF IInv, OrderInv
<1>5. IInv /\ SyncInv /\ OneChange => RestsOnlyWhenMirrored
  BY RestIsMirrored
<1> QED BY <1>1, <1>2, <1>3, <1>4, <1>5, Invariance, SyncInvariance, PTL DEF Spec
=============================================================================
