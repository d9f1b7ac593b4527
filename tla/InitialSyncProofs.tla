------------------------- MODULE InitialSyncProofs --------------------------
(***************************************************************************)
(* Machine-checked proof that a controller which reports HasSynced has     *)
(* reconciled every row with the first list.                               *)
(*                                                                         *)
(* HasSynced only counts: the first Replace sets the counter to the keys   *)
(* it touched and every Pop takes one away, whatever key it pops.  The     *)
(* proof relates the counter to the keys: a key whose row is not yet as    *)
(* recent as the first list is being processed, or waits among the first   *)
(* "initial" entries of the queue (Counted).  That holds because a key has *)
(* one entry in the queue and later keys line up behind (OneEntryPerKey),  *)
(* and because no delta is older than the first list (Recent).             *)
(***************************************************************************)
EXTENDS GVRSyncProofs

(* The row of k shows a version no older than the first list. *)
Reconciled(k) == \E n \in base .. pos : rows[k] = Want(k, n)

(* The deltas s of key k show versions between a and b. *)
Shows(s, k, a, b) == \A i \in 1 .. Len(s) : \E n \in a .. b : Reaches(s[i], k, n)

(* The queue counts from the first list on. *)
Started ==
    /\ pos = 0 => queue = <<>> /\ initial = 0 /\ ~populated
    /\ pos > 0 => populated /\ base \in 1 .. pos

(* The queue holds exactly the keys with deltas, each once. *)
OneEntryPerKey ==
    /\ \A i \in 1 .. Len(queue) : items[queue[i]] # <<>>
    /\ \A k \in Keys : items[k] # <<>> => \E i \in 1 .. Len(queue) : queue[i] = k
    /\ \A i, j \in 1 .. Len(queue) : queue[i] = queue[j] => i = j

Recent ==
    pos > 0 => \A k \in Keys :
        Shows(items[k], k, base, pos) /\ Shows(processing[k], k, base, pos)

(* Key k is handled before the counter reaches zero. *)
InCount(k) ==
    \/ processing[k] # <<>>
    \/ \E i \in 1 .. Len(queue) : i <= initial /\ queue[i] = k

Counted == pos > 0 => \A k \in Keys \ failed : Reconciled(k) \/ InCount(k)

SyncInv == Started /\ OneEntryPerKey /\ Recent /\ Counted

-----------------------------------------------------------------------------
(* Deltas.                                                                 *)

(* Queueing d adds no delta but d. *)
LEMMA WithDeltaMembers ==
    ASSUME NEW s \in Seq(Delta), NEW d \in Delta, NEW i \in 1 .. Len(WithDelta(s, d))
    PROVE  \/ WithDelta(s, d)[i] = d
           \/ i \in 1 .. Len(s) /\ WithDelta(s, d)[i] = s[i]
<1>1. CASE s # <<>> /\ IsDeletion(d) /\ IsDeletion(Last(s))
  <2>1. CASE d.type = "tombstone"
    <3>1. WithDelta(s, d) = s
      BY <1>1, <2>1 DEF WithDelta
    <3> QED BY <3>1
  <2>2. CASE d.type # "tombstone"
    <3>1. WithDelta(s, d) = [s EXCEPT ![Len(s)] = d]
      BY <1>1, <2>2 DEF WithDelta
    <3>2. /\ Len([s EXCEPT ![Len(s)] = d]) = Len(s)
          /\ \A j \in 1 .. Len(s) : [s EXCEPT ![Len(s)] = d][j] = IF j = Len(s) THEN d ELSE s[j]
      OBVIOUS
    <3>3. i \in 1 .. Len(s)
      BY <3>1, <3>2
    <3> QED BY <3>1, <3>2, <3>3
  <2> QED BY <2>1, <2>2
<1>2. CASE ~(s # <<>> /\ IsDeletion(d) /\ IsDeletion(Last(s)))
  <2>1. WithDelta(s, d) = Append(s, d)
    BY <1>2 DEF WithDelta
  <2> QED BY <2>1
<1> QED BY <1>1, <1>2

(* A delta that leads to version c may be added. *)
LEMMA ShowsMore ==
    ASSUME NEW k \in Keys, NEW s \in Seq(Delta), NEW d \in Delta,
           NEW a \in Nat, NEW b \in Nat, NEW c \in Nat, a <= b, b <= c,
           Shows(s, k, a, b), Reaches(d, k, c)
    PROVE  Shows(WithDelta(s, d), k, a, c)
<1>1. a .. b \subseteq a .. c /\ c \in a .. c
  OBVIOUS
<1> SUFFICES ASSUME NEW i \in 1 .. Len(WithDelta(s, d))
             PROVE  \E n \in a .. c : Reaches(WithDelta(s, d)[i], k, n)
  BY DEF Shows
<1>2. CASE WithDelta(s, d)[i] = d
  BY <1>1, <1>2
<1>3. CASE i \in 1 .. Len(s) /\ WithDelta(s, d)[i] = s[i]
  BY <1>1, <1>3 DEF Shows
<1> QED BY <1>2, <1>3, WithDeltaMembers

(* As the Reflector moves on, what was recent stays so. *)
LEMMA ShowsLater ==
    ASSUME NEW k, NEW s, NEW a \in Nat, NEW b \in Nat, NEW c \in Nat, b <= c,
           Shows(s, k, a, b)
    PROVE  Shows(s, k, a, c)
<1>1. a .. b \subseteq a .. c
  OBVIOUS
<1> QED BY <1>1 DEF Shows

LEMMA NothingShown == ASSUME NEW k, NEW a, NEW b PROVE Shows(<<>>, k, a, b)
BY DEF Shows

-----------------------------------------------------------------------------
(* The queue.                                                              *)

(* An order of a set lists each of its members once. *)
LEMMA OrderListsAll ==
    ASSUME NEW S \in SUBSET Keys, NEW p \in SetToSeqs(S)
    PROVE  /\ p \in Seq(Keys)
           /\ Len(p) = Cardinality(S)
           /\ Cardinality(S) \in Nat
           /\ \A i \in 1 .. Len(p) : p[i] \in S
           /\ \A i, j \in 1 .. Len(p) : p[i] = p[j] => i = j
           /\ \A k \in S : \E i \in 1 .. Len(p) : p[i] = k
<1>1. IsFiniteSet(S) /\ Cardinality(S) \in Nat
  BY KeysAssumption, FS_Subset, FS_CardinalityType
<1> DEFINE c == Cardinality(S)
<1>2. /\ p \in [1 .. c -> S]
      /\ \A i, j \in 1 .. c : p[i] = p[j] => i = j
  BY DEF SetToSeqs
<1>3. p \in Seq(Keys)
  BY OrderIsSequence
<1>4. Len(p) = c
  <2>1. DOMAIN p = 1 .. c /\ DOMAIN p = 1 .. Len(p) /\ Len(p) \in Nat
    BY <1>2, <1>3
  <2> HIDE DEF c
  <2>2. c \in Nat
    BY <1>1 DEF c
  <2> QED BY <2>1, <2>2
<1>5. IsFiniteSet(1 .. c) /\ Cardinality(1 .. c) = c
  <2> HIDE DEF c
  <2>1. c \in Int /\ c >= 0
    BY <1>1 DEF c
  <2> QED BY <2>1, FS_Interval
<1>6. p \in Injection(1 .. c, S)
  BY <1>2 DEF Injection, IsInjective
<1>7. p \in Surjection(1 .. c, S)
  BY <1>1, <1>5, <1>6, FS_Injection
<1>8. \A k \in S : \E i \in 1 .. c : p[i] = k
  BY <1>7 DEF Surjection
<1> QED BY <1>1, <1>2, <1>3, <1>4, <1>8

(* Queueing a delta may add its key at the end and moves nothing. *)
LEMMA QueueActionOrder ==
    ASSUME TypeOK, OneEntryPerKey, NEW k \in Keys, NEW d \in Delta, QueueAction(k, d)
    PROVE  /\ OneEntryPerKey'
           /\ Len(queue') >= Len(queue)
           /\ \A i \in 1 .. Len(queue) : queue'[i] = queue[i]
<1>1. /\ queue \in Seq(Keys) /\ items \in [Keys -> Seq(Delta)]
      /\ items' = [items EXCEPT ![k] = WithDelta(items[k], d)]
  BY QueueActionTypes DEF TypeOK
<1>2. WithDelta(items[k], d) # <<>>
  BY <1>1, WithDeltaEnds
<1>3. \A j \in Keys : items[j] # <<>> => items'[j] # <<>>
  BY <1>1, <1>2
<1>4. items'[k] # <<>>
  BY <1>1, <1>2
<1>5. \A j \in Keys : j # k => items'[j] = items[j]
  BY <1>1
<1>6. CASE items[k] = <<>>
  <2>1. queue' = Append(queue, k)
    BY <1>6 DEF QueueAction
  <2>2. /\ Len(queue') = Len(queue) + 1 /\ queue'[Len(queue) + 1] = k
        /\ \A i \in 1 .. Len(queue) : queue'[i] = queue[i] /\ queue[i] \in Keys
    BY <1>1, <2>1
  <2>3. \A i \in 1 .. Len(queue) : queue[i] # k
    BY <1>6 DEF OneEntryPerKey
  <2>4. Len(queue) \in Nat
    BY <1>1
  <2>5. \A i \in 1 .. Len(queue') : items'[queue'[i]] # <<>>
    BY <1>3, <1>4, <2>2, <2>4 DEF OneEntryPerKey
  <2>6. \A i, j \in 1 .. Len(queue') : queue'[i] = queue'[j] => i = j
    BY <2>2, <2>3, <2>4 DEF OneEntryPerKey
  <2>7. Len(queue) + 1 \in 1 .. Len(queue') /\ 1 .. Len(queue) \subseteq 1 .. Len(queue')
    BY <2>2, <2>4
  <2>8. \A j \in Keys : items'[j] # <<>> => \E i \in 1 .. Len(queue') : queue'[i] = j
    BY <1>5, <2>2, <2>7 DEF OneEntryPerKey
  <2> QED BY <2>2, <2>4, <2>5, <2>6, <2>8 DEF OneEntryPerKey
<1>7. CASE items[k] # <<>>
  <2>1. queue' = queue
    BY <1>7 DEF QueueAction
  <2>2. \A i \in 1 .. Len(queue) : queue[i] \in Keys
    BY <1>1
  <2>3. Len(queue) \in Nat
    BY <1>1
  <2> QED BY <1>1, <1>3, <1>5, <1>7, <2>1, <2>2, <2>3 DEF OneEntryPerKey
<1> QED BY <1>6, <1>7

(* Appending two orders of keys that do not wait yet. *)
LEMMA AppendOrders ==
    ASSUME TypeOK, OneEntryPerKey, items' \in [Keys -> Seq(Delta)],
           NEW S \in SUBSET Keys, NEW T \in SUBSET Keys, S \cap T = {},
           NEW p \in SetToSeqs(S), NEW q \in SetToSeqs(T),
           queue' = queue \o p \o q,
           \A k \in S \union T : items[k] = <<>> /\ items'[k] # <<>>,
           \A k \in Keys \ (S \union T) : items[k] # <<>> <=> items'[k] # <<>>
    PROVE  /\ OneEntryPerKey'
           /\ Len(queue') = Len(queue) + Cardinality(S) + Cardinality(T)
           /\ \A i \in 1 .. Len(queue) : queue'[i] = queue[i]
<1> DEFINE a == Len(queue)
           b == Len(p)
           c == Len(q)
<1>1. /\ queue \in Seq(Keys) /\ p \in Seq(Keys) /\ q \in Seq(Keys)
      /\ a \in Nat /\ b \in Nat /\ c \in Nat
  <2>1. queue \in Seq(Keys)
    BY DEF TypeOK
  <2>2. p \in Seq(Keys) /\ q \in Seq(Keys)
    BY OrderIsSequence
  <2> QED BY <2>1, <2>2
<1>2. /\ Len(queue') = a + b + c
      /\ \A i \in 1 .. a : queue'[i] = queue[i]
      /\ \A i \in 1 .. b : queue'[a + i] = p[i]
      /\ \A i \in 1 .. c : queue'[a + b + i] = q[i]
  <2>0. queue \o p \in Seq(Keys)
    BY <1>1
  <2>1. PICK r \in Seq(Keys) : r = queue \o p
    BY <2>0, Zenon
  <2>2. /\ Len(r) = a + b
        /\ \A i \in 1 .. a : r[i] = queue[i]
        /\ \A i \in 1 .. b : r[a + i] = p[i]
    BY <1>1, <2>1
  <2>3. queue' = r \o q
    BY <2>1
  <2>4. /\ Len(queue') = Len(r) + c
        /\ \A i \in 1 .. Len(r) : queue'[i] = r[i]
        /\ \A i \in 1 .. c : queue'[Len(r) + i] = q[i]
    BY <1>1, <2>3
  <2>5. \A i \in 1 .. a : i \in 1 .. Len(r)
    BY <1>1, <2>2
  <2>6. \A i \in 1 .. b : a + i \in 1 .. Len(r)
    BY <1>1, <2>2
  <2> HIDE DEF a, b, c
  <2> QED BY <2>2, <2>4, <2>5, <2>6
<1>3. /\ b = Cardinality(S) /\ c = Cardinality(T)
      /\ \A i \in 1 .. b : p[i] \in S
      /\ \A i, j \in 1 .. b : p[i] = p[j] => i = j
      /\ \A k \in S : \E i \in 1 .. b : p[i] = k
      /\ \A i \in 1 .. c : q[i] \in T
      /\ \A i, j \in 1 .. c : q[i] = q[j] => i = j
      /\ \A k \in T : \E i \in 1 .. c : q[i] = k
  BY OrderListsAll
<1>4. /\ \A i \in 1 .. a : queue[i] \in Keys /\ items[queue[i]] # <<>>
      /\ \A i, j \in 1 .. a : queue[i] = queue[j] => i = j
  BY <1>1 DEF OneEntryPerKey
<1> HIDE DEF a, b, c
(* Every entry is an old one, one of p or one of q. *)
<1>5. \A i \in 1 .. Len(queue') :
         \/ i \in 1 .. a /\ queue'[i] = queue[i]
         \/ i - a \in 1 .. b /\ queue'[i] = p[i - a]
         \/ i - (a + b) \in 1 .. c /\ queue'[i] = q[i - (a + b)]
  <2> TAKE i \in 1 .. Len(queue')
  <2>1. i \in 1 .. a \/ i - a \in 1 .. b \/ i - (a + b) \in 1 .. c
    BY <1>1, <1>2
  <2>2. CASE i \in 1 .. a
    BY <1>2, <2>2
  <2>3. CASE i - a \in 1 .. b
    <3>1. a + (i - a) = i
      BY <1>1, <1>2
    <3> QED BY <1>2, <2>3, <3>1
  <2>4. CASE i - (a + b) \in 1 .. c
    <3>1. a + b + (i - (a + b)) = i
      BY <1>1, <1>2
    <3> QED BY <1>2, <2>4, <3>1
  <2> QED BY <2>1, <2>2, <2>3, <2>4
<1>6. \A i \in 1 .. Len(queue') : items'[queue'[i]] # <<>>
  <2> TAKE i \in 1 .. Len(queue')
  <2>1. CASE i \in 1 .. a /\ queue'[i] = queue[i]
    BY <1>4, <2>1
  <2>2. CASE i - a \in 1 .. b /\ queue'[i] = p[i - a]
    BY <1>3, <2>2
  <2>3. CASE i - (a + b) \in 1 .. c /\ queue'[i] = q[i - (a + b)]
    BY <1>3, <2>3
  <2> QED BY <1>5, <2>1, <2>2, <2>3
<1>7. \A i, j \in 1 .. Len(queue') : queue'[i] = queue'[j] => i = j
  <2> SUFFICES ASSUME NEW i \in 1 .. Len(queue'), NEW j \in 1 .. Len(queue'),
                      queue'[i] = queue'[j]
               PROVE  i = j
    OBVIOUS
  <2>1. CASE i \in 1 .. a /\ queue'[i] = queue[i]
    <3>1. queue'[j] \notin S /\ queue'[j] \notin T
      BY <1>4, <2>1
    <3>2. j \in 1 .. a /\ queue'[j] = queue[j]
      BY <1>3, <1>5, <3>1
    <3>3. queue[i] = queue[j]
      BY <2>1, <3>2
    <3> QED BY <1>4, <2>1, <3>2, <3>3
  <2>2. CASE i - a \in 1 .. b /\ queue'[i] = p[i - a]
    <3>1. queue'[j] \in S
      BY <1>3, <2>2
    <3>2. ~(j \in 1 .. a /\ queue'[j] = queue[j])
      BY <1>4, <3>1
    <3>3. ~(j - (a + b) \in 1 .. c /\ queue'[j] = q[j - (a + b)])
      BY <1>3, <3>1, Zenon
    <3>4. j - a \in 1 .. b /\ queue'[j] = p[j - a]
      BY <1>5, <3>2, <3>3
    <3>5. p[i - a] = p[j - a]
      BY <2>2, <3>4
    <3>6. i - a = j - a
      BY <1>3, <2>2, <3>4, <3>5, Zenon
    <3>7. i \in Int /\ j \in Int
      OBVIOUS
    <3> QED BY <1>1, <3>6, <3>7
  <2>3. CASE i - (a + b) \in 1 .. c /\ queue'[i] = q[i - (a + b)]
    <3>1. queue'[j] \in T
      BY <1>3, <2>3
    <3>2. ~(j \in 1 .. a /\ queue'[j] = queue[j])
      BY <1>4, <3>1
    <3>3. ~(j - a \in 1 .. b /\ queue'[j] = p[j - a])
      BY <1>3, <3>1, Zenon
    <3>4. j - (a + b) \in 1 .. c /\ queue'[j] = q[j - (a + b)]
      BY <1>5, <3>2, <3>3
    <3>5. q[i - (a + b)] = q[j - (a + b)]
      BY <2>3, <3>4
    <3>6. i - (a + b) = j - (a + b)
      BY <1>3, <2>3, <3>4, <3>5, Zenon
    <3>7. i \in Int /\ j \in Int
      OBVIOUS
    <3> QED BY <1>1, <3>6, <3>7
  <2> QED BY <1>5, <2>1, <2>2, <2>3
<1>8. \A k \in S \union T : \E i \in 1 .. Len(queue') : queue'[i] = k
  <2> TAKE k \in S \union T
  <2>1. CASE k \in S
    <3>1. PICK i \in 1 .. b : p[i] = k
      BY <1>3, <2>1
    <3>2. a + i \in 1 .. Len(queue')
      BY <1>1, <1>2
    <3> QED BY <1>2, <3>1, <3>2
  <2>2. CASE k \in T
    <3>1. PICK i \in 1 .. c : q[i] = k
      BY <1>3, <2>2
    <3>2. a + b + i \in 1 .. Len(queue')
      BY <1>1, <1>2
    <3> QED BY <1>2, <3>1, <3>2
  <2> QED BY <2>1, <2>2
<1>9. \A k \in Keys : items'[k] # <<>> => \E i \in 1 .. Len(queue') : queue'[i] = k
  <2> SUFFICES ASSUME NEW k \in Keys, k \notin S \union T, items'[k] # <<>>
               PROVE  \E i \in 1 .. Len(queue') : queue'[i] = k
    BY <1>8
  <2>1. PICK i \in 1 .. a : queue[i] = k
    BY DEF OneEntryPerKey, a
  <2>2. i \in 1 .. Len(queue')
    BY <1>1, <1>2
  <2> QED BY <1>2, <2>1, <2>2
<1> QED BY <1>2, <1>3, <1>6, <1>7, <1>9 DEF OneEntryPerKey, a

(* A list queues what it touches behind what waits; the first one finds    *)
(* nothing waiting and counts all it touches.                              *)
LEMMA ListOrder ==
    ASSUME TypeOK, OneEntryPerKey, NEW n \in 1 .. Len(hist), List(n)
    PROVE  /\ OneEntryPerKey'
           /\ Len(queue') >= Len(queue)
           /\ \A i \in 1 .. Len(queue) : queue'[i] = queue[i]
           /\ (\A k \in Keys : items[k] = <<>>) /\ queue = <<>> /\ ~populated =>
                 initial' = Len(queue')
<1> DEFINE listed   == {k \in Keys : hist[n][k] # 0}
           missing  == Missing(hist[n], keys)
           New(S)   == {k \in S : items[k] = <<>>}
           after(k) == IF k \in listed THEN WithDelta(items[k], Put(hist[n][k]))
                       ELSE IF k \in missing THEN WithDelta(items[k], Tombstone)
                       ELSE items[k]
<1>1. /\ listed \in SUBSET Keys /\ missing \in SUBSET Keys /\ listed \cap missing = {}
      /\ items' = [k \in Keys |-> after(k)]
  BY DEF List, FifoReplace, Missing
<1>2. PICK p \in SetToSeqs(New(listed)), q \in SetToSeqs(New(missing)) :
          queue' = queue \o p \o q
  BY DEF List, FifoReplace
<1>3. \A k \in Keys : items[k] \in Seq(Delta) /\ hist[n][k] \in Nat
  BY DEF TypeOK
<1>4. \A k \in listed \union missing : items'[k] # <<>>
  BY <1>1, <1>3, WithDeltaEnds, DeltaTypes
<1>5. \A k \in Keys \ (listed \union missing) : items'[k] = items[k]
  BY <1>1
<1>6. queue \in Seq(Keys) /\ items' \in [Keys -> Seq(Delta)]
  BY ListTypes DEF TypeOK
<1>7. ~populated => initial' = Cardinality(listed) + Cardinality(missing)
  BY DEF List, FifoReplace, InitialPopulation
<1> HIDE DEF listed, missing, after
<1>8. /\ OneEntryPerKey'
      /\ Len(queue') = Len(queue) + Cardinality(New(listed)) + Cardinality(New(missing))
      /\ \A i \in 1 .. Len(queue) : queue'[i] = queue[i]
  <2>1. /\ New(listed) \in SUBSET Keys /\ New(missing) \in SUBSET Keys
        /\ New(listed) \cap New(missing) = {}
    BY <1>1
  <2>2. \A k \in New(listed) \union New(missing) : items[k] = <<>> /\ items'[k] # <<>>
    BY <1>4
  <2>3. \A k \in Keys \ (New(listed) \union New(missing)) :
            items[k] # <<>> <=> items'[k] # <<>>
    BY <1>4, <1>5
  <2> HIDE DEF New
  <2> QED BY <1>2, <1>6, <2>1, <2>2, <2>3, AppendOrders
<1>9. Cardinality(New(listed)) \in Nat /\ Cardinality(New(missing)) \in Nat
  <2>1. New(listed) \in SUBSET Keys /\ New(missing) \in SUBSET Keys
    BY <1>1
  <2> QED BY <2>1, KeysAssumption, FS_Subset, FS_CardinalityType
<1>10. Len(queue) \in Nat
  BY <1>6
<1>11. ASSUME \A k \in Keys : items[k] = <<>>, queue = <<>>, ~populated
       PROVE  initial' = Len(queue')
  <2>1. New(listed) = listed /\ New(missing) = missing
    BY <1>1, <1>11
  <2>2. Len(queue) = 0
    BY <1>11
  <2>3. /\ Len(queue') = Len(queue) + Cardinality(listed) + Cardinality(missing)
        /\ Cardinality(listed) \in Nat /\ Cardinality(missing) \in Nat
    BY <1>8, <1>9, <2>1, Zenon
  <2> QED BY <1>7, <1>11, <2>2, <2>3
<1> HIDE DEF New
<1>12. Len(queue') >= Len(queue)
  BY <1>8, <1>9, <1>10
<1> QED BY <1>8, <1>11, <1>12

(* A list leaves the deltas of a key alone or adds one for what it shows. *)
LEMMA ListDeltas ==
    ASSUME TypeOK, NEW n \in 1 .. Len(hist), List(n), NEW k \in Keys
    PROVE  \/ items'[k] = items[k]
           \/ \E d \in Delta : items'[k] = WithDelta(items[k], d) /\ Reaches(d, k, n)
<1>0. hist[n][k] \in Nat
  BY DEF TypeOK
<1>1. items'[k] = IF hist[n][k] # 0 THEN WithDelta(items[k], Put(hist[n][k]))
                  ELSE IF items[k] # <<>> \/ k \in keys THEN WithDelta(items[k], Tombstone)
                  ELSE items[k]
  BY DEF List, FifoReplace, Missing
<1>2. CASE hist[n][k] # 0
  <2>1. Put(hist[n][k]) \in Delta /\ Reaches(Put(hist[n][k]), k, n)
    BY <1>0, DeltaTypes DEF Reaches
  <2> QED BY <1>1, <1>2, <2>1
<1>3. CASE hist[n][k] = 0
  <2>1. Tombstone \in Delta /\ Reaches(Tombstone, k, n)
    BY <1>3, DeltaTypes DEF Reaches, Absent
  <2> QED BY <1>1, <1>3, <2>1
<1> QED BY <1>2, <1>3

(* A watch event adds one delta for its key, or none if the key is unknown.*)
LEMMA WatchDeltas ==
    ASSUME TypeOK, OneEntryPerKey, Watch
    PROVE  /\ OneEntryPerKey'
           /\ Len(queue') >= Len(queue)
           /\ \A i \in 1 .. Len(queue) : queue'[i] = queue[i]
           /\ initial' = initial /\ populated'
           /\ \A k \in Keys :
                 \/ items'[k] = items[k]
                 \/ \E d \in Delta : items'[k] = WithDelta(items[k], d) /\ Reaches(d, k, pos + 1)
<1>0. items \in [Keys -> Seq(Delta)] /\ queue \in Seq(Keys) /\ hist[pos + 1] \in [Keys -> Nat]
  BY DEF TypeOK, Watch, Event
<1>1. PICK k \in Keys :
          IF hist[pos + 1][k] = Absent
          THEN FifoDelete(k, keys)
          ELSE FifoPut(k, hist[pos + 1][k])
  BY DEF Watch, Event
<1>2. ASSUME NEW d \in Delta, QueueAction(k, d), Reaches(d, k, pos + 1)
      PROVE  /\ OneEntryPerKey'
             /\ Len(queue') >= Len(queue)
             /\ \A i \in 1 .. Len(queue) : queue'[i] = queue[i]
             /\ initial' = initial /\ populated'
             /\ \A j \in Keys :
                   \/ items'[j] = items[j]
                   \/ \E e \in Delta : items'[j] = WithDelta(items[j], e) /\ Reaches(e, j, pos + 1)
  <2>1. initial' = initial /\ populated'
    BY <1>2 DEF QueueAction
  <2>2. items' = [items EXCEPT ![k] = WithDelta(items[k], d)]
    BY <1>2, QueueActionTypes
  <2> QED BY <1>0, <1>2, <2>1, <2>2, QueueActionOrder
<1>3. CASE hist[pos + 1][k] # Absent
  <2>1. QueueAction(k, Put(hist[pos + 1][k]))
    BY <1>1, <1>3 DEF FifoPut
  <2>2. Put(hist[pos + 1][k]) \in Delta /\ Reaches(Put(hist[pos + 1][k]), k, pos + 1)
    BY <1>0, DeltaTypes DEF Reaches
  <2> QED BY <1>2, <2>1, <2>2
<1>4. CASE hist[pos + 1][k] = Absent /\ QueueAction(k, Deleted)
  <2>1. Deleted \in Delta /\ Reaches(Deleted, k, pos + 1)
    BY <1>4, DeltaTypes DEF Reaches
  <2> QED BY <1>2, <1>4, <2>1
<1>5. CASE hist[pos + 1][k] = Absent /\ populated' = TRUE /\ UNCHANGED <<queue, items, initial>>
  <2>1. Len(queue) \in Nat
    BY <1>0
  <2> QED BY <1>5, <2>1 DEF OneEntryPerKey
<1> QED BY <1>1, <1>3, <1>4, <1>5 DEF FifoDelete

-----------------------------------------------------------------------------
(* The steps.                                                              *)

(* After the first list, a later list or a watch event keeps what waits    *)
(* where it is, and adds deltas no older than the Reflector's position.    *)
LEMMA SyncRead ==
    ASSUME TypeOK, TypeOK', SyncInv, pos > 0, pos' >= pos,
           UNCHANGED <<hist, rows, failed, included, base, processing, initial>>,
           populated',
           OneEntryPerKey',
           Len(queue') >= Len(queue),
           \A i \in 1 .. Len(queue) : queue'[i] = queue[i],
           \A k \in Keys :
              \/ items'[k] = items[k]
              \/ \E d \in Delta : items'[k] = WithDelta(items[k], d) /\ Reaches(d, k, pos')
    PROVE  SyncInv'
<1>0. /\ pos \in Nat /\ pos' \in Nat /\ base \in Nat /\ base \in 1 .. pos
      /\ Len(queue) \in Nat /\ Len(queue') \in Nat
      /\ \A k \in Keys : items[k] \in Seq(Delta)
  BY DEF TypeOK, SyncInv, Started
<1>1. Started'
  BY <1>0 DEF SyncInv, Started
<1>2. \A k \in Keys : Shows(items[k], k, base, pos) /\ Shows(processing[k], k, base, pos)
  BY DEF SyncInv, Recent
<1>3. \A k \in Keys : Shows(items'[k], k, base, pos')
  <2> TAKE k \in Keys
  <2>1. CASE items'[k] = items[k]
    BY <1>0, <1>2, <2>1, ShowsLater
  <2>2. ASSUME NEW d \in Delta, items'[k] = WithDelta(items[k], d), Reaches(d, k, pos')
        PROVE  Shows(items'[k], k, base, pos')
    BY <1>0, <1>2, <2>2, ShowsMore
  <2> QED BY <2>1, <2>2
<1>4. \A k \in Keys : Shows(processing[k], k, base, pos')
  BY <1>0, <1>2, ShowsLater
<1>5. Recent'
  BY <1>3, <1>4 DEF Recent, Shows, Reaches
<1>6. Counted'
  <2> SUFFICES ASSUME NEW k \in Keys, k \notin failed
               PROVE  Reconciled(k)' \/ InCount(k)'
    BY DEF Counted
  <2>1. CASE Reconciled(k)
    <3>1. base .. pos \subseteq base' .. pos'
      BY <1>0
    <3> QED BY <2>1, <3>1 DEF Reconciled, Want, MatchesNamespace
  <2>2. CASE InCount(k)
    BY <1>0, <2>2 DEF InCount
  <2> QED BY <2>1, <2>2 DEF SyncInv, Counted
<1> QED BY <1>1, <1>5, <1>6 DEF SyncInv

LEMMA SyncRelist ==
    ASSUME IInv, TypeOK', SyncInv, Relist
    PROVE  SyncInv'
<1>1. PICK n \in pos .. Len(hist) : List(n)
  BY DEF Relist
<1>2. TypeOK /\ pos > 0 /\ n \in 1 .. Len(hist) /\ pos' = n /\ pos' >= pos
  BY <1>1 DEF IInv, TypeOK, Relist, List
<1>3. populated' /\ initial' = initial
  BY <1>1, <1>2 DEF List, FifoReplace, SyncInv, Started
<1>4. UNCHANGED <<hist, rows, failed, included, base, processing>>
  BY <1>1 DEF List, Relist, storeVars
<1>5. /\ OneEntryPerKey'
      /\ Len(queue') >= Len(queue)
      /\ \A i \in 1 .. Len(queue) : queue'[i] = queue[i]
  BY <1>1, <1>2, ListOrder DEF SyncInv
<1>6. \A k \in Keys :
         \/ items'[k] = items[k]
         \/ \E d \in Delta : items'[k] = WithDelta(items[k], d) /\ Reaches(d, k, pos')
  BY <1>1, <1>2, ListDeltas
<1> QED BY <1>2, <1>3, <1>4, <1>5, <1>6, SyncRead

LEMMA SyncWatch ==
    ASSUME IInv, TypeOK', SyncInv, Watch
    PROVE  SyncInv'
<1>1. TypeOK /\ pos > 0 /\ pos' = pos + 1 /\ pos' >= pos
  <2>1. TypeOK /\ pos > 0 /\ pos' = pos + 1
    BY DEF IInv, Watch, Event
  <2>2. pos \in Nat
    BY <2>1 DEF TypeOK
  <2> QED BY <2>1, <2>2
<1>2. UNCHANGED <<hist, rows, failed, included, base, processing>>
  BY DEF Watch, Event, storeVars
<1> QED BY <1>1, <1>2, WatchDeltas, SyncRead DEF SyncInv

(* The first list counts every key whose row it does not confirm. *)
LEMMA SyncFirstList ==
    ASSUME IInv, TypeOK', SyncInv, FirstList
    PROVE  SyncInv'
<1>0. TypeOK /\ pos = 0
  BY DEF IInv, FirstList
<1>1. PICK n \in 1 .. Len(hist) : List(n) /\ base' = n
  BY <1>0, FirstListIsList
<1>2. /\ pos' = n /\ populated' /\ phase = "running"
      /\ UNCHANGED <<hist, rows, keys, failed, included, processing>>
  BY <1>1 DEF List, FifoReplace, storeVars
<1>3. /\ \A k \in Keys : items[k] = <<>> /\ processing[k] = <<>>
      /\ queue = <<>> /\ ~populated
  BY <1>0 DEF IInv, Life, Settled, SyncInv, Started
<1>4. /\ OneEntryPerKey'
      /\ initial' = Len(queue')
  BY <1>0, <1>1, <1>3, ListOrder DEF SyncInv
<1>5. n \in Nat /\ n > 0
  BY <1>1
<1>6. Started'
  BY <1>1, <1>2, <1>5 DEF Started
<1>7. Recent'
  <2> SUFFICES ASSUME NEW k \in Keys
               PROVE  Shows(items'[k], k, n, n) /\ Shows(processing[k], k, n, n)
    BY <1>1, <1>2 DEF Recent, Shows, Reaches
  <2>1. Shows(items[k], k, n, n) /\ Shows(processing[k], k, n, n)
    BY <1>3, NothingShown
  <2>2. ASSUME NEW d \in Delta, items'[k] = WithDelta(items[k], d), Reaches(d, k, n)
        PROVE  Shows(items'[k], k, n, n)
    <3>1. items[k] \in Seq(Delta)
      BY <1>0 DEF TypeOK
    <3>2. Shows(WithDelta(items[k], d), k, n, n)
      BY <1>5, <2>1, <2>2, <3>1, ShowsMore
    <3> QED BY <2>2, <3>2
  <2> QED BY <1>0, <1>1, <2>1, <2>2, ListDeltas
<1>8. Counted'
  <2> SUFFICES ASSUME NEW k \in Keys, k \notin failed
               PROVE  Reconciled(k)' \/ InCount(k)'
    BY <1>2 DEF Counted
  <2>1. CASE items'[k] # <<>>
    <3>1. Len(queue') \in Nat
      BY DEF TypeOK
    <3> QED BY <1>4, <2>1, <3>1 DEF InCount, OneEntryPerKey
  <2>2. CASE items'[k] = <<>>
    <3>1. k \notin keys /\ hist[n][k] = Absent
      BY <1>0, <1>1, <2>2, ListEffect
    <3>2. rows[k] = NoRow
      BY <1>2, <3>1 DEF IInv, TrackedRows
    <3>3. rows'[k] = Want(k, n)'
      BY <1>2, <3>1, <3>2 DEF Want, NoRow, Absent, MatchesNamespace
    <3>4. n \in base' .. pos'
      BY <1>1, <1>2
    <3> QED BY <3>3, <3>4 DEF Reconciled
  <2> QED BY <2>1, <2>2
<1> QED BY <1>4, <1>6, <1>7, <1>8 DEF SyncInv

(* Pop takes the first entry, and one from the count. *)
LEMMA SyncPop ==
    ASSUME IInv, TypeOK', SyncInv, Pop
    PROVE  SyncInv'
<1> DEFINE h == Head(queue)
<1>0. /\ items \in [Keys -> Seq(Delta)] /\ processing \in [Keys -> Seq(Delta)]
      /\ queue \in Seq(Keys) /\ queue # <<>> /\ initial \in Nat
  BY DEF IInv, TypeOK, Pop, FifoPop
<1>1. /\ h \in Keys /\ h = queue[1] /\ Len(queue) \in Nat /\ Len(queue) > 0
      /\ queue' = Tail(queue) /\ Len(queue') = Len(queue) - 1
      /\ \A i \in 1 .. Len(queue') : queue'[i] = queue[i + 1]
  BY <1>0 DEF Pop, FifoPop
<1>2. /\ items' = [items EXCEPT ![h] = <<>>]
      /\ processing' = [processing EXCEPT ![h] = items[h]]
      /\ initial' = IF initial > 0 THEN initial - 1 ELSE 0
      /\ UNCHANGED <<hist, rows, failed, included, pos, base, populated>>
      /\ Idle
  BY DEF Pop, FifoPop, storeVars
<1> HIDE DEF h
<1>3. /\ items'[h] = <<>> /\ processing'[h] = items[h]
      /\ \A k \in Keys \ {h} : items'[k] = items[k] /\ processing'[k] = processing[k]
  BY <1>0, <1>1, <1>2
<1>4. /\ \A i \in 1 .. Len(queue) : items[queue[i]] # <<>> /\ queue[i] \in Keys
      /\ \A i, j \in 1 .. Len(queue) : queue[i] = queue[j] => i = j
  BY <1>0 DEF SyncInv, OneEntryPerKey
<1>5. Started'
  BY <1>0, <1>1, <1>2 DEF SyncInv, Started
<1>6. OneEntryPerKey'
  <2>1. \A i \in 1 .. Len(queue') : i + 1 \in 1 .. Len(queue) /\ i + 1 # 1 /\ 1 \in 1 .. Len(queue)
    BY <1>1
  <2>2. \A i \in 1 .. Len(queue') : items'[queue'[i]] # <<>>
    BY <1>1, <1>3, <1>4, <2>1
  <2>3. \A i, j \in 1 .. Len(queue') : queue'[i] = queue'[j] => i + 1 = j + 1
    BY <1>1, <1>4, <2>1
  <2>4. \A i, j \in 1 .. Len(queue') : i + 1 = j + 1 => i = j
    OBVIOUS
  <2>5. ASSUME NEW k \in Keys, items'[k] # <<>>
        PROVE  \E i \in 1 .. Len(queue') : queue'[i] = k
    <3>1. k # h /\ items[k] # <<>>
      BY <1>3, <2>5
    <3>2. PICK i \in 1 .. Len(queue) : queue[i] = k
      BY <3>1 DEF SyncInv, OneEntryPerKey
    <3>3. i # 1 /\ i - 1 \in 1 .. Len(queue') /\ (i - 1) + 1 = i
      BY <1>1, <3>1, <3>2
    <3>4. queue'[i - 1] = k
      BY <1>1, <3>2, <3>3
    <3> QED BY <3>3, <3>4
  <2> QED BY <2>2, <2>3, <2>4, <2>5 DEF OneEntryPerKey
<1>7. Recent'
  <2> SUFFICES ASSUME pos > 0, NEW k \in Keys
               PROVE  Shows(items'[k], k, base, pos) /\ Shows(processing'[k], k, base, pos)
    BY <1>2 DEF Recent, Shows, Reaches
  <2> QED BY <1>3, NothingShown DEF SyncInv, Recent
<1>8. Counted'
  <2> SUFFICES ASSUME pos > 0, NEW k \in Keys, k \notin failed
               PROVE  Reconciled(k)' \/ InCount(k)'
    BY <1>2 DEF Counted
  <2>1. CASE Reconciled(k)
    BY <1>2, <2>1 DEF Reconciled, Want, MatchesNamespace
  <2>2. CASE InCount(k)
    <3>1. PICK i \in 1 .. Len(queue) : i <= initial /\ queue[i] = k
      BY <1>2, <2>2 DEF InCount, Idle
    <3>2. CASE i = 1
      <4>1. k = h /\ processing'[h] = items[h] /\ items[h] # <<>>
        BY <1>1, <1>3, <1>4, <3>1, <3>2
      <4> QED BY <4>1 DEF InCount
    <3>3. CASE i # 1
      <4>1. /\ i - 1 \in 1 .. Len(queue') /\ (i - 1) + 1 = i
            /\ i - 1 <= initial'
        BY <1>0, <1>1, <1>2, <3>1, <3>3
      <4>2. queue'[i - 1] = k
        BY <1>1, <3>1, <4>1
      <4> QED BY <4>1, <4>2 DEF InCount
    <3> QED BY <3>2, <3>3
  <2> QED BY <2>1, <2>2 DEF SyncInv, Counted
<1> QED BY <1>5, <1>6, <1>7, <1>8 DEF SyncInv

(* The deltas of a popped key lead, front to back, to versions no older    *)
(* than the first list; the first one handled reconciles the row, or fails *)
(* and the key is among the failed ones.                                   *)
LEMMA SyncProcess ==
    ASSUME IInv, TypeOK', SyncInv, NEW k \in Keys, Process(k)
    PROVE  SyncInv'
<1> DEFINE d == Head(processing[k])
<1>1. /\ processing \in [Keys -> Seq(Delta)] /\ processing[k] \in Seq(Delta)
      /\ processing[k] # <<>> /\ TypeOK /\ phase = "running"
  BY DEF Process, IInv, TypeOK
<1>2. /\ d \in Delta /\ Tail(processing[k]) \in Seq(Delta)
      /\ Len(processing[k]) \in Nat /\ Len(processing[k]) > 0
      /\ d = processing[k][1]
      /\ Len(Tail(processing[k])) = Len(processing[k]) - 1
      /\ \A i \in 1 .. Len(Tail(processing[k])) : Tail(processing[k])[i] = processing[k][i + 1]
  BY <1>1
<1>3. /\ Handle(k, d)
      /\ processing' = [processing EXCEPT ![k] = Tail(@)]
      /\ UNCHANGED <<hist, queue, items, populated, initial, included, pos, base>>
  BY DEF Process, fifoVars
<1> HIDE DEF d
<1>4. /\ OnlyTouches(k)
      /\ \/ k \notin failed' /\ rows'[k] = NoRow
            /\ (IsDeletion(d) \/ ~MatchesNamespace(k))
         \/ k \notin failed' /\ rows'[k] = d.rv
            /\ ~IsDeletion(d) /\ MatchesNamespace(k)
         \/ k \in failed'
         \/ UNCHANGED storeVars /\ k \notin keys /\ ~MatchesNamespace(k)
  BY <1>1, <1>2, <1>3, HandleEffect DEF StoreTypes, TypeOK
<1>5. /\ processing'[k] = Tail(processing[k])
      /\ \A j \in Keys \ {k} : processing'[j] = processing[j]
  BY <1>1, <1>3
<1>6. pos > 0
  BY <1>1 DEF IInv, Life, Settled, TypeOK
<1>7. Started' /\ OneEntryPerKey'
  BY <1>3 DEF SyncInv, Started, OneEntryPerKey
<1>8. Shows(processing[k], k, base, pos)
  BY <1>6 DEF SyncInv, Recent
<1>9. Recent'
  <2> SUFFICES ASSUME NEW j \in Keys
               PROVE  Shows(items[j], j, base, pos) /\ Shows(processing'[j], j, base, pos)
    <3>1. UNCHANGED <<hist, items, pos, base>>
      BY <1>3
    <3> QED BY <3>1 DEF Recent, Shows, Reaches
  <2>1. Shows(items[j], j, base, pos) /\ Shows(processing[j], j, base, pos)
    BY <1>6 DEF SyncInv, Recent
  <2>2. CASE j = k
    <3> SUFFICES ASSUME NEW i \in 1 .. Len(Tail(processing[k]))
                 PROVE  \E n \in base .. pos : Reaches(Tail(processing[k])[i], k, n)
      BY <1>5, <2>1, <2>2 DEF Shows
    <3>1. i + 1 \in 1 .. Len(processing[k])
      BY <1>2
    <3> QED BY <1>2, <1>8, <3>1 DEF Shows
  <2> QED BY <1>5, <2>1, <2>2
<1>10. Counted'
  <2> SUFFICES ASSUME NEW j \in Keys, j \notin failed'
               PROVE  Reconciled(j)' \/ InCount(j)'
    BY DEF Counted
  <2>1. CASE j # k
    <3>1. rows'[j] = rows[j] /\ j \notin failed /\ processing'[j] = processing[j]
      BY <1>4, <1>5, <2>1 DEF OnlyTouches
    <3>2. Reconciled(j) \/ InCount(j)
      BY <1>6, <3>1 DEF SyncInv, Counted
    <3>3. CASE Reconciled(j)
      BY <1>3, <3>1, <3>3 DEF Reconciled, Want, MatchesNamespace
    <3>4. CASE InCount(j)
      BY <1>3, <3>1, <3>4 DEF InCount
    <3> QED BY <3>2, <3>3, <3>4
  <2>2. CASE j = k
    <3>1. PICK n \in base .. pos : Reaches(d, k, n)
      BY <1>2, <1>8 DEF Shows
    <3>2. CASE UNCHANGED storeVars /\ k \notin keys /\ ~MatchesNamespace(k)
      <4>1. rows'[k] = NoRow
        BY <1>1, <2>2, <3>2 DEF IInv, TrackedRows, storeVars
      <4> QED BY <1>3, <2>2, <3>1, <3>2, <4>1 DEF Reconciled, Want, MatchesNamespace
    <3>3. CASE rows'[k] = NoRow /\ (IsDeletion(d) \/ ~MatchesNamespace(k))
      BY <1>3, <2>2, <3>1, <3>3 DEF Reconciled, Want, MatchesNamespace, Reaches, NoRow, Absent
    <3>4. CASE rows'[k] = d.rv /\ ~IsDeletion(d) /\ MatchesNamespace(k)
      BY <1>3, <2>2, <3>1, <3>4 DEF Reconciled, Want, MatchesNamespace, Reaches
    <3> QED BY <1>4, <2>2, <3>2, <3>3, <3>4
  <2> QED BY <2>1, <2>2
<1> QED BY <1>7, <1>9, <1>10 DEF SyncInv

LEMMA SyncCluster ==
    ASSUME IInv, TypeOK', SyncInv, Cluster
    PROVE  SyncInv'
<1>1. TypeOK /\ \A n \in 1 .. Len(hist) : hist'[n] = hist[n]
  BY HistoryGrows DEF IInv, TypeOK, Cluster
<1>2. UNCHANGED <<queue, items, populated, initial, rows, failed, included, pos, base, processing>>
  BY DEF Cluster, fifoVars, storeVars
<1>3. Started' /\ OneEntryPerKey'
  BY <1>2 DEF SyncInv, Started, OneEntryPerKey
<1>4. ASSUME pos > 0
      PROVE  \A n \in base .. pos : hist'[n] = hist[n]
  BY <1>1, <1>4 DEF TypeOK, SyncInv, Started
<1>5. Recent'
  BY <1>2, <1>4 DEF SyncInv, Recent, Shows, Reaches
<1>6. Counted'
  BY <1>2, <1>4 DEF SyncInv, Counted, Reconciled, InCount, Want, MatchesNamespace
<1> QED BY <1>3, <1>5, <1>6 DEF SyncInv

(* The process starts, gives up or stops: the queue is empty. *)
LEMMA SyncLifecycle ==
    ASSUME IInv, TypeOK', SyncInv, Start \/ StartFails \/ Crash
    PROVE  SyncInv'
<1>1. pos' = 0
  BY DEF IInv, Life, Start, StartFails, Crash
<1>2. queue' = <<>> /\ initial' = 0 /\ ~populated'
  <2>1. CASE Crash
    BY <2>1 DEF Crash, FifoReset
  <2>2. CASE Start \/ StartFails
    <3>1. pos = 0 /\ UNCHANGED <<queue, populated, initial>>
      BY <2>2 DEF IInv, Life, Start, StartFails, fifoVars
    <3> QED BY <3>1 DEF SyncInv, Started
  <2> QED BY <2>1, <2>2
<1>3. Len(queue') = 0 /\ \A k \in Keys : items'[k] = <<>>
  BY <1>2 DEF IInv, Life, Settled, Start, StartFails, Crash, FifoReset, fifoVars
<1> QED BY <1>1, <1>2, <1>3 DEF SyncInv, Started, OneEntryPerKey, Recent, Counted

LEMMA SyncInit == Init => SyncInv
<1> SUFFICES ASSUME Init PROVE SyncInv
  OBVIOUS
<1>1. pos = 0 /\ queue = <<>> /\ initial = 0 /\ ~populated
  BY DEF Init, FifoInit
<1>2. Len(queue) = 0 /\ \A k \in Keys : items[k] = <<>>
  BY <1>1 DEF Init, FifoInit
<1> QED BY <1>1, <1>2 DEF SyncInv, Started, OneEntryPerKey, Recent, Counted

LEMMA SyncStep == IInv /\ IInv' /\ SyncInv /\ [Next]_vars => SyncInv'
<1> SUFFICES ASSUME IInv, IInv', SyncInv, [Next]_vars PROVE SyncInv'
  OBVIOUS
<1>0. TypeOK'
  BY DEF IInv
<1>1. CASE Cluster
  BY <1>0, <1>1, SyncCluster
<1>2. CASE Start \/ StartFails \/ Crash
  BY <1>0, <1>2, SyncLifecycle
<1>3. CASE FirstList
  BY <1>0, <1>3, SyncFirstList
<1>4. CASE Relist
  BY <1>0, <1>4, SyncRelist
<1>5. CASE Watch
  BY <1>0, <1>5, SyncWatch
<1>6. CASE Pop
  BY <1>0, <1>6, SyncPop
<1>7. ASSUME NEW k \in Keys, Process(k) PROVE SyncInv'
  BY <1>0, <1>7, SyncProcess
<1>8. CASE UNCHANGED vars
  <2>1. UNCHANGED <<hist, queue, items, populated, initial, rows, failed, included,
                    pos, base, processing>>
    BY <1>8 DEF vars
  <2> QED BY <2>1 DEF SyncInv, Started, OneEntryPerKey, Recent, Counted, Shows, Reaches,
                      Reconciled, InCount, Want, MatchesNamespace
<1> QED BY <1>1, <1>2, <1>3, <1>4, <1>5, <1>6, <1>7, <1>8 DEF Next

(* The counter of HasSynced covers every key it should (store.go:56-98,    *)
(* syncer.go:211-239).                                                     *)
THEOREM SyncInvariance == Spec => []SyncInv
<1>1. Init => SyncInv
  BY SyncInit
<1>2. IInv /\ IInv' /\ SyncInv /\ [Next]_vars => SyncInv'
  BY SyncStep
<1> QED BY <1>1, <1>2, Invariance, PTL DEF Spec

-----------------------------------------------------------------------------
(* Whatever runs in between, a controller that reports HasSynced has       *)
(* brought every row to a version no older than its first list, listed     *)
(* objects and revealed deletions alike, unless the key's last datastore   *)
(* call failed (syncer_hassynced.go:10-16, syncer.go:99-239).              *)
THEOREM InitialSyncSafe == Spec => []InitialSyncReconciled
<1>1. IInv /\ SyncInv => InitialSyncReconciled
  <2> SUFFICES ASSUME IInv, SyncInv, FifoHasSynced, Idle, NEW k \in Keys \ failed
               PROVE  Reconciled(k)
    BY DEF InitialSyncReconciled, Reconciled
  <2>1. populated /\ initial = 0
    BY DEF FifoHasSynced
  <2>2. pos > 0
    BY <2>1 DEF SyncInv, Started, IInv, TypeOK
  <2>3. ~InCount(k)
    BY <2>1 DEF InCount, Idle
  <2> QED BY <2>2, <2>3 DEF SyncInv, Counted
<1> QED BY <1>1, SyncInvariance, Invariance, PTL
=============================================================================
