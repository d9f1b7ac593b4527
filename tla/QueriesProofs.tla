--------------------------- MODULE QueriesProofs ----------------------------
(***************************************************************************)
(* Proofs about the state service, for any rows, callers, requests and     *)
(* writers: its type invariant, the exclusion of readers and writers of    *)
(* the map, and that it implements QueryService.                           *)
(***************************************************************************)
EXTENDS Queries, TLAPS

(***************************************************************************)
(* The inductive invariant.                                                *)
(***************************************************************************)

Selection(q, T) == {r \in T : Selects(q, r)}

(* Only a scan holds rows; those of a loop over the map add up to what is  *)
(* selected of the map.                                                    *)
ScanState ==
    \A c \in Callers :
        /\ pc[c] # "scanning" => source[c] = {} /\ records[c] = {}
        /\ c \in readers =>
               records[c] \union Selection(request[c], source[c])
                   = Selection(request[c], table)

(* What the request tells about the reply to it.                           *)
ReplyState ==
    \A c \in Callers :
        /\ pc[c] \in {"sent", "calling", "scanning", "returned"}
               /\ request[c].op = "FetchResourceGraph" => backend = "memory"
        /\ pc[c] \in {"calling", "scanning", "returned"} => ~Refused(request[c])
        /\ pc[c] = "returned" =>
               /\ reply[c].status # "none"
               /\ reply[c].status = "ErrNotFound" => request[c].op = "GetResource"
               /\ reply[c].status = "ok" /\ request[c].op = "GetResource" =>
                      reply[c].rows # {} /\ ~Several(reply[c].rows)

(* Only the map has a lock.                                                *)
LockState == \A w \in Workers : writer[w] # "idle" => backend = "memory"

IInv == TypeOK /\ ScanOfOneMap /\ ScanState /\ ReplyState /\ LockState

(***************************************************************************)
(* Lemmas about the operators.                                             *)
(***************************************************************************)

LEMMA TablesKept == ASSUME NEW T \in Tables PROVE Written(T) \subseteq Tables
  BY DEF Written, Tables, Upserted, Deleted

LEMMA RepliesOf ==
    ASSUME NEW q, NEW S \in SUBSET Rows
    PROVE  /\ ReplyOf(q, S) \in Replies
           /\ ReplyOf(q, S).status \in {"ok", "ErrNotFound", "multiple"}
           /\ ReplyOf(q, S).status = "ErrNotFound" => q.op = "GetResource" /\ S = {}
           /\ ReplyOf(q, S).status = "ok" => ReplyOf(q, S).rows = S
           /\ ReplyOf(q, S).status = "ok" /\ q.op = "GetResource" =>
                  S # {} /\ ~Several(S)
  BY DEF ReplyOf, Replies

LEMMA CollectedRows ==
    ASSUME NEW q, NEW S \in SUBSET Rows, NEW T \in Collected(q, S)
    PROVE  T \subseteq Rows
  BY DEF Collected, Unique

(* The rows that the service speaks of are the same.                       *)
LEMMA SameRecords ==
    /\ Service!Tables = Tables
    /\ \A T, r : Service!Upserted(T, r) = Upserted(T, r) /\ Service!Deleted(T, r) = Deleted(T, r)
    /\ \A S : Service!Unique(S) = Unique(S)
    /\ \A info, r : Service!Matches(info, r) = Matches(info, r)
    /\ \A info, field : Service!FieldOf(info, field) = FieldOf(info, field)
    /\ \A S : Service!Several(S) = Several(S)
  <1> USE DEF Service!PrimaryKey, PrimaryKey, Service!Key, Key
  <1>1. Service!Tables = Tables
    BY DEF Service!Tables, Tables
  <1>2. \A T, r : Service!Upserted(T, r) = Upserted(T, r) /\ Service!Deleted(T, r) = Deleted(T, r)
    BY DEF Service!Upserted, Upserted, Service!Deleted, Deleted
  <1>3. \A S : Service!Unique(S) = Unique(S)
    BY DEF Service!Unique, Unique
  <1>4. \A info, r : Service!Matches(info, r) = Matches(info, r)
    BY DEF Service!Matches, Matches
  <1>5. \A info, field : Service!FieldOf(info, field) = FieldOf(info, field)
    BY DEF Service!FieldOf, FieldOf
  <1>6. \A S : Service!Several(S) = Several(S)
    BY DEF Service!Several, Several
  <1> QED BY <1>1, <1>2, <1>3, <1>4, <1>5, <1>6

(* The WHERE clause and the loop select what the service promises.         *)
LEMMA SelectionIsSelected ==
    ASSUME NEW c \in Callers, NEW q \in RequestsOf[c], NEW T
    PROVE  Selection(q, T) = Service!Selected(q, T)
  <1>1. CASE q.op = "ListResourceKeys"
    <2>1. "kind" \in DOMAIN q.filter => q.filter.kind # ""
      BY RequestsAssumption
    <2>2. ASSUME NEW r \in T
          PROVE  HasPrefix(r, q.filter) <=>
                     /\ \A field \in {"cluster", "group", "version"} :
                           r[field] = FieldOf(q.filter, field)
                     /\ FieldOf(q.filter, "kind") \in {"", r.kind}
      <3>1. ("kind" \in DOMAIN q.filter => r.kind = q.filter.kind)
               <=> FieldOf(q.filter, "kind") \in {"", r.kind}
        BY <2>1 DEF FieldOf
      <3> QED BY <3>1 DEF HasPrefix
    <2>3. Service!Selected(q, T) =
              {r \in T : /\ \A field \in {"cluster", "group", "version"} :
                               r[field] = FieldOf(q.filter, field)
                         /\ FieldOf(q.filter, "kind") \in {"", r.kind}}
      BY <1>1, SameRecords DEF Service!Selected
    <2> QED BY <1>1, <2>2, <2>3 DEF Selection, Selects
  <1>2. CASE q.op # "ListResourceKeys"
    BY <1>2, SameRecords DEF Selection, Selects, Service!Selected
  <1> QED BY <1>1, <1>2

LEMMA CollectedIsViews ==
    ASSUME NEW c \in Callers, NEW q \in RequestsOf[c], NEW T
    PROVE  Collected(q, Selection(q, T)) = Service!Views(q, T)
  BY SelectionIsSelected, SameRecords DEF Collected, Service!Views

(***************************************************************************)
(* The invariant holds at the start and is kept by every step.             *)
(***************************************************************************)

LEMMA SaysOutcome ==
    /\ \A what \in Words, S \in SUBSET Rows : Says(what, S) \in Outcomes
    /\ \A what \in Words : Says(what, {}) \in Outcomes
  BY DEF Says, Outcomes

LEMMA InitIInv == Init => IInv
  <1> SUFFICES ASSUME Init PROVE IInv
    OBVIOUS
  <1> USE DEF Init, BackendsInit
  <1>1. Nothing \in Outcomes
    BY SaysOutcome DEF Nothing, Words
  <1>2. TypeOK
    BY <1>1 DEF TypeOK, States, Replies, NoReply
  <1>3. ScanOfOneMap /\ ScanState /\ ReplyState /\ LockState
    BY DEF ScanOfOneMap, ScanState, ReplyState, LockState
  <1> QED BY <1>2, <1>3 DEF IInv

(* Steps of a caller that neither starts nor ends a scan.                  *)
LEMMA MessageStep ==
    ASSUME NEW c \in Callers, IInv,
           Ask(c) \/ Refuse(c) \/ PassOn(c) \/ ConnectionFails(c) \/ Deliver(c) \/ Done(c)
    PROVE  IInv'
  <1> USE DEF IInv, storeVars
  <1> DEFINE Effect ==
        /\ pc[c] \notin {"scanning", "calling"}
        /\ pc' = [pc EXCEPT ![c] = pc'[c]] /\ pc'[c] \in States \ {"scanning", "returned"}
        /\ request' = [request EXCEPT ![c] = request'[c]]
        /\ IF pc'[c] = "idle" THEN request'[c] = NoRequest
                              ELSE request'[c] \in RequestsOf[c]
        /\ reply' = [reply EXCEPT ![c] = reply'[c]] /\ reply'[c] \in Replies
        /\ outcome' \in [Callers -> Outcomes]
        /\ UNCHANGED <<source, records, storeVars>>
        /\ request'[c].op = "FetchResourceGraph" => backend = "memory"
        /\ pc'[c] = "calling" => ~Refused(request'[c])
  <1>1. Effect
    <2>1. CASE Ask(c)
      BY <2>1 DEF Ask, TypeOK, States, Refused
    <2>2. CASE PassOn(c)
      BY <2>2 DEF PassOn, TypeOK, States, ReplyState
    <2>3. CASE Done(c)
      <3>1. Nothing \in Outcomes
        BY SaysOutcome DEF Nothing, Words
      <3> QED BY <2>3, <3>1 DEF Done, TypeOK, States, NoRequest
    <2>4. ASSUME NEW answer \in Outcomes, Tell(c, answer), pc[c] \in {"sent", "returned"}
          PROVE  Effect
      BY <2>4 DEF Tell, TypeOK, States, Replies, NoReply, ReplyState
    <2>5. CASE Refuse(c)
      <3>1. Says("InvalidArgument", {}) \in Outcomes
        BY SaysOutcome DEF Words
      <3> QED BY <2>4, <2>5, <3>1 DEF Refuse
    <2>6. CASE ConnectionFails(c)
      <3>1. Says("error", {}) \in Outcomes
        BY SaysOutcome DEF Words
      <3> QED BY <2>4, <2>6, <3>1 DEF ConnectionFails
    <2>7. CASE Deliver(c)
      <3>1. /\ StatusOf(reply[c]) \in Outcomes
            /\ StatusOf(reply[c]).what = "OK" =>
                   \A q : Shown(q, StatusOf(reply[c]).rows) \in Outcomes
        <4>1. reply[c] \in Replies
          BY DEF TypeOK
        <4>2. reply[c].status = "ok" => reply[c].rows \in SUBSET Rows
          BY <4>1 DEF Replies
        <4>3. StatusOf(reply[c]) \in Outcomes
          BY <4>2, SaysOutcome DEF StatusOf, Words
        <4>4. StatusOf(reply[c]).rows \in SUBSET Rows
          BY <4>3 DEF Outcomes
        <4> QED BY <4>3, <4>4, SaysOutcome DEF Shown, Words
      <3>2. PICK answer \in Outcomes : Tell(c, answer)
        BY <2>7, <3>1 DEF Deliver
      <3> QED BY <2>4, <2>7, <3>2 DEF Deliver
    <2> QED BY <2>1, <2>2, <2>3, <2>5, <2>6, <2>7
  <1>2. TypeOK'
    <2>1. request'[c] \in {NoRequest} \union Requests
      BY <1>1 DEF Requests
    <2>2. readers' = {d \in Callers : backend' = "memory" /\ pc'[d] = "scanning"}
      BY <1>1 DEF TypeOK
    <2> QED BY <1>1, <2>1, <2>2 DEF TypeOK
  <1>3. ScanOfOneMap' /\ ScanState'
    BY <1>1 DEF ScanOfOneMap, ScanState, TypeOK
  <1>4. ReplyState' /\ LockState'
    BY <1>1 DEF ReplyState, LockState, TypeOK
  <1> QED BY <1>2, <1>3, <1>4

(* A scan starts: for one caller, or for all that waited for the lock.     *)
LEMMA ScanStarts ==
    ASSUME IInv, NEW S \in SUBSET Callers, NEW T,
           \A c \in S : pc[c] = "calling",
           pc' = [c \in Callers |-> IF c \in S THEN "scanning" ELSE pc[c]],
           source' = [c \in Callers |-> IF c \in S THEN T[c] ELSE source[c]],
           \A c \in S : T[c] \in SUBSET Rows,
           UNCHANGED <<request, records, reply, outcome, backend>>,
           backend = "postgres" => readers' = readers,
           backend = "memory" => readers' = readers \union S /\ \A c \in S : T[c] = table',
           table' \in Tables, readers # {} => table' = table,
           writer' \in [Workers -> {"idle", "waiting", "locked"}],
           readers' # {} => \A w \in Workers : writer'[w] # "locked",
           \A v, w \in Workers : writer'[v] = "locked" /\ writer'[w] = "locked" => v = w,
           \A w \in Workers : writer'[w] # "idle" => backend = "memory"
    PROVE  IInv'
  <1> USE DEF IInv
  <1>1. TypeOK'
    <2>1. readers' = {c \in Callers : backend' = "memory" /\ pc'[c] = "scanning"}
      BY DEF TypeOK
    <2> QED BY <2>1 DEF TypeOK, States
  <1>2. ScanOfOneMap'
    <2>1. \A c \in readers : records[c] \subseteq table /\ source[c] \subseteq table
      BY DEF ScanOfOneMap
    <2>2. \A c \in S : records[c] = {}
      BY DEF ScanState
    <2>3. ASSUME NEW c \in readers'
          PROVE  records'[c] \subseteq table' /\ source'[c] \subseteq table'
      BY <2>1, <2>2 DEF TypeOK
    <2> QED BY <2>3 DEF ScanOfOneMap
  <1>3. ScanState'
    <2> SUFFICES ASSUME NEW c \in Callers
                 PROVE  /\ pc'[c] # "scanning" => source'[c] = {} /\ records'[c] = {}
                        /\ c \in readers' =>
                               records'[c] \union Selection(request'[c], source'[c])
                                   = Selection(request'[c], table')
      BY DEF ScanState, Selection, Selects, HasPrefix, Matches, FieldOf
    <2>1. CASE c \in S
      <3>1. records[c] = {}
        BY <2>1 DEF ScanState
      <3> QED BY <2>1, <3>1 DEF TypeOK
    <2>2. CASE c \notin S
      BY <2>2 DEF ScanState, TypeOK
    <2> QED BY <2>1, <2>2
  <1>4. ReplyState' /\ LockState'
    BY DEF ReplyState, LockState, TypeOK
  <1> QED BY <1>1, <1>2, <1>3, <1>4

LEMMA QueryStep == ASSUME NEW c \in Callers, IInv, Query(c), UNCHANGED outcome PROVE IInv'
  <1> DEFINE T == [d \in Callers |-> {r \in table : Selects(request[d], r)}]
  <1> USE DEF IInv, Query, storeVars
  <1>1. /\ {c} \in SUBSET Callers /\ T[c] \in SUBSET Rows
        /\ pc' = [d \in Callers |-> IF d \in {c} THEN "scanning" ELSE pc[d]]
        /\ source' = [d \in Callers |-> IF d \in {c} THEN T[d] ELSE source[d]]
    BY DEF TypeOK, Tables
  <1> HIDE DEF T
  <1>2. readers = {}
    BY DEF TypeOK
  <1>3. /\ table' \in Tables /\ writer' \in [Workers -> {"idle", "waiting", "locked"}]
        /\ \A v, w \in Workers : writer'[v] = "locked" /\ writer'[w] = "locked" => v = w
        /\ \A w \in Workers : writer'[w] # "idle" => backend = "memory"
    BY DEF TypeOK, ScanOfOneMap, LockState
  <1> QED BY <1>1, <1>2, <1>3, ScanStarts

LEMMA RLockStep == ASSUME NEW c \in Callers, IInv, RLock(c), UNCHANGED outcome PROVE IInv'
  <1> DEFINE T == [d \in Callers |-> table]
  <1> USE DEF IInv, RLock, ReadersMayEnter
  <1>1. /\ {c} \in SUBSET Callers /\ T[c] \in SUBSET Rows /\ T[c] = table'
        /\ pc' = [d \in Callers |-> IF d \in {c} THEN "scanning" ELSE pc[d]]
        /\ source' = [d \in Callers |-> IF d \in {c} THEN T[d] ELSE source[d]]
    BY DEF TypeOK, Tables
  <1> HIDE DEF T
  <1>2. /\ table' \in Tables /\ writer' \in [Workers -> {"idle", "waiting", "locked"}]
        /\ \A w \in Workers : writer'[w] # "locked"
    BY DEF TypeOK
  <1> QED BY <1>1, <1>2, ScanStarts

(* The entry of a map under one key is the row that was found there. *)
LEMMA EntryOf ==
    ASSUME NEW q, NEW T \in Tables, NEW r \in T
    PROVE  {s \in T : PrimaryKey(s) = PrimaryKey(r) /\ Selects(q, s)} = Selection(q, {r})
  BY DEF Tables, Selection

LEMMA ReadStep == ASSUME NEW c \in Callers, IInv, ReadNext(c), UNCHANGED outcome PROVE IInv'
  <1> USE DEF IInv, storeVars
  <1>1. PICK r \in source[c] :
            /\ source' = [source EXCEPT ![c] = @ \ {r}]
            /\ records' = [records EXCEPT ![c] = @ \union
                  IF backend = "postgres" THEN {r}
                  ELSE {s \in table : PrimaryKey(s) = PrimaryKey(r) /\ Selects(request[c], s)}]
    BY DEF ReadNext
  <1>2. pc[c] = "scanning" /\ UNCHANGED <<pc, request, reply, storeVars>>
    BY DEF ReadNext
  <1>3. r \in Rows /\ table \subseteq Rows
    BY DEF TypeOK, Tables
  <1>4. TypeOK'
    BY <1>1, <1>2, <1>3 DEF TypeOK
  <1>5. ScanOfOneMap'
    BY <1>1, <1>2 DEF ScanOfOneMap, TypeOK
  <1>6. ScanState'
    <2> SUFFICES ASSUME NEW d \in Callers
                 PROVE  /\ pc'[d] # "scanning" => source'[d] = {} /\ records'[d] = {}
                        /\ d \in readers' =>
                               records'[d] \union Selection(request'[d], source'[d])
                                   = Selection(request'[d], table')
      BY DEF ScanState, Selection, Selects, HasPrefix, Matches, FieldOf
    <2>1. CASE d # c
      BY <1>1, <1>2, <2>1 DEF ScanState, TypeOK
    <2>2. CASE d = c /\ c \in readers
      <3>1. r \in table
        BY <2>2 DEF ScanOfOneMap
      <3>2. records'[c] = records[c] \union Selection(request[c], {r})
        BY <1>1, <2>2, <3>1, EntryOf DEF TypeOK
      <3>3. Selection(request[c], source[c])
                = Selection(request[c], {r}) \union Selection(request[c], source'[c])
        BY <1>1 DEF Selection, TypeOK
      <3> QED BY <1>2, <2>2, <3>2, <3>3 DEF ScanState
    <2> QED BY <1>2, <2>1, <2>2
  <1>7. ReplyState' /\ LockState'
    BY <1>2 DEF ReplyState, LockState
  <1> QED BY <1>4, <1>5, <1>6, <1>7

LEMMA ReturnStep ==
    ASSUME NEW c \in Callers, IInv, ScanEnds(c) \/ QueryFails(c), UNCHANGED outcome
    PROVE  IInv'
  <1> USE DEF IInv
  <1>1. pc[c] \in {"calling", "scanning"}
    BY DEF ScanEnds, QueryFails, MayFail
  <1>2. PICK result \in Replies :
            /\ Return(c, result)
            /\ result.status # "none"
            /\ result.status = "ErrNotFound" => request[c].op = "GetResource"
            /\ result.status = "ok" /\ request[c].op = "GetResource" =>
                   result.rows # {} /\ ~Several(result.rows)
    <2>1. CASE ScanEnds(c)
      <3>1. PICK S \in Collected(request[c], records[c]) : Return(c, ReplyOf(request[c], S))
        BY <2>1 DEF ScanEnds
      <3>2. S \in SUBSET Rows
        BY CollectedRows DEF TypeOK
      <3> QED BY <3>1, <3>2, RepliesOf
    <2>2. CASE QueryFails(c)
      BY <2>2 DEF QueryFails, Error, Replies
    <2> QED BY <2>1, <2>2
  <1>3. /\ reply' = [reply EXCEPT ![c] = result] /\ pc' = [pc EXCEPT ![c] = "returned"]
        /\ source' = [source EXCEPT ![c] = {}] /\ records' = [records EXCEPT ![c] = {}]
        /\ readers' = readers \ {c}
        /\ UNCHANGED <<request, backend, table, writer, outcome>>
    BY <1>2 DEF Return
  <1>4. TypeOK'
    <2>1. readers' = {d \in Callers : backend' = "memory" /\ pc'[d] = "scanning"}
      BY <1>3 DEF TypeOK
    <2> QED BY <1>1, <1>3, <2>1 DEF TypeOK, States
  <1>5. ScanOfOneMap'
    BY <1>3 DEF ScanOfOneMap, TypeOK
  <1>6. ScanState'
    <2> SUFFICES ASSUME NEW d \in Callers
                 PROVE  /\ pc'[d] # "scanning" => source'[d] = {} /\ records'[d] = {}
                        /\ d \in readers' =>
                               records'[d] \union Selection(request'[d], source'[d])
                                   = Selection(request'[d], table')
      BY DEF ScanState, Selection, Selects, HasPrefix, Matches, FieldOf
    <2> QED BY <1>3 DEF ScanState, TypeOK
  <1>7. ReplyState' /\ LockState'
    BY <1>1, <1>2, <1>3 DEF ReplyState, LockState, TypeOK
  <1> QED BY <1>4, <1>5, <1>6, <1>7

LEMMA SameScans ==
    ASSUME ScanState, UNCHANGED <<pc, request, source, records, readers, table>>
    PROVE  ScanState'
  <1> SUFFICES ASSUME NEW d \in Callers
               PROVE  /\ pc'[d] # "scanning" => source'[d] = {} /\ records'[d] = {}
                      /\ d \in readers' =>
                             records'[d] \union Selection(request'[d], source'[d])
                                 = Selection(request'[d], table')
    BY DEF ScanState, Selection, Selects, HasPrefix, Matches, FieldOf
  <1> QED BY DEF ScanState

LEMMA WriterKeeps == ASSUME NEW w \in Workers, IInv, WriterStep(w) PROVE IInv'
  <1> USE DEF IInv, callVars
  <1>1. CASE Execute(w) /\ UNCHANGED outcome
    <2>1. backend = "postgres" /\ readers = {} /\ table' \in Tables
      BY <1>1, TablesKept DEF Execute, TypeOK
    <2>2. UNCHANGED <<pc, request, source, records, reply, backend, readers, writer, outcome>>
      BY <1>1 DEF Execute
    <2>3. TypeOK' /\ ScanOfOneMap' /\ ReplyState' /\ LockState'
      BY <2>1, <2>2 DEF TypeOK, ScanOfOneMap, ReplyState, LockState
    <2>4. ScanState'
      BY <2>1, <2>2 DEF ScanState
    <2> QED BY <2>3, <2>4
  <1>2. CASE (BeginWrite(w) \/ Lock(w)) /\ UNCHANGED outcome
    <2>1. /\ UNCHANGED <<pc, request, source, records, reply, backend, table, readers, outcome>>
          /\ writer' \in [Workers -> {"idle", "waiting", "locked"}]
      BY <1>2 DEF BeginWrite, Lock, TypeOK
    <2>2. ScanOfOneMap'
      BY <1>2, <2>1 DEF BeginWrite, Lock, ScanOfOneMap, TypeOK
    <2>3. TypeOK' /\ ReplyState'
      BY <2>1 DEF TypeOK, ReplyState
    <2>4. ScanState'
      BY <2>1, SameScans
    <2>5. LockState'
      BY <1>2 DEF BeginWrite, Lock, LockState, TypeOK
    <2> QED BY <2>2, <2>3, <2>4, <2>5
  <1>3. CASE WriteAndUnlock(w) /\ UNCHANGED outcome
    <2> DEFINE S == {c \in Callers : pc[c] = "calling"}
               T == [c \in Callers |-> table']
    <2>1. /\ writer[w] = "locked" /\ table' \in Written(table)
          /\ writer' = [writer EXCEPT ![w] = "idle"]
          /\ readers' = readers \union S
          /\ pc' = [c \in Callers |-> IF c \in S THEN "scanning" ELSE pc[c]]
          /\ UNCHANGED <<request, records, reply, outcome, backend>>
      BY <1>3 DEF WriteAndUnlock
    <2>2. source' = [c \in Callers |-> IF c \in S THEN T[c] ELSE source[c]]
      BY <1>3 DEF WriteAndUnlock
    <2>3. readers = {} /\ \A v \in Workers : writer[v] = "locked" => v = w
      BY <2>1 DEF ScanOfOneMap
    <2>4. /\ writer' \in [Workers -> {"idle", "waiting", "locked"}]
          /\ \A v \in Workers : writer'[v] # "locked"
          /\ \A v \in Workers : writer'[v] # "idle" => backend = "memory"
      BY <2>1, <2>3 DEF TypeOK, LockState
    <2>5. table' \in Tables /\ \A c \in S : T[c] \in SUBSET Rows /\ T[c] = table'
      BY <2>1, TablesKept DEF TypeOK, Tables
    <2>6. backend = "memory"
      BY <2>1 DEF LockState
    <2>7. S \in SUBSET Callers /\ \A c \in S : pc[c] = "calling"
      OBVIOUS
    <2> HIDE DEF S, T
    <2> QED BY <2>1, <2>2, <2>3, <2>4, <2>5, <2>6, <2>7, ScanStarts
  <1> QED BY <1>1, <1>2, <1>3 DEF WriterStep, LockStep

LEMMA NextIInv == IInv /\ [Next]_vars => IInv'
  <1> SUFFICES ASSUME IInv, [Next]_vars PROVE IInv'
    OBVIOUS
  <1>1. CASE UNCHANGED vars
    <2> USE <1>1 DEF IInv, vars, callVars, storeVars
    <2>1. TypeOK' /\ ScanOfOneMap' /\ ReplyState' /\ LockState'
      BY DEF TypeOK, ScanOfOneMap, ReplyState, LockState
    <2>2. ScanState'
      BY SameScans
    <2> QED BY <2>1, <2>2
  <1>2. ASSUME NEW c \in Callers, Ask(c) \/ CallStep(c) \/ Done(c) PROVE IInv'
    BY <1>2, MessageStep, QueryStep, RLockStep, ReadStep, ReturnStep
       DEF CallStep, FetcherStep
  <1>3. ASSUME NEW w \in Workers, WriterStep(w) PROVE IInv'
    BY <1>3, WriterKeeps
  <1> QED BY <1>1, <1>2, <1>3 DEF Next

LEMMA Invariance == Spec => []IInv
  BY InitIInv, NextIInv, PTL DEF Spec

(***************************************************************************)
(* Theorems about the datastores.                                          *)
(***************************************************************************)

(* Every variable keeps its type, and the read lock is held exactly by     *)
(* those that loop over the map (memory/syncer.go:147-148, 226-227).       *)
THEOREM TypeCorrect == Spec => []TypeOK
  BY Invariance, PTL DEF IInv

(* Readers and writers exclude each other (memory/syncer.go:41-42, 62-63). *)
THEOREM MapSafe == Spec => []ScanOfOneMap
  BY Invariance, PTL DEF IInv

(***************************************************************************)
(* The refinement.                                                         *)
(***************************************************************************)

Asked(q)        == [state |-> "asked", request |-> q]
Seen(q, S)      == [state |-> "seen", request |-> q, rows |-> S]
Told(q, answer) == [state |-> "told", request |-> q, answer |-> answer]

(* What a call amounts to, by the state of its caller. *)
CallStates ==
    \A c \in Callers :
        /\ pc[c] = "idle" => CallOf(c) = [state |-> "idle"]
        /\ pc[c] \in {"sent", "calling"} => CallOf(c) = Asked(request[c])
        /\ pc[c] = "scanning" =>
               CallOf(c) = IF backend = "memory" THEN Asked(request[c])
                           ELSE Seen(request[c], source[c] \union records[c])
        /\ pc[c] = "returned" =>
               CallOf(c) = IF reply[c].status = "ok" THEN Seen(request[c], reply[c].rows)
                           ELSE IF reply[c].status = "ErrNotFound" THEN Seen(request[c], {})
                           ELSE Told(request[c], Says("error", {}))
        /\ pc[c] = "told" => CallOf(c) = Told(request[c], outcome[c])

LEMMA CallStatesHold == CallStates /\ CallStates'
  BY DEF CallStates, CallOf, Asked, Seen, Told

(* A step of one caller changes no other call. *)
LEMMA OneCall ==
    ASSUME NEW c \in Callers,
           \A d \in Callers \ {c} :
               /\ pc'[d] = pc[d] /\ request'[d] = request[d] /\ source'[d] = source[d]
               /\ records'[d] = records[d] /\ reply'[d] = reply[d]
               /\ outcome'[d] = outcome[d],
           backend' = backend
    PROVE  /\ Calls[c] = CallOf(c)
           /\ Calls' = [Calls EXCEPT ![c] = CallOf(c)']
  <1>1. \A d \in Callers \ {c} : CallOf(d)' = CallOf(d)
    BY DEF CallOf
  <1> QED BY <1>1 DEF Calls

(* The steps of the service. *)
LEMMA ServiceAsks ==
    ASSUME NEW c \in Callers, NEW q \in RequestsOf[c], UNCHANGED table,
           Calls[c] = [state |-> "idle"], Calls' = [Calls EXCEPT ![c] = Asked(q)]
    PROVE  Service!Next
  BY DEF Asked, Service!Next, Service!Ask, Service!Idle

LEMMA ServiceLooks ==
    ASSUME NEW c \in Callers, NEW q, NEW S \in Service!Views(q, table), UNCHANGED table,
           Calls[c] = Asked(q), Calls' = [Calls EXCEPT ![c] = Seen(q, S)]
    PROVE  Service!Next
  <1>1. Calls[c].state = "asked" /\ Calls[c].request = q
    BY DEF Asked
  <1>2. Service!Look(c)
    BY <1>1 DEF Service!Look, Seen
  <1> QED BY <1>2 DEF Service!Next

LEMMA ServiceTells ==
    ASSUME NEW c \in Callers, NEW q, NEW S, NEW answer, UNCHANGED table,
           \/ Calls[c] = Asked(q) /\ answer = Says("error", {})
           \/ Calls[c] = Asked(q) /\ ~q.given /\ answer = Service!Answer(q, {})
           \/ Calls[c] = Seen(q, S) /\ answer \in {Says("error", {}), Service!Answer(q, S)},
           Calls' = [Calls EXCEPT ![c] = Told(q, answer)]
    PROVE  Service!Next
  <1>1. Calls[c].state \in {"asked", "seen"} /\ Calls[c].request = q
    BY DEF Asked, Seen
  <1>2. Service!Failure = Says("error", {})
    BY DEF Service!Failure, Service!Says, Says
  <1>3. answer \in {Service!Failure} \union
             (IF Calls[c].state = "seen" THEN {Service!Answer(Calls[c].request, Calls[c].rows)}
              ELSE IF Calls[c].request.given THEN {}
                   ELSE {Service!Answer(Calls[c].request, {})})
    BY <1>2 DEF Asked, Seen
  <1>4. Service!Tell(c)
    BY <1>1, <1>3 DEF Service!Tell, Told
  <1> QED BY <1>4 DEF Service!Next

LEMMA ServiceIsDone ==
    ASSUME NEW c \in Callers, NEW q, NEW answer, UNCHANGED table,
           Calls[c] = Told(q, answer), Calls' = [Calls EXCEPT ![c] = [state |-> "idle"]]
    PROVE  Service!Next
  <1>1. Calls[c].state = "told"
    BY DEF Told
  <1>2. Service!Done(c)
    BY <1>1 DEF Service!Done, Service!Idle
  <1> QED BY <1>2 DEF Service!Next

(* What is delivered is the service's answer. *)
LEMMA DeliveredIsAnswer ==
    ASSUME NEW c \in Callers, NEW q \in RequestsOf[c], NEW S, ~Refused(q),
           q.op = "GetResource" => S # {} /\ ~Several(S)
    PROVE  Service!Answer(q, S) = IF IsCommand(q) THEN Shown(q, S) ELSE Says("OK", S)
  <1> USE DEF Service!Says, Says, Service!Failure
  <1>1. CASE q.op \in {"get", "describe"}
    BY <1>1 DEF Service!Answer, Shown, IsCommand, FormatOf
  <1>2. CASE q.op \in {"GetResource", "FetchResourceGraph"}
    <2>1. q.given /\ ~IsCommand(q)
      BY <1>2, Zenon DEF IsCommand, Refused
    <2>2. CASE q.op = "GetResource"
      <3>1. Service!Answer(q, S) =
               IF S = {} THEN Says("NotFound", {})
               ELSE IF Several(S) THEN Says("error", {}) ELSE Says("OK", S)
        BY <2>1, <2>2, SameRecords, Zenon DEF Service!Answer
      <3> QED BY <2>1, <2>2, <3>1
    <2>3. CASE q.op = "FetchResourceGraph"
      BY <2>1, <2>3 DEF Service!Answer
    <2> QED BY <1>2, <2>2, <2>3
  <1>3. CASE q.op \in {"ListResources", "ListResourceKeys"}
    BY <1>3 DEF Service!Answer, IsCommand
  <1> QED BY <1>1, <1>2, <1>3, RequestsAssumption DEF Ops

(* A caller's step is a step of its call, or none.                         *)
LEMMA MessageRefines ==
    ASSUME NEW c \in Callers, IInv,
           Ask(c) \/ Refuse(c) \/ PassOn(c) \/ ConnectionFails(c) \/ Deliver(c) \/ Done(c)
    PROVE  Service!Next \/ UNCHANGED <<table, Calls>>
  <1> USE DEF storeVars
  <1>1. TypeOK /\ ReplyState
    BY DEF IInv
  <1>2. UNCHANGED <<table, backend, source, records>>
    BY DEF Ask, Refuse, PassOn, ConnectionFails, Deliver, Done, Tell
  <1>3. /\ Calls[c] = CallOf(c)
        /\ Calls' = [Calls EXCEPT ![c] = CallOf(c)']
    <2>1. \A d \in Callers \ {c} :
               /\ pc'[d] = pc[d] /\ request'[d] = request[d]
               /\ reply'[d] = reply[d] /\ outcome'[d] = outcome[d]
      BY <1>1 DEF TypeOK, Ask, Refuse, PassOn, ConnectionFails, Deliver, Done, Tell
    <2> QED BY <1>2, <2>1, OneCall
  <1>4. CASE Ask(c)
    <2>1. PICK q \in RequestsOf[c] :
              request'[c] = q /\ pc'[c] \in {"sent", "calling"} /\ pc[c] = "idle"
      BY <1>1, <1>4 DEF Ask, TypeOK
    <2>2. CallOf(c) = [state |-> "idle"] /\ CallOf(c)' = Asked(q)
      BY <2>1, CallStatesHold DEF CallStates
    <2> QED BY <1>2, <1>3, <2>2, ServiceAsks
  <1>5. CASE PassOn(c)
    <2>1. pc[c] = "sent" /\ pc'[c] = "calling" /\ request'[c] = request[c]
      BY <1>1, <1>5 DEF PassOn, TypeOK
    <2>2. CallOf(c)' = CallOf(c)
      BY <2>1, CallStatesHold DEF CallStates
    <2> QED BY <1>2, <1>3, <2>2 DEF Calls
  <1>6. CASE Done(c)
    <2>1. pc[c] = "told" /\ pc'[c] = "idle"
      BY <1>1, <1>6 DEF Done, TypeOK
    <2>2. CallOf(c) = Told(request[c], outcome[c]) /\ CallOf(c)' = [state |-> "idle"]
      BY <2>1, CallStatesHold DEF CallStates
    <2> QED BY <1>2, <1>3, <2>2, ServiceIsDone
  <1>7. ASSUME NEW answer, Tell(c, answer)
        PROVE  CallOf(c)' = Told(request[c], answer)
    <2>1. pc'[c] = "told" /\ outcome'[c] = answer /\ request'[c] = request[c]
      BY <1>1, <1>7 DEF Tell, TypeOK
    <2> QED BY <2>1, CallStatesHold DEF CallStates
  <1>8. CASE Refuse(c)
    <2>1. CallOf(c) = Asked(request[c]) /\ CallOf(c)' = Told(request[c], Says("InvalidArgument", {}))
      BY <1>7, <1>8, CallStatesHold DEF Refuse, CallStates
    <2>2. /\ ~request[c].given
          /\ Service!Answer(request[c], {}) = Says("InvalidArgument", {})
      <3>1. request[c].op \in {"GetResource", "FetchResourceGraph"} /\ ~request[c].given
        BY <1>8, Zenon DEF Refuse, Refused
      <3>2. CASE request[c].op = "GetResource"
        BY <3>1, <3>2, Zenon DEF Service!Answer, Service!Says, Says
      <3>3. CASE request[c].op = "FetchResourceGraph"
        BY <3>1, <3>3 DEF Service!Answer, Service!Says, Says
      <3> QED BY <3>1, <3>2, <3>3
    <2> QED BY <1>2, <1>3, <2>1, <2>2, ServiceTells
  <1>9. CASE ConnectionFails(c) \/ Deliver(c)
    <2>1. CASE CallOf(c) = Told(request[c], Says("error", {}))
      <3>1. CallOf(c)' = Told(request[c], Says("error", {}))
        <4>1. pc[c] \in {"sent", "returned"}
          BY <1>9 DEF ConnectionFails, Deliver
        <4>2. pc[c] = "returned" /\ reply[c].status \notin {"ok", "ErrNotFound"}
          BY <2>1, <4>1, CallStatesHold DEF CallStates, Asked, Seen, Told
        <4>3. StatusOf(reply[c]) = Says("error", {})
          BY <4>2 DEF StatusOf
        <4>4. Tell(c, Says("error", {}))
          BY <1>9, <4>3 DEF ConnectionFails, Deliver, Says
        <4> QED BY <1>7, <4>4
      <3> QED BY <1>2, <1>3, <2>1, <3>1 DEF Calls
    <2>2. CASE ConnectionFails(c) /\ CallOf(c) # Told(request[c], Says("error", {}))
      <3>1. PICK S : CallOf(c) \in {Asked(request[c]), Seen(request[c], S)}
        BY <2>2, CallStatesHold DEF ConnectionFails, CallStates
      <3>2. CallOf(c)' = Told(request[c], Says("error", {}))
        BY <1>7, <2>2 DEF ConnectionFails
      <3> QED BY <1>2, <1>3, <3>1, <3>2, ServiceTells
    <2>3. CASE Deliver(c) /\ CallOf(c) # Told(request[c], Says("error", {}))
      <3> DEFINE q == request[c]
      <3>1. pc[c] = "returned" /\ q \in RequestsOf[c] /\ ~Refused(q)
        BY <1>1, <2>3 DEF Deliver, TypeOK, ReplyState
      <3>2. CASE reply[c].status = "ok"
        <4> DEFINE S == reply[c].rows
        <4>1. q.op = "GetResource" => S # {} /\ ~Several(S)
          BY <1>1, <3>1, <3>2 DEF ReplyState
        <4>2. CallOf(c) = Seen(q, S)
          BY <3>1, <3>2, CallStatesHold DEF CallStates
        <4>3. StatusOf(reply[c]) = Says("OK", S)
          BY <3>2 DEF StatusOf
        <4>4. Tell(c, IF IsCommand(q) THEN Shown(q, S) ELSE Says("OK", S))
          BY <2>3, <4>3 DEF Deliver, Says
        <4>5. Tell(c, Service!Answer(q, S))
          BY <3>1, <4>1, <4>4, DeliveredIsAnswer
        <4>6. CallOf(c)' = Told(q, Service!Answer(q, S))
          BY <1>7, <4>5
        <4> QED BY <1>2, <1>3, <4>2, <4>6, ServiceTells
      <3>3. CASE reply[c].status = "ErrNotFound"
        <4>1. q.op = "GetResource"
          BY <1>1, <3>1, <3>3 DEF ReplyState
        <4>2. CallOf(c) = Seen(q, {})
          BY <3>1, <3>3, CallStatesHold DEF CallStates
        <4>3. StatusOf(reply[c]) = Says("NotFound", {})
          BY <3>3 DEF StatusOf
        <4>4. Tell(c, Says("NotFound", {}))
          BY <2>3, <4>3, <4>1 DEF Deliver, Says, IsCommand
        <4>5. q.given
          BY <3>1, <4>1, Zenon DEF Refused
        <4>6. Service!Answer(q, {}) = Says("NotFound", {})
          BY <4>1, <4>5, Zenon DEF Service!Answer, Service!Says, Says
        <4>7. CallOf(c)' = Told(q, Service!Answer(q, {}))
          BY <1>7, <4>4, <4>6
        <4> QED BY <1>2, <1>3, <4>2, <4>7, ServiceTells
      <3> QED BY <2>3, <3>1, <3>2, <3>3, CallStatesHold DEF CallStates
    <2> QED BY <1>9, <2>1, <2>2, <2>3
  <1> QED BY <1>4, <1>5, <1>6, <1>8, <1>9

LEMMA ScanRefines ==
    ASSUME NEW c \in Callers, IInv, FetcherStep(c), UNCHANGED outcome
    PROVE  Service!Next \/ UNCHANGED <<table, Calls>>
  <1> DEFINE q == request[c]
  <1>1. TypeOK /\ ScanState /\ ReplyState
    BY DEF IInv
  <1>2. UNCHANGED <<table, backend, request>>
    BY DEF FetcherStep, Query, RLock, ReadNext, ScanEnds, QueryFails, Return, storeVars
  <1>3. /\ Calls[c] = CallOf(c)
        /\ Calls' = [Calls EXCEPT ![c] = CallOf(c)']
    <2>1. \A d \in Callers \ {c} :
               /\ pc'[d] = pc[d] /\ source'[d] = source[d] /\ records'[d] = records[d]
               /\ reply'[d] = reply[d]
      BY <1>1 DEF TypeOK, FetcherStep, Query, RLock, ReadNext, ScanEnds, QueryFails, Return
    <2> QED BY <1>2, <2>1, OneCall
  <1>4. pc[c] \in {"calling", "scanning"} /\ q \in RequestsOf[c] /\ ~Refused(q)
    <2>1. pc[c] \in {"calling", "scanning"}
      BY DEF FetcherStep, Query, RLock, ReadNext, ScanEnds, QueryFails, MayFail
    <2> QED BY <1>1, <2>1 DEF TypeOK, ReplyState
  <1>5. backend = "postgres" => q.op # "FetchResourceGraph"
    BY <1>1, <1>4 DEF ReplyState
  <1>6. CallOf(c)' = CallOf(c) => UNCHANGED Calls
    BY <1>3 DEF Calls
  <1>7. CASE Query(c)
    <2>1. /\ backend = "postgres" /\ pc[c] = "calling" /\ pc'[c] = "scanning"
          /\ source'[c] = Selection(q, table) /\ records'[c] = {}
      BY <1>1, <1>7 DEF Query, TypeOK, ScanState, Selection
    <2>2. CallOf(c) = Asked(q) /\ CallOf(c)' = Seen(q, Selection(q, table))
      BY <1>2, <2>1, CallStatesHold DEF CallStates
    <2>3. Selection(q, table) \in Service!Views(q, table)
      BY <1>4, <1>5, <2>1, CollectedIsViews DEF Collected
    <2> QED BY <1>2, <1>3, <2>2, <2>3, ServiceLooks
  <1>8. CASE RLock(c)
    <2>1. backend = "memory" /\ pc[c] = "calling" /\ pc'[c] = "scanning"
      BY <1>1, <1>8 DEF RLock, TypeOK
    <2>2. CallOf(c)' = CallOf(c)
      BY <1>2, <2>1, CallStatesHold DEF CallStates
    <2> QED BY <1>2, <1>6, <2>2
  <1>9. CASE ReadNext(c)
    <2>1. pc[c] = "scanning" /\ pc'[c] = "scanning"
      BY <1>9 DEF ReadNext
    <2>2. backend # "memory" => source'[c] \union records'[c] = source[c] \union records[c]
      BY <1>1, <1>9 DEF ReadNext, TypeOK
    <2>3. CallOf(c)' = CallOf(c)
      BY <1>2, <2>1, <2>2, CallStatesHold DEF CallStates
    <2> QED BY <1>2, <1>6, <2>3
  <1>10. CASE ScanEnds(c)
    <2>1. pc[c] = "scanning" /\ source[c] = {}
      BY <1>10 DEF ScanEnds
    <2>2. PICK S \in Collected(q, records[c]) : Return(c, ReplyOf(q, S))
      BY <1>10 DEF ScanEnds
    <2>3. S \in SUBSET Rows
      BY <1>1, CollectedRows DEF TypeOK
    <2>4. pc'[c] = "returned" /\ reply'[c] = ReplyOf(q, S)
      BY <1>1, <2>2 DEF Return, TypeOK
    <2>5. CallOf(c)' \in {Seen(q, S), Told(q, Says("error", {}))}
      <3>1. CallOf(c)' = IF ReplyOf(q, S).status = "ok" THEN Seen(q, ReplyOf(q, S).rows)
                         ELSE IF ReplyOf(q, S).status = "ErrNotFound" THEN Seen(q, {})
                         ELSE Told(q, Says("error", {}))
        BY <1>2, <2>4, CallStatesHold DEF CallStates
      <3>2. /\ ReplyOf(q, S).status = "ok" => ReplyOf(q, S).rows = S
            /\ ReplyOf(q, S).status = "ErrNotFound" => S = {}
        BY <2>3, RepliesOf
      <3> QED BY <3>1, <3>2
    <2>6. CASE backend = "postgres"
      <3>1. CallOf(c) = Seen(q, S)
        BY <1>5, <2>1, <2>6, CallStatesHold DEF CallStates, Collected
      <3>2. CASE CallOf(c)' = Seen(q, S)
        BY <1>2, <1>6, <3>1, <3>2
      <3>3. CASE CallOf(c)' = Told(q, Says("error", {}))
        BY <1>2, <1>3, <3>1, <3>3, ServiceTells
      <3> QED BY <2>5, <3>2, <3>3
    <2>7. CASE backend = "memory"
      <3>1. CallOf(c) = Asked(q)
        BY <2>1, <2>7, CallStatesHold DEF CallStates
      <3>2. records[c] = Selection(q, table)
        BY <1>1, <2>1, <2>7 DEF ScanState, TypeOK, Selection
      <3>3. S \in Service!Views(q, table)
        BY <1>4, <3>2, CollectedIsViews
      <3>4. CASE CallOf(c)' = Seen(q, S)
        BY <1>2, <1>3, <3>1, <3>3, <3>4, ServiceLooks
      <3>5. CASE CallOf(c)' = Told(q, Says("error", {}))
        BY <1>2, <1>3, <3>1, <3>5, ServiceTells
      <3> QED BY <2>5, <3>4, <3>5
    <2> QED BY <1>1, <2>6, <2>7 DEF TypeOK
  <1>11. CASE QueryFails(c)
    <2>1. pc'[c] = "returned" /\ reply'[c].status = "error"
      BY <1>1, <1>11 DEF QueryFails, Return, Error, TypeOK
    <2>2. CallOf(c)' = Told(q, Says("error", {}))
      BY <1>2, <2>1, CallStatesHold DEF CallStates
    <2>3. PICK S : CallOf(c) \in {Asked(q), Seen(q, S)}
      BY <1>4, CallStatesHold DEF CallStates
    <2> QED BY <1>2, <1>3, <2>2, <2>3, ServiceTells
  <1> QED BY <1>7, <1>8, <1>9, <1>10, <1>11 DEF FetcherStep

(* A worker's step is a write of the service, or none.                     *)
LEMMA WriterRefines ==
    ASSUME NEW w \in Workers, IInv, WriterStep(w)
    PROVE  Service!Next \/ UNCHANGED <<table, Calls>>
  <1>1. TypeOK /\ LockState
    BY DEF IInv
  <1>2. \A c \in Callers : CallOf(c)' = CallOf(c)
    <2>1. CASE UNCHANGED <<callVars, backend, outcome>>
      BY <2>1 DEF CallOf, callVars
    <2>2. CASE WriteAndUnlock(w)
      <3> TAKE c \in Callers
      <3>1. backend = "memory" /\ UNCHANGED <<backend, request, records, reply, outcome>>
        BY <1>1, <2>2 DEF WriteAndUnlock, WriterStep, LockState
      <3>2. CASE pc[c] = "calling"
        <4>1. pc'[c] = "scanning"
          BY <2>2, <3>2 DEF WriteAndUnlock
        <4> QED BY <3>1, <3>2, <4>1, CallStatesHold DEF CallStates
      <3>3. CASE pc[c] # "calling"
        <4>1. pc'[c] = pc[c] /\ source'[c] = source[c]
          BY <2>2, <3>3 DEF WriteAndUnlock
        <4> QED BY <3>1, <4>1 DEF CallOf
      <3> QED BY <3>2, <3>3
    <2> QED BY <2>1, <2>2 DEF WriterStep, Execute, BeginWrite, LockStep, Lock
  <1>3. UNCHANGED Calls
    BY <1>2 DEF Calls
  <1>4. CASE table' \in Written(table)
    <2>1. PICK r \in Rows : table' \in {Upserted(table, r), Deleted(table, r)}
      BY <1>4 DEF Written
    <2>2. Service!Write
      BY <1>3, <2>1, SameRecords DEF Service!Write
    <2> QED BY <2>2 DEF Service!Next
  <1>5. CASE table' \notin Written(table)
    <2>1. UNCHANGED table
      BY <1>5 DEF WriterStep, Execute, BeginWrite, LockStep, Lock, WriteAndUnlock
    <2> QED BY <1>3, <2>1
  <1> QED BY <1>4, <1>5

LEMMA NextRefines == IInv /\ [Next]_vars => [Service!Next]_<<table, Calls>>
  <1> SUFFICES ASSUME IInv, [Next]_vars PROVE Service!Next \/ UNCHANGED <<table, Calls>>
    OBVIOUS
  <1>1. CASE UNCHANGED vars
    <2>1. \A c \in Callers : CallOf(c)' = CallOf(c)
      BY <1>1 DEF vars, callVars, storeVars, CallOf
    <2> QED BY <1>1, <2>1 DEF vars, storeVars, Calls
  <1>2. ASSUME NEW c \in Callers, Ask(c) \/ CallStep(c) \/ Done(c)
        PROVE  Service!Next \/ UNCHANGED <<table, Calls>>
    BY <1>2, MessageRefines, ScanRefines DEF CallStep
  <1>3. ASSUME NEW w \in Workers, WriterStep(w)
        PROVE  Service!Next \/ UNCHANGED <<table, Calls>>
    BY <1>3, WriterRefines
  <1> QED BY <1>1, <1>2, <1>3 DEF Next

LEMMA InitRefines == Init => Service!Init
  <1> SUFFICES ASSUME Init PROVE Service!Init
    OBVIOUS
  <1>1. table \in Service!Tables
    BY SameRecords DEF Init, BackendsInit
  <1>2. \A c \in Callers : CallOf(c) = [state |-> "idle"]
    BY CallStatesHold DEF Init, BackendsInit, CallStates
  <1> QED BY <1>1, <1>2 DEF Service!Init, Service!Idle, Calls

(* Over either datastore, the server and the commands answer every request *)
(* for the whole table at one moment between question and answer, or with  *)
(* an error (postgres/fetcher.go:15-55, memory/syncer.go:143-255,          *)
(* server.go:57-182, get.go:30-90).                                        *)
THEOREM ImplementsQueryService == Spec => ImplementsService
  BY Invariance, InitRefines, NextRefines, PTL DEF Spec, ImplementsService, Service!Spec

=============================================================================
