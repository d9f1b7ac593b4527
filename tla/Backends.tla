------------------------------ MODULE Backends ------------------------------
(***************************************************************************)
(* The two implementations of datastore.Fetcher and datastore.Syncer, one  *)
(* query at a time per caller, against workers that write:                 *)
(*   "postgres"  one statement, whose rows the caller then reads one by    *)
(*               one while the table may change (pkg/datastore/postgres);  *)
(*   "memory"    a loop over the map under a sync.RWMutex, whose writers   *)
(*               wait for the readers (pkg/datastore/memory).              *)
(* A key of the map is the primary key joined by slashes, which occur in   *)
(* none of its parts.                                                      *)
(***************************************************************************)
EXTENDS ResourceRecords

CONSTANTS
    Callers,
    Workers        \* the goroutines that write

VARIABLES
    backend,
    table,         \* the rows: the resources table, or the map
    pc,            \* of a caller: "calling" a query, "scanning", "returned",
                   \* or a state of its own
    request,       \* the request it serves
    source,        \* the rows or map entries it has still to read
    records,       \* the records it has read
    reply,         \* what the query returned
    readers,       \* the callers that hold the read lock
    writer         \* of a worker: "idle", "waiting" for the lock, "locked"

callVars  == <<pc, request, source, records, reply>>
storeVars == <<backend, table, readers, writer>>

(* The tables that an upsert or a deletion may leave. *)
Written(T) == {Upserted(T, r) : r \in Rows} \union {Deleted(T, r) : r \in Rows}

NoRequest == [op |-> "none"]
NoReply   == [status |-> "none"]
Error     == [status |-> "error"]

BackendsInit ==
    /\ backend \in {"postgres", "memory"}
    /\ table \in Tables
    /\ pc = [c \in Callers |-> "idle"]
    /\ request = [c \in Callers |-> NoRequest]
    /\ source = [c \in Callers |-> {}] /\ records = [c \in Callers |-> {}]
    /\ reply = [c \in Callers |-> NoReply]
    /\ readers = {}
    /\ writer = [w \in Workers |-> "idle"]

(***************************************************************************)
(* What is selected: by the WHERE clause, or by the loop over the map.     *)
(***************************************************************************)

(* ListResourceKeys: the key begins with cluster, group, version and, if   *)
(* given, kind.                                                            *)
HasPrefix(r, info) ==
    /\ <<r.cluster, r.group, r.version>> =
           <<FieldOf(info, "cluster"), FieldOf(info, "group"), FieldOf(info, "version")>>
    /\ "kind" \in DOMAIN info => r.kind = info.kind

Selects(q, r) ==
    IF q.op = "ListResourceKeys" THEN HasPrefix(r, q.filter) ELSE Matches(q.filter, r)

(***************************************************************************)
(* Queries.                                                                *)
(***************************************************************************)

(* QueryContext: the statement sees the table as it is now. *)
Query(c) ==
    /\ backend = "postgres" /\ pc[c] = "calling"
    /\ source' = [source EXCEPT ![c] = {r \in table : Selects(request[c], r)}]
    /\ pc' = [pc EXCEPT ![c] = "scanning"]
    /\ UNCHANGED <<request, records, reply, storeVars>>

(* Mutant: the lock does not keep readers out. *)
AnyTime == TRUE

(* sync.RWMutex: a writer that waits keeps new readers out. *)
ReadersMayEnter == \A w \in Workers : writer[w] = "idle"

RLock(c) ==
    /\ backend = "memory" /\ pc[c] = "calling"
    /\ ReadersMayEnter
    /\ readers' = readers \union {c}
    /\ source' = [source EXCEPT ![c] = table]
    /\ pc' = [pc EXCEPT ![c] = "scanning"]
    /\ UNCHANGED <<request, records, reply, backend, table, writer>>

(* The next row of the cursor; or the next entry of the map, as it is now, *)
(* if it is among the selected.                                            *)
ReadNext(c) ==
    /\ pc[c] = "scanning"
    /\ \E r \in source[c] :
          /\ source' = [source EXCEPT ![c] = @ \ {r}]
          /\ records' = [records EXCEPT ![c] = @ \union
                IF backend = "postgres" THEN {r}
                ELSE {s \in table : PrimaryKey(s) = PrimaryKey(r) /\ Selects(request[c], s)}]
    /\ UNCHANGED <<pc, request, reply, storeVars>>

(* The memory datastore's graph, which follows no owner references,        *)
(* collects the records; every other query returns them as they are.       *)
Collected(q, S) == IF q.op = "FetchResourceGraph" THEN Unique(S) ELSE {S}

(* GetResource wants one row, the others want all. *)
ReplyOf(q, S) ==
    IF q.op # "GetResource" THEN [status |-> "ok", rows |-> S]
    ELSE IF S = {} THEN [status |-> "ErrNotFound"]
    ELSE IF Several(S) THEN [status |-> "multiple"]
    ELSE [status |-> "ok", rows |-> S]

(* The query returns, and with it goes the read lock. *)
Return(c, result) ==
    /\ reply' = [reply EXCEPT ![c] = result]
    /\ pc' = [pc EXCEPT ![c] = "returned"]
    /\ source' = [source EXCEPT ![c] = {}]
    /\ records' = [records EXCEPT ![c] = {}]
    /\ readers' = readers \ {c}
    /\ UNCHANGED <<request, backend, table, writer>>

ScanEnds(c) ==
    /\ pc[c] = "scanning" /\ source[c] = {}
    /\ \E S \in Collected(request[c], records[c]) : Return(c, ReplyOf(request[c], S))

(* Mutant: rows.Err is not asked for why the rows ended. *)
QueryEndsEarly(c) ==
    /\ backend = "postgres" /\ pc[c] \in {"calling", "scanning"}
    /\ Return(c, ReplyOf(request[c], records[c]))

(* The statement, the connection or the conversion of a row failed; the    *)
(* keys of the map need no conversion.                                     *)
MayFail(c) ==
    \/ backend = "postgres" /\ pc[c] \in {"calling", "scanning"}
    \/ backend = "memory" /\ pc[c] = "scanning" /\ request[c].op # "ListResourceKeys"

(* Mutant: the error path does not release the read lock. *)
QueryFailsLocked(c) ==
    /\ MayFail(c)
    /\ reply' = [reply EXCEPT ![c] = Error]
    /\ pc' = [pc EXCEPT ![c] = "returned"]
    /\ source' = [source EXCEPT ![c] = {}] /\ records' = [records EXCEPT ![c] = {}]
    /\ UNCHANGED <<request, storeVars>>

QueryFails(c) == MayFail(c) /\ Return(c, Error)

(***************************************************************************)
(* Writes.                                                                 *)
(***************************************************************************)

(* One statement of UpsertResource or DeleteResource. *)
Execute(w) ==
    /\ backend = "postgres"
    /\ table' \in Written(table)
    /\ UNCHANGED <<callVars, backend, readers, writer>>

BeginWrite(w) ==
    /\ backend = "memory" /\ writer[w] = "idle"
    /\ writer' = [writer EXCEPT ![w] = "waiting"]
    /\ UNCHANGED <<callVars, backend, table, readers>>

Lock(w) ==
    /\ writer[w] = "waiting"
    /\ readers = {} /\ \A v \in Workers : writer[v] # "locked"
    /\ writer' = [writer EXCEPT ![w] = "locked"]
    /\ UNCHANGED <<callVars, backend, table, readers>>

(* The map is written and the lock released, to the readers that waited.   *)
WriteAndUnlock(w) ==
    LET waiting == {c \in Callers : pc[c] = "calling"} IN
    /\ writer[w] = "locked"
    /\ table' \in Written(table)
    /\ writer' = [writer EXCEPT ![w] = "idle"]
    /\ readers' = readers \union waiting
    /\ source' = [c \in Callers |-> IF c \in waiting THEN table' ELSE source[c]]
    /\ pc' = [c \in Callers |-> IF c \in waiting THEN "scanning" ELSE pc[c]]
    /\ UNCHANGED <<backend, request, records, reply>>

FetcherStep(c) == Query(c) \/ RLock(c) \/ ReadNext(c) \/ ScanEnds(c) \/ QueryFails(c)

LockStep(w) == Lock(w) \/ WriteAndUnlock(w)
=============================================================================
