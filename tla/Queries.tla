------------------------------ MODULE Queries -------------------------------
(***************************************************************************)
(* The state service over a datastore: the handlers of                     *)
(* pkg/server/server.go, the ksactl commands get and describe that call    *)
(* ListResources, and the ListResourceKeys call with which a syncer        *)
(* starts.  FetchResourceGraph is here with the memory datastore only,     *)
(* where the graph is the roots; GraphWalk is the one of Postgres.  A      *)
(* request is a record of                                                  *)
(*   op      "GetResource", "ListResources", "FetchResourceGraph": a call  *)
(*           of a gRPC client; "get", "describe": a command;               *)
(*           "ListResourceKeys"                                            *)
(*   given   whether the message has an info                               *)
(*   filter  the non-empty fields of the info                              *)
(*   format  of get: "yaml", "json", "table", another, or "" for none.     *)
(***************************************************************************)
EXTENDS Backends

CONSTANTS
    RequestsOf,    \* of a caller: the requests it may make
    Plural         \* of a kind: the name of its resource

Ops == {"GetResource", "ListResources", "FetchResourceGraph", "get", "describe",
        "ListResourceKeys"}

ASSUME RequestsAssumption ==
    \A c \in Callers : \A q \in RequestsOf[c] :
        q.op \in Ops /\ \A field \in DOMAIN q.filter : q.filter[field] # ""

VARIABLE outcome   \* of a caller: what it is told

vars == <<callVars, storeVars, outcome>>

Says(what, S) == [what |-> what, rows |-> S]
Nothing == Says("nothing", {})

Init == BackendsInit /\ outcome = [c \in Callers |-> Nothing]

IsCommand(q) == q.op \in {"get", "describe"}

(* The caller's message is on its way to the server; a syncer calls the    *)
(* datastore itself.                                                       *)
Ask(c) ==
    /\ pc[c] = "idle"
    /\ \E q \in RequestsOf[c] :
          /\ q.op = "FetchResourceGraph" => backend = "memory"
          /\ request' = [request EXCEPT ![c] = q]
          /\ pc' = [pc EXCEPT ![c] =
                       IF q.op = "ListResourceKeys" THEN "calling" ELSE "sent"]
    /\ UNCHANGED <<source, records, reply, storeVars, outcome>>

Tell(c, answer) ==
    /\ pc' = [pc EXCEPT ![c] = "told"]
    /\ outcome' = [outcome EXCEPT ![c] = answer]
    /\ reply' = [reply EXCEPT ![c] = NoReply]
    /\ UNCHANGED <<request, source, records, storeVars>>

(* ListResources takes a missing filter for an empty one. *)
Refused(q) == q.op \in {"GetResource", "FetchResourceGraph"} /\ ~q.given

Refuse(c) ==
    /\ pc[c] = "sent" /\ Refused(request[c])
    /\ Tell(c, Says("InvalidArgument", {}))

PassOn(c) ==
    /\ pc[c] = "sent" /\ ~Refused(request[c])
    /\ pc' = [pc EXCEPT ![c] = "calling"]
    /\ UNCHANGED <<request, source, records, reply, storeVars, outcome>>

(* The server is not there, or its answer is lost. *)
ConnectionFails(c) ==
    /\ pc[c] = "sent" \/ (pc[c] = "returned" /\ request[c].op # "ListResourceKeys")
    /\ Tell(c, Says("error", {}))

(* The handler's status. *)
StatusOf(result) ==
    CASE result.status = "ok"          -> Says("OK", result.rows)
      [] result.status = "ErrNotFound" -> Says("NotFound", {})
      [] OTHER                         -> Says("error", {})

FormatOf(q) ==
    IF q.format # "" THEN q.format
    ELSE IF "name" \in DOMAIN q.filter THEN "yaml" ELSE "table"

(* What a command makes of the rows listed for it. *)
Shown(q, S) ==
    IF S = {} THEN
        IF q.op = "describe" \/ "name" \in DOMAIN q.filter
        THEN Says("not found", {}) ELSE Says("No resources found", {})
    ELSE IF q.op = "get" /\ FormatOf(q) \notin {"json", "yaml", "table"}
    THEN Says("error", {})
    ELSE Says("OK", S)

Deliver(c) ==
    LET answer == StatusOf(reply[c]) IN
    /\ pc[c] = "returned"
    /\ Tell(c, IF IsCommand(request[c]) /\ answer.what = "OK"
               THEN Shown(request[c], answer.rows) ELSE answer)

Done(c) ==
    /\ pc[c] = "told"
    /\ pc' = [pc EXCEPT ![c] = "idle"]
    /\ request' = [request EXCEPT ![c] = NoRequest]
    /\ outcome' = [outcome EXCEPT ![c] = Nothing]
    /\ UNCHANGED <<source, records, reply, storeVars>>

CallStep(c) ==
    \/ FetcherStep(c) /\ UNCHANGED outcome
    \/ Refuse(c) \/ PassOn(c) \/ ConnectionFails(c) \/ Deliver(c)

WriterStep(w) == (Execute(w) \/ BeginWrite(w) \/ LockStep(w)) /\ UNCHANGED outcome

Next ==
    \/ \E c \in Callers : Ask(c) \/ CallStep(c) \/ Done(c)
    \/ \E w \in Workers : WriterStep(w)

Spec == Init /\ [][Next]_vars

(* A handler's goroutine keeps running, and so does a worker that has      *)
(* called Lock; nobody need ask or write.                                  *)
FairSpec ==
    /\ Spec
    /\ \A c \in Callers : WF_vars(CallStep(c))
    /\ \A w \in Workers : WF_vars(LockStep(w) /\ UNCHANGED outcome)

(***************************************************************************)
(* Properties.                                                             *)
(***************************************************************************)

States == {"idle", "sent", "calling", "scanning", "returned", "told"}

Replies ==
    [status : {"ok"}, rows : SUBSET Rows]
    \union [status : {"none", "error", "ErrNotFound", "multiple"}]

Requests == UNION {RequestsOf[c] : c \in Callers}
Words == {"nothing", "OK", "NotFound", "InvalidArgument", "error", "not found",
          "No resources found"}
Outcomes == [what : Words, rows : SUBSET Rows]

TypeOK ==
    /\ backend \in {"postgres", "memory"} /\ table \in Tables
    /\ pc \in [Callers -> States]
    /\ request \in [Callers -> {NoRequest} \union Requests]
    /\ \A c \in Callers : IF pc[c] = "idle" THEN request[c] = NoRequest
                                             ELSE request[c] \in RequestsOf[c]
    /\ source \in [Callers -> SUBSET Rows] /\ records \in [Callers -> SUBSET Rows]
    /\ reply \in [Callers -> Replies]
    /\ outcome \in [Callers -> Outcomes]
    /\ readers = {c \in Callers : backend = "memory" /\ pc[c] = "scanning"}
    /\ writer \in [Workers -> {"idle", "waiting", "locked"}]

(* Readers and writers of the map exclude each other, and a reader's rows  *)
(* are those of the map as it stands (memory/syncer.go:41, 62, 147, 226).  *)
ScanOfOneMap ==
    /\ \A v, w \in Workers :
          writer[w] = "locked" => readers = {} /\ (writer[v] = "locked" => v = w)
    /\ \A c \in readers : records[c] \subseteq table /\ source[c] \subseteq table

(* What a call amounts to: a query of Postgres sees the table when the     *)
(* statement runs, a loop over the map when it ends.                       *)
CallOf(c) ==
    LET started == [state |-> "asked", request |-> request[c]]
        seen(S) == [state |-> "seen", request |-> request[c], rows |-> S]
        told(answer) == [state |-> "told", request |-> request[c], answer |-> answer]
    IN  CASE pc[c] = "idle" -> [state |-> "idle"]
          [] pc[c] \in {"sent", "calling"} -> started
          [] pc[c] = "scanning" ->
                 IF backend = "memory" THEN started ELSE seen(source[c] \union records[c])
          [] pc[c] = "returned" ->
                 CASE reply[c].status = "ok" -> seen(reply[c].rows)
                   [] reply[c].status = "ErrNotFound" -> seen({})
                   [] OTHER -> told(Says("error", {}))
          [] pc[c] = "told" -> told(outcome[c])

Calls == [c \in Callers |-> CallOf(c)]

Service == INSTANCE QueryService WITH calls <- Calls

(* Every answer is that of the whole table at one moment between question  *)
(* and answer, or an error: never of two moments, never of a part without  *)
(* an error, and never NotFound for a failure (fetcher.go:15-55,           *)
(* memory/syncer.go:143-187, server.go:75-139, get.go:66-84).              *)
ImplementsService == Service!Spec

(* Every call is answered, and a writer that waits for the readers gets    *)
(* its turn: every return path gives the read lock back, and sync.RWMutex  *)
(* lets neither side overtake the other for ever.                          *)
NobodyWaitsForever ==
    /\ \A c \in Callers : pc[c] = "sent" ~> pc[c] = "told"
    /\ \A w \in Workers : writer[w] = "waiting" ~> writer[w] = "idle"

(* README.md:65-72: "ksactl get pods", "ksactl get deployments": a command *)
(* that names a kind by the plural finds its resources.                    *)
ExamplesFindResources ==
    \A c \in Callers :
        outcome[c].what = "No resources found" =>
            ~\E r \in table : Plural[r.kind] = request[c].filter.kind
=============================================================================
