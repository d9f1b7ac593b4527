---------------------------- MODULE QueryService ----------------------------
(***************************************************************************)
(* What a user of the state service is promised: every answer is that of   *)
(* the whole table at one moment between question and answer, or an error. *)
(* There are no locks, cursors, status codes or failing queries here.      *)
(***************************************************************************)
EXTENDS ResourceRecords

CONSTANTS
    Callers,
    RequestsOf     \* of a caller: what it may ask, [op, given, filter, format]

VARIABLES table, calls

(* The rows of T that a request is about.  ListResourceKeys takes an empty *)
(* group for the core group, where the other requests take it for any, and *)
(* is given a kind or none.                                                *)
Selected(q, T) ==
    IF q.op = "ListResourceKeys"
    THEN {r \in T : /\ \A field \in {"cluster", "group", "version"} :
                          r[field] = FieldOf(q.filter, field)
                    /\ FieldOf(q.filter, "kind") \in {"", r.kind}}
    ELSE {r \in T : Matches(q.filter, r)}

(* A graph holds one row of each key. *)
Views(q, T) ==
    IF q.op = "FetchResourceGraph" THEN Unique(Selected(q, T)) ELSE {Selected(q, T)}

Says(what, S) == [what |-> what, rows |-> S]

Failure == Says("error", {})

(* What the user is told if the table holds the rows S for the request.    *)
Answer(q, S) ==
    CASE q.op = "GetResource" ->
           IF ~q.given THEN Says("InvalidArgument", {})
           ELSE IF S = {} THEN Says("NotFound", {})
           ELSE IF Several(S) THEN Failure ELSE Says("OK", S)
      [] q.op = "FetchResourceGraph" ->
           IF ~q.given THEN Says("InvalidArgument", {}) ELSE Says("OK", S)
      [] q.op \in {"ListResources", "ListResourceKeys"} -> Says("OK", S)
      [] q.op \in {"get", "describe"} ->
           IF S = {} THEN IF q.op = "get" /\ "name" \notin DOMAIN q.filter
                          THEN Says("No resources found", {}) ELSE Says("not found", {})
           ELSE IF q.op = "get" /\ q.format \notin {"", "json", "yaml", "table"}
                THEN Failure ELSE Says("OK", S)

Idle == [state |-> "idle"]

Init == table \in Tables /\ calls = [c \in Callers |-> Idle]

Write ==
    /\ \E r \in Rows : table' \in {Upserted(table, r), Deleted(table, r)}
    /\ UNCHANGED calls

Ask(c) ==
    /\ calls[c] = Idle
    /\ \E q \in RequestsOf[c] :
          calls' = [calls EXCEPT ![c] = [state |-> "asked", request |-> q]]
    /\ UNCHANGED table

(* The moment of the answer. *)
Look(c) ==
    /\ calls[c].state = "asked"
    /\ \E S \in Views(calls[c].request, table) :
          calls' = [calls EXCEPT ![c] =
                       [state |-> "seen", request |-> @.request, rows |-> S]]
    /\ UNCHANGED table

Tell(c) ==
    /\ calls[c].state \in {"asked", "seen"}
    /\ \E answer \in {Failure} \union
             (IF calls[c].state = "seen" THEN {Answer(calls[c].request, calls[c].rows)}
              ELSE IF calls[c].request.given THEN {} ELSE {Answer(calls[c].request, {})}) :
          calls' = [calls EXCEPT ![c] =
                       [state |-> "told", request |-> @.request, answer |-> answer]]
    /\ UNCHANGED table

Done(c) ==
    /\ calls[c].state = "told"
    /\ calls' = [calls EXCEPT ![c] = Idle]
    /\ UNCHANGED table

Next == Write \/ \E c \in Callers : Ask(c) \/ Look(c) \/ Tell(c) \/ Done(c)

Spec == Init /\ [][Next]_<<table, calls>>
=============================================================================
