------------------------------ MODULE Workshop ------------------------------
(* A run of a Workshop app: POST /workshop/apps/{app_id}/run (routers/workshop.py,
   services/workshop_executor.py), while the app may be deleted.  The request loads
   the graph, inserts its execution row, sorts the nodes and dispatches them one
   after the other; get_db commits when the handler has returned.

   PUT may save any graph of Graphs until the request reads it, and the request
   works on what it read: the graph of TopologicalOrder is that one, and PUT is
   no action.  Runs of one app do not meet (they insert rows of their own, and
   their locks on the app go together), so there is one.

   An action node that finds an object hands it to ActionExecutor without a user:
   its log violates a NOT NULL and the failed flush rolls the transaction
   back.  The handler goes on, but the session refuses every later
   statement and the commit. *)
EXTENDS TopologicalOrder

CONSTANT MaxFaults

ASSUME WorkshopAssumption == MaxFaults \in Nat

VARIABLES
    pc,         \* "load", "create", "order", "walk" or "done"
    app,        \* is the row of the app there?
    results,    \* status of each node in the results of the run
    items,      \* upstream_cache: "absent", or whether the items are "empty"
    turn,       \* nodes of the order still to come
    session,    \* "clean", or "broken": its transaction was rolled back
    execution,  \* the committed row of the run, or NoExecution
    reply,      \* status answered, or the error
    faults

runVars == <<pc, app, results, items, turn, session, execution, reply, faults>>
vars == <<orderVars, runVars>>

NodeStatus == {"none", "pending", "done", "error"}
RunStatus == {"completed", "partial", "failed"}
Execution == [status : RunStatus, results : [Ids -> NodeStatus]]
NoExecution == [status |-> "none"]

Init ==
    /\ OrderInit
    /\ pc = "load"
    /\ app = TRUE
    /\ results = [n \in Ids |-> "none"]
    /\ items = [n \in Ids |-> "absent"]
    /\ turn = 0
    /\ session = "clean"
    /\ execution = NoExecution
    /\ reply = "none"
    /\ faults = 0

End(answer) == pc' = "done" /\ reply' = answer

-----------------------------------------------------------------------------
(* The run *)

Load ==
    /\ pc = "load"
    /\ IF app THEN pc' = "create" /\ UNCHANGED reply ELSE End("404")
    /\ UNCHANGED <<orderVars, app, results, items, turn, session, execution, faults>>

(* The row references the app: the insert fails when that is gone, and locks it
   when it is there *)
Create ==
    /\ pc = "create"
    /\ IF app THEN pc' = "order" /\ UNCHANGED reply ELSE End("500")
    /\ UNCHANGED <<orderVars, app, results, items, turn, session, execution, faults>>

Search ==
    /\ pc = "order"
    /\ OrderNext
    /\ UNCHANGED runVars

Prepare ==
    /\ pc = "order"
    /\ Ordered
    /\ pc' = "walk"
    /\ results' = [n \in Ids |-> IF n \notin NodeIds THEN "none"
                                 ELSE IF cyclic THEN "error" ELSE "pending"]
    /\ turn' = IF cyclic THEN 0 ELSE counter
    /\ UNCHANGED <<orderVars, app, items, session, execution, reply, faults>>

(* Mutant of Due: the order is by ascending post number *)
DueAscending(n) ==
    /\ pc = "walk"
    /\ turn > 0
    /\ color[n] = "black"
    /\ post[n] = counter - turn

(* The order is by descending post number *)
Due(n) ==
    /\ pc = "walk"
    /\ turn > 0
    /\ color[n] = "black"
    /\ post[n] = turn - 1

NodeType(n) ==
    LET first == CHOOSE i \in 1..NodeCount :
                    /\ graph.nodes[i].id = n
                    /\ \A j \in 1..(i - 1) : graph.nodes[j].id # n
    IN  graph.nodes[first].type

(* first_upstream_id: the source of the first edge into n that starts at a node *)
Upstreams(n) == {i \in Edges : Target(i) = n /\ Source(i) \in NodeIds}

(* What the cache holds for that node *)
Input(n) ==
    IF Upstreams(n) = {} THEN "absent"
    ELSE items[Source(CHOOSE i \in Upstreams(n) : \A j \in Upstreams(n) : i <= j)]

Dispatched(n, status, output) ==
    /\ results' = [results EXCEPT ![n] = status]
    /\ items' = [items EXCEPT ![n] = output]
    /\ turn' = turn - 1
    /\ UNCHANGED <<orderVars, pc, app, execution, reply, faults>>

(* The objects of a type: none when no type, or no known one, is configured; an error
   for a bad id, for two types of one name and on a broken session *)
Listed(n) ==
    /\ \/ Dispatched(n, "done", "empty")
       \/ session = "clean" /\ Dispatched(n, "done", "some")
       \/ Dispatched(n, "error", "absent")
    /\ UNCHANGED session

TableNode(n) ==
    /\ Due(n)
    /\ n \in NodeIds
    /\ NodeType(n) = "table"
    /\ Listed(n)

(* linknav: the objects of the type at the other end, wherever they are linked to *)
LinkNode(n) ==
    /\ Due(n)
    /\ n \in NodeIds
    /\ NodeType(n) = "linknav"
    /\ Listed(n)

(* filter: some or none of the upstream items; only a comparison can raise *)
FilterNode(n) ==
    /\ Due(n)
    /\ n \in NodeIds
    /\ NodeType(n) = "filter"
    /\ \/ Dispatched(n, "done", "empty")
       \/ Input(n) = "some" /\ Dispatched(n, "done", "some")
       \/ Input(n) = "some" /\ Dispatched(n, "error", "absent")
    /\ UNCHANGED session

(* chart: nothing goes downstream from it *)
ChartNode(n) ==
    /\ Due(n)
    /\ n \in NodeIds
    /\ NodeType(n) = "chart"
    /\ \/ Dispatched(n, "done", "absent")
       \/ Input(n) = "some" /\ Dispatched(n, "error", "absent")
    /\ UNCHANGED session

(* action: a warning when nothing is configured or there is no object upstream, an
   error when the lookup fails, and the executor otherwise *)
ActionNode(n) ==
    /\ Due(n)
    /\ n \in NodeIds
    /\ NodeType(n) = "action"
    /\ \/ Dispatched(n, "done", "absent") /\ UNCHANGED session
       \/ Dispatched(n, "error", "absent") /\ UNCHANGED session
       \/ /\ Input(n) = "some"
          /\ session = "clean"
          /\ Dispatched(n, "error", "absent")
          /\ session' = "broken"

(* A type without a handler is answered with a warning *)
UnknownNode(n) ==
    /\ Due(n)
    /\ n \in NodeIds
    /\ NodeType(n) \notin {"table", "linknav", "filter", "chart", "action"}
    /\ Dispatched(n, "done", "absent")
    /\ UNCHANGED session

(* The order also has the ids that are no nodes *)
NoNode(n) ==
    /\ Due(n)
    /\ n \notin NodeIds
    /\ turn' = turn - 1
    /\ UNCHANGED <<orderVars, pc, app, results, items, session, execution, reply, faults>>

RunNode ==
    \E n \in Ids :
        \/ TableNode(n)
        \/ LinkNode(n)
        \/ FilterNode(n)
        \/ ChartNode(n)
        \/ ActionNode(n)
        \/ UnknownNode(n)
        \/ NoNode(n)

Some(status) == \E n \in Ids : results[n] = status

Verdict ==
    IF cyclic THEN "failed"
    ELSE IF ~Some("error") THEN "completed"
    ELSE IF Some("done") THEN "partial" ELSE "failed"

Closing == pc = "walk" /\ turn = 0

(* Mutant of Commit: a broken session is left unnoticed *)
CommitUnchecked ==
    /\ Closing
    /\ execution' = IF session = "clean" THEN [status |-> Verdict, results |-> results]
                    ELSE execution
    /\ End(Verdict)
    /\ UNCHANGED <<orderVars, app, results, items, turn, session, faults>>

Commit ==
    /\ Closing
    /\ IF session = "clean"
       THEN /\ execution' = [status |-> Verdict, results |-> results]
            /\ End(Verdict)
       ELSE /\ UNCHANGED execution
            /\ End("500")
    /\ UNCHANGED <<orderVars, app, results, items, turn, session, faults>>

-----------------------------------------------------------------------------
(* DELETE /workshop/apps/{app_id} takes the executions along.  It waits for a
   transaction that has inserted one. *)
Delete ==
    /\ app
    /\ ~(pc \in {"order", "walk"} /\ session = "clean")
    /\ app' = FALSE
    /\ execution' = NoExecution
    /\ UNCHANGED <<orderVars, pc, results, items, turn, session, reply, faults>>

Fault == faults < MaxFaults /\ faults' = faults + 1

(* The connection to PostgreSQL is lost between two statements *)
Disconnect ==
    /\ Fault
    /\ pc = "walk"
    /\ session = "clean"
    /\ session' = "broken"
    /\ UNCHANGED <<orderVars, pc, app, results, items, turn, execution, reply>>

(* ... or during the commit, which may have been carried out *)
CommitFails ==
    /\ Fault
    /\ Closing
    /\ session = "clean"
    /\ \/ execution' = [status |-> Verdict, results |-> results]
       \/ UNCHANGED execution
    /\ session' = "broken"
    /\ End("500")
    /\ UNCHANGED <<orderVars, app, results, items, turn>>

(* The API process restarts *)
Restart ==
    /\ Fault
    /\ pc # "done"
    /\ End("none")
    /\ UNCHANGED <<orderVars, app, results, items, turn, session, execution>>

-----------------------------------------------------------------------------
Run == Load \/ Create \/ Search \/ Prepare \/ RunNode \/ Commit

Next == Run \/ Delete \/ Disconnect \/ CommitFails \/ Restart

Spec == Init /\ [][Next]_vars /\ WF_vars(Run)

-----------------------------------------------------------------------------
(* Properties *)

TypeOK ==
    /\ OrderTypeOK
    /\ pc \in {"load", "create", "order", "walk", "done"}
    /\ app \in BOOLEAN
    /\ results \in [Ids -> NodeStatus]
    /\ items \in [Ids -> {"absent", "empty", "some"}]
    /\ turn \in 0..counter
    /\ session \in {"clean", "broken"}
    /\ execution \in Execution \cup {NoExecution}
    /\ reply \in RunStatus \cup {"none", "404", "500"}
    /\ faults \in 0..MaxFaults

HasRun(n) == results[n] \in {"done", "error"}

(* A node runs after all the nodes whose output it may read, in whatever order the
   user placed nodes and edges, and with edges from and to ids that are no nodes. *)
UpstreamFirst ==
    \A i \in Edges :
        Source(i) \in NodeIds /\ HasRun(Target(i)) => HasRun(Source(i))

(* The state machine of docs/API-SPEC.md: a stored run is "completed" when each
   node is done, "partial" when one failed and one is done, "failed" when each
   failed or the graph has a cycle.  No node is left out of a stored run. *)
StatusTold ==
    execution # NoExecution =>
        LET Has(status) == \E n \in NodeIds : execution.results[n] = status
            All(status) == \A n \in NodeIds : execution.results[n] = status
        IN  /\ execution.status = "completed" => All("done")
            /\ execution.status = "partial" => ~Has("pending") /\ Has("error") /\ Has("done")
            /\ execution.status = "failed" => All("error")

(* The run a client was told of is the one in the history of the app, also when
   a node broke the session or the app was deleted meanwhile. *)
AnswerIsStored ==
    reply \in RunStatus /\ app =>
        execution # NoExecution /\ execution.status = reply /\ execution.results = results

(* A run is answered: the sort ends on graphs with cycles too, and each id of
   the order has its turn. *)
RunAnswered == <>(pc = "done")
=============================================================================
