---------------------------- MODULE DecisionFlows ----------------------------
(* The endpoints of routers/decision_flow.py with the Neo4j nodes they write, and
   the background task that executes a flow and keeps its record in Redis, or in
   the memory of the process when Redis was not there at the start.

   Neo4j takes no list of maps for a property: a flow with steps is refused and
   every stored flow has none, so an execution goes from its first record to its
   last. *)
EXTENDS Platform

CONSTANTS
    Requests,
    Old        \* a flow that may be stored already

ASSUME FlowsAssumption == Old \notin Requests

FlowIds == Requests \cup {Old}

(* uuid4 is called twice for one execution: for the answer, and for the record *)
ExecutionIds == {"answered", "recorded"} \X Requests
Answered(r) == <<"answered", r>>
Recorded(r) == <<"recorded", r>>

VARIABLES
    flows,      \* the DecisionFlow nodes: "absent", "active" or "inactive"
    records,    \* flow_exec keys of Redis: the status, or "none"
    fallback,   \* RedisClient._fallback
    request,    \* of each request: what is asked, of which flow or execution, and the answer
    job,        \* of each request: how far its background task is
    troubled,   \* history: the tasks under way when Redis or the process went down
    deleted     \* history: the flows someone asked to delete

stores == <<flows, records, fallback>>
flowVars == <<platform, stores, request, job, troubled, deleted>>

Kinds == {"create", "create_steps", "get", "list", "deactivate", "delete", "execute", "poll"}
Answers == {"none", "created", "ok", "queued", "not_found", "error", "lost"}
Underway == {"waiting", "read", "finish", "read_to_fail", "fail"}
Statuses == {"none", "running", "completed", "failed"}
NoRequest == [kind |-> "none", flow |-> Old, answer |-> "none"]
NoRecords == [x \in ExecutionIds |-> "none"]

FlowsInit ==
    /\ PlatformInit
    /\ flows \in {f \in [FlowIds -> {"absent", "active"}] : \A r \in Requests : f[r] = "absent"}
    /\ records = NoRecords /\ fallback = NoRecords
    /\ request = [r \in Requests |-> NoRequest]
    /\ job = [r \in Requests |-> "none"]
    /\ troubled = {} /\ deleted = {}

Busy(r) == request[r].kind # "none" /\ request[r].answer = "none"
Working == {r \in Requests : job[r] \in Underway}

Ask(r) ==
    /\ phase = "serving"
    /\ request[r] = NoRequest
    /\ \E kind \in Kinds, flow \in FlowIds :
        /\ kind \in {"create", "create_steps"} <=> flow = r
        /\ kind = "poll" => flow \in Requests /\ request[flow].answer = "queued"
        /\ kind \in {"deactivate", "delete", "execute"} => flow = Old \/ flows[flow] # "absent"
        /\ request' = [request EXCEPT ![r] = [kind |-> kind, flow |-> flow, answer |-> "none"]]
        /\ deleted' = IF kind = "delete" THEN deleted \cup {flow} ELSE deleted
    /\ UNCHANGED <<platform, stores, job, troubled>>

Reply(r, answer) == request' = [request EXCEPT ![r].answer = answer]
Asks(r, kind) == Busy(r) /\ request[r].kind = kind
-----------------------------------------------------------------------------
(* One statement of Neo4j.  It is refused at once by a client that is not
   connected; the answer of one that was executed may be lost. *)
Cypher(r, after, answer) ==
    \/ /\ {"neo4j"} \subseteq connected \cap up
       /\ flows' = after
       /\ Reply(r, answer)
       /\ UNCHANGED <<up, outages>>
    \/ /\ "neo4j" \notin connected \cap up
       /\ Reply(r, "error")
       /\ UNCHANGED <<flows, up, outages>>
    \/ /\ {"neo4j"} \subseteq connected \cap up
       /\ GoesDown("neo4j")
       /\ flows' = after
       /\ Reply(r, "error")

Found(r) == flows[request[r].flow] # "absent"

CreateFlow(r) ==
    /\ Asks(r, "create")
    /\ Cypher(r, [flows EXCEPT ![r] = "active"], "created")
    /\ UNCHANGED <<process, restarts, records, fallback, job, troubled, deleted>>

CreateWithSteps(r) ==
    /\ Asks(r, "create_steps")
    /\ Reply(r, "error")
    /\ UNCHANGED <<platform, stores, job, troubled, deleted>>

GetFlow(r) ==
    /\ Asks(r, "get")
    /\ Cypher(r, flows, IF Found(r) THEN "ok" ELSE "not_found")
    /\ UNCHANGED <<process, restarts, records, fallback, job, troubled, deleted>>

ListFlows(r) ==
    /\ Asks(r, "list")
    /\ Cypher(r, flows, "ok")
    /\ UNCHANGED <<process, restarts, records, fallback, job, troubled, deleted>>

(* Nothing asks for is_active, and a flow that is not there is "deactivated" too *)
Deactivate(r) ==
    /\ Asks(r, "deactivate")
    /\ Cypher(r, [flows EXCEPT ![request[r].flow] = IF Found(r) THEN "inactive" ELSE @], "ok")
    /\ UNCHANGED <<process, restarts, records, fallback, job, troubled, deleted>>

(* Mutant of Gone: deletion is only a status *)
GoneInactive(f) == [flows EXCEPT ![f] = IF @ = "absent" THEN @ ELSE "inactive"]

Gone(f) == [flows EXCEPT ![f] = "absent"]

DeleteFlow(r) ==
    /\ Asks(r, "delete")
    /\ Cypher(r, Gone(request[r].flow), "ok")
    /\ UNCHANGED <<process, restarts, records, fallback, job, troubled, deleted>>

(* The task is added to those that follow the response *)
Execute(r) ==
    /\ Asks(r, "execute")
    /\ Cypher(r, flows, IF Found(r) THEN "queued" ELSE "not_found")
    /\ job' = [job EXCEPT ![r] = IF request'[r].answer = "queued" THEN "waiting" ELSE @]
    /\ UNCHANGED <<process, restarts, records, fallback, troubled, deleted>>
-----------------------------------------------------------------------------
(* One command of RedisClient by the task of r: it goes on as "works", or as "raises" *)
Record(table, r, status) ==
    IF status = "none" THEN table ELSE [table EXCEPT ![Recorded(r)] = status]

Hurt == troubled \cup Working

Command(r, status, works, raises) ==
    \/ /\ "redis" \notin connected
       /\ fallback' = Record(fallback, r, status)
       /\ job' = [job EXCEPT ![r] = works]
       /\ UNCHANGED <<up, outages, records, troubled>>
    \/ /\ {"redis"} \subseteq connected \cap up
       /\ records' = Record(records, r, status)
       /\ job' = [job EXCEPT ![r] = works]
       /\ UNCHANGED <<up, outages, fallback, troubled>>
    \/ /\ "redis" \in connected \ up
       /\ job' = [job EXCEPT ![r] = raises]
       /\ troubled' = Hurt
       /\ UNCHANGED <<up, outages, records, fallback>>
    \/ /\ {"redis"} \subseteq connected \cap up
       /\ GoesDown("redis")
       /\ records' = Record(records, r, status)
       /\ job' = [job EXCEPT ![r] = raises]
       /\ troubled' = Hurt
       /\ UNCHANGED fallback

(* The first record is written outside the try: its failure escapes *)
StartExecution(r) ==
    /\ job[r] = "waiting"
    /\ Command(r, "running", "read", "escaped")

(* No step follows; update_flow_execution reads the record and writes it *)
ReadRecord(r) ==
    /\ job[r] = "read"
    /\ Command(r, "none", "finish", "read_to_fail")

FinishExecution(r) ==
    /\ job[r] = "finish"
    /\ Command(r, "completed", "ended", "read_to_fail")

(* Mutant of ReadToFail: it is tried again until Redis answers *)
ReadToFailAgain(r) ==
    /\ job[r] = "read_to_fail"
    /\ Command(r, "none", "fail", "read_to_fail")

ReadToFail(r) ==
    /\ job[r] = "read_to_fail"
    /\ Command(r, "none", "fail", "escaped")

(* Mutant of FailExecution: the failure is only logged *)
FailExecutionLogged(r) ==
    /\ job[r] = "fail"
    /\ Command(r, "none", "ended", "escaped")

FailExecution(r) ==
    /\ job[r] = "fail"
    /\ Command(r, "failed", "ended", "escaped")

JobStep(r) ==
    /\ phase = "serving"
    /\ StartExecution(r) \/ ReadRecord(r) \/ FinishExecution(r) \/ ReadToFail(r) \/ FailExecution(r)
    /\ UNCHANGED <<process, restarts, flows, request, deleted>>

(* GET /executions/{id}, with the id that was answered *)
Poll(r) ==
    /\ Asks(r, "poll")
    /\ LET id == Answered(request[r].flow)
           found == IF "redis" \in connected THEN records[id] ELSE fallback[id]
       IN  Reply(r, IF "redis" \in connected \ up THEN "error"
                    ELSE IF found = "none" THEN "not_found" ELSE "ok")
    /\ UNCHANGED <<platform, stores, job, troubled, deleted>>
-----------------------------------------------------------------------------
Handle(r) ==
    /\ phase = "serving"
    /\ \/ CreateFlow(r) \/ CreateWithSteps(r) \/ GetFlow(r) \/ ListFlows(r)
       \/ Deactivate(r) \/ DeleteFlow(r) \/ Execute(r) \/ Poll(r)

(* Every request and task of the process ends with it, and so does its memory *)
Killed ==
    /\ Kill
    /\ request' = [r \in Requests |-> IF Busy(r) THEN [request[r] EXCEPT !.answer = "lost"]
                                      ELSE request[r]]
    /\ job' = [r \in Requests |-> IF r \in Working THEN "killed" ELSE job[r]]
    /\ troubled' = Hurt
    /\ fallback' = NoRecords
    /\ UNCHANGED <<flows, records, deleted>>

Stopping ==
    /\ \A r \in Requests : ~Busy(r) /\ r \notin Working
    /\ BeginClosing
    /\ UNCHANGED <<stores, request, job, troubled, deleted>>

Restart ==
    /\ StartAnew
    /\ fallback' = NoRecords
    /\ UNCHANGED <<flows, records, request, job, troubled, deleted>>

Elsewhere ==
    /\ StartClient \/ HealthCheck \/ CloseClient \/ Recovery
    /\ UNCHANGED <<stores, request, job, troubled, deleted>>

ServiceLost ==
    /\ Outage
    /\ troubled' = IF "redis" \in up' THEN troubled ELSE Hurt
    /\ UNCHANGED <<stores, request, job, deleted>>

FlowsNext ==
    \/ \E r \in Requests : Ask(r) \/ Handle(r) \/ JobStep(r)
    \/ Killed \/ Stopping \/ Restart \/ Elsewhere \/ ServiceLost

(* The event loop takes up every task of a process that serves *)
JobFairness == \A r \in Requests : WF_flowVars(JobStep(r))

FlowsSpec == FlowsInit /\ [][FlowsNext]_flowVars /\ JobFairness
-----------------------------------------------------------------------------
FlowsTypeOK ==
    /\ PlatformTypeOK
    /\ flows \in [FlowIds -> {"absent", "active", "inactive"}]
    /\ records \in [ExecutionIds -> Statuses] /\ fallback \in [ExecutionIds -> Statuses]
    /\ request \in [Requests -> [kind : Kinds \cup {"none"}, flow : FlowIds, answer : Answers]]
    /\ job \in [Requests -> Underway \cup {"none", "ended", "escaped", "killed"}]
    /\ troubled \subseteq Requests /\ deleted \subseteq FlowIds

(* A task that ended has told how: its record, wherever it is kept, says completed
   or failed (a record in memory may be gone with its process).  A record says
   failed, or is left behind as running, only because Redis or the process went
   down while the task was under way: no flow fails by itself. *)
RecordsSettle ==
    \A r \in Requests :
        LET status == {records[Recorded(r)], fallback[Recorded(r)]} IN
        /\ job[r] = "ended" => "running" \notin status
        /\ "failed" \in status => r \in troubled
        /\ "running" \in status => r \in Working \cup troubled
        /\ job[r] = "ended" /\ r \notin troubled =>
            \/ "completed" \in status
            \/ status = {"none"} /\ restarts + (IF phase = "stopped" THEN 1 ELSE 0) > 0

(* A flow answered as created is there until someone asks to delete it, one
   answered as deleted never comes back, one refused for its steps was never
   stored, and an execution is only of a flow that was. *)
FlowsAsAnswered ==
    \A r \in Requests :
        LET f == request[r].flow IN
        /\ request[r].answer = "created" => flows[f] # "absent" \/ f \in deleted
        /\ request[r].kind = "delete" /\ request[r].answer = "ok" => flows[f] = "absent"
        /\ request[r].kind = "create_steps" => flows[r] = "absent"
        /\ job[r] # "none" /\ flows[f] = "absent" => f \in deleted

(* What GET /health told of Neo4j is what requests for flows then meet: they are
   answered by an error when it was unhealthy, and only then, unless Neo4j is up
   now and was not when the process started, or the other way round.  An outage
   that is over does not count, nor does a recovery that did not last. *)
NeedsGraph == Kinds \ {"create_steps", "poll"}
Settles(r) == Busy(r) /\ request'[r].answer \notin {"none", "lost"}
HealthForetells ==
    [][\A r \in Requests :
        /\ asked /\ Settles(r) /\ request[r].kind \in NeedsGraph
        /\ "neo4j" \in up' <=> "neo4j" \in reached
        => (request'[r].answer = "error" <=> "neo4j" \notin health)]_flowVars

(* The tasks of a process that goes on serving come to an end *)
JobsEnd == \A r \in Requests : job[r] = "waiting" ~> job[r] \notin Underway
=============================================================================
