# Formal models of Meatapivot

TLA+ models of the backend of the Meatapivot platform (`src/backend/app`), the
TLC configurations that check them, and theorems about them that TLAPS proves.
The code is the reference: each definition was translated from the lines that
`PROJECT.json` gives for it under `map`, and names of states, statuses and
operations are those of the code wherever TLA+ allows.

Contents: [1. The system](#1-the-system), [2. The modules](#2-the-modules),
[3. AgentEngine](#3-agentengine), [4. ValidationTask, ReportFeed and
InterfaceChannel](#4-validationtask-reportfeed-and-interfacechannel),
[5. OntologyStore](#5-ontologystore), [6. Workshop](#6-workshop),
[7. ActionExecution](#7-actionexecution), [8. LlmCalls, TenantSettings and
Guardrails](#8-llmcalls-tenantsettings-and-guardrails), [9. OntologyDag and
OntologyChecks](#9-ontologydag-and-ontologychecks), [10. Platform and
DecisionFlows](#10-platform-and-decisionflows), [11. RuleExpressions
and Filters](#11-ruleexpressions-and-filters),
[12. Accounts](#12-accounts), [13. Runs](#13-runs), [14. Proofs](#14-proofs),
[15. Where code and documents disagree](#15-where-code-and-documents-disagree),
[16. Not modelled](#16-not-modelled), [17. What is left](#17-what-is-left).

Commands, from this directory:

    tlc -workers 2 -config MCAgentEngine.cfg MCAgentEngine
    tlapm AgentEngineProofs.tla

## 1. The system

An API process (FastAPI under one uvicorn process, one event loop) and Celery
worker processes (concurrency 2) serve the tenants. PostgreSQL holds the
ontology and all records, Neo4j the graph of objects and links, Redis the agent
sessions, rate counters, caches and the channel of validation reports, RabbitMQ
the tasks, MinIO the documents, Milvus the vectors.

The hard part of the system is that state is copied and written back across
`await`s, commits and processes, with no lock and no version check anywhere:

- a request of the API is a coroutine; two on one agent session, one object
  type or one tenant interleave at every `await`;
- a handler runs in one READ COMMITTED transaction that `get_db`
  (`services/database.py`) commits after the handler returns, while Neo4j
  statements, Redis writes and `task.delay()` inside the handler take effect at
  once;
- workers retry (`self.retry`), RabbitMQ forgets a task as soon as it is taken
  (early acknowledgement), and Redis pub/sub delivers to whoever listens;
- a browser tab keeps loops in the API process that share one module-level
  channel.

### Components

| Component | State | Operations | Interacts with | What makes it correct |
|---|---|---|---|---|
| Agent engine and sessions (`services/agent_engine.py`, `routers/aip.py`) | `AgentSession` JSON in Redis; a copy per request; steps | run, stream, resume, interrupt, status; workflow executor; tool loop | LLM gateway, tools, Redis | a run in progress has an owner; what was answered is stored; no message is lost |
| Default agents (`create_default_agents`) | five definitions: graph, human-in-the-loop, iterations | none (data) | the engine | the graphs lead where their descriptions say |
| Interface validation (`routers/ontology/interfaces.py`, `worker/tasks.py`, `routers/ws.py`) | interfaces; the latest report in Redis; channel memory, tabs | create, update, archive; validate, retry; connect, subscribe, poll, broadcast | PostgreSQL, RabbitMQ, Redis, tabs | the report kept is of a validation that saw the change; all tabs show it in the end |
| Ontology store (`routers/ontology/object_types.py`, `actions.py`) | object types (properties, status, version, compile status), link types, functions, objects, links; nodes and relationships in Neo4j | create, update, archive, compile | PostgreSQL, Neo4j | keys unique; graph in step with rows; compile status and version speak of the row |
| Compilation pipeline (`services/compiler/`), schema registry (`services/schema_registry.py`) | none that lasts | full and incremental compile, six stages; get, set, invalidate | a task that raises before the first stage | see section 16 |
| Compiler behind `POST /ontology/compile` (`services/ontology_compiler.py`) | compile log, compile status | full and incremental compile, rollback | PostgreSQL, Neo4j | rollback removes what the failed compile made |
| Ontology DAG (`services/ontology_dag.py`) | the graph between definitions, in both directions | add, remove; sort, find a cycle, impact set, dependency chain | ontology service, endpoints | a cycle is told iff there is one; orders respect edges; closures are complete |
| Ontology service, repository, validators, `GET /dag/cycle`, `/compile/validate`, `/interfaces/{id}/validate` | none of their own | read the definitions, table by table, and judge them | ontology store, DAG | the verdict is that of the definitions at some moment; the validators agree |
| Action types and functions (`routers/ontology/actions.py`, `services/action_executor.py`) | execution log, object properties, processes | execute, test, evaluate rules, ask the policy | OPA bundle, PostgreSQL, Neo4j, subprocesses | the log tells what happened to the objects; no process runs that the gate refused, or is left behind by an answer; everybody is answered |
| Decision flows (`routers/decision_flow.py`) | flows in Neo4j, execution records in Redis or in memory | create, deactivate, delete, execute in the background, poll | Neo4j, Redis | a task that ended has told how; a flow is as its client was told |
| Celery worker (`worker/`) | none of its own | interface validation; documents, compile, sandbox, flows | all stores | section 4; the other tasks have no effect (section 16) |
| LLM gateway (`services/llm_gateway.py`) | per-minute counter | complete, stream, rate limit | providers, Redis | the limit is exceeded by overlaps only |
| LLM budgets (`routers/llm_cost.py`, `services/llm_cost_service.py`, `llm_pricing.py`) | a budget row per tenant | create, partial update; sums | PostgreSQL | a field keeps the value last asked for it |
| Prompt templates (`routers/prompts.py`, `services/prompt_template_service.py`) | templates, versions, usage counters | create, update, archive, render, record usage | gateway | counts and versions are lost by overlaps only |
| Guardrails (`services/guardrails_service.py`), OPA (`services/opa_client.py`) | a log; a bundle of policies | check input and output, log; allow or deny | chat, RAG, action executor | nobody gets an answer the log does not know of; which policy denies |
| Workshop (`services/workshop_executor.py`, `services/workshop_runtime_helpers.py`, `routers/workshop.py`) | apps with the graph a user drew; executions | sort, run nodes, store the results; create, update, delete | actions, PostgreSQL | a cycle is told iff there is one; nodes run after what they read; the stored status is that of the results |
| Search, RAG, documents, knowledge graph | external indexes, files | query, upload, process | Milvus, MinIO, Neo4j | reads; an upload and its row go together |
| Accounts and tenants (`routers/auth.py`, `middleware/tenant_middleware.py`) | users, tokens | register, login, request with a token | PostgreSQL | what a registration is told is so; both readers of a token agree on its tenant |
| Application (`main.py` and its clients) | which clients are connected | start, stop, `GET /health` | the five services | what the health check is worth |
| Message queue client, metrics, frontend | pages | | | |

`PROJECT.json` lists each component with the modules that model it, and the
hazards: each place where this code can go wrong in a way that a test would
hardly reach, with the properties that cover it.

## 2. The modules

| Module | What it is |
|---|---|
| `AgentRegistry` | the five default agents, as data |
| `AgentEngine`, `MCAgentEngine`, `AgentEngineProofs` | requests on agent sessions: endpoints, workflow executor, tool loop, faults |
| `ReportFeed` | abstract: what the workers promise the API process about reports |
| `ValidationTask`, `MCValidationTask`, `BackgroundProofs` | change of an interface, task, retries; **implements** `ReportFeed` |
| `InterfaceChannel`, `MCInterfaceChannel`, `ClientsProofs` | the WebSocket channel; **EXTENDS** `ReportFeed` as its environment |
| `OntologyStore`, `MCOntologyStore`, `OntologyStoreProofs` | one transaction per request on the ontology's rows and graph |
| `TopologicalOrder` | the depth-first search that sorts a graph, call by call |
| `Workshop`, `MCWorkshop`, `WorkshopProofs` | one run of an app: sort, nodes, transaction; **EXTENDS** `TopologicalOrder` |
| `ActionExecution`, `MCActionExecution`, `ActionExecutionProofs` | executions of action types and functions, by endpoints and executor |
| `Guardrails` | what the checks find in an answer, and take out of it |
| `TenantSettings` | prompt templates and budgets; **EXTENDS** `Guardrails` for the texts |
| `LlmCalls`, `MCLlmCalls`, `ClientsProofs` | chat, stream and RAG with guardrails, rate limit and usage; **EXTENDS** `TenantSettings` |
| `OntologyDag`, `MCOntologyDag`, `OntologyDagProofs` | the graph of definitions and the four searches over it |
| `OntologyChecks`, `MCOntologyChecks`, `OntologyDagProofs` | the requests that check all definitions; **EXTENDS** `OntologyDag` |
| `Platform` | the API process and its clients of the services |
| `DecisionFlows`, `MCDecisionFlows`, `BackgroundProofs` | flows, their background tasks and records; **EXTENDS** `Platform` |
| `Filters`, `WorkshopProofs` | the comparisons of a Filter node, and the values they compare |
| `RuleExpressions`, `MCRuleExpressions`, `WorkshopProofs` | two small interpreters against what they stand in for; **EXTENDS** `Filters` |
| `Accounts`, `MCAccounts`, `AccountsProofs` | registration, login, the tenant of a request |

A proof module may serve several modules: there are as many as one can check in a few minutes
each, not one per component.

Conventions. History variables (marked "history" where they are declared: `disturbed`,
`overlap`, `missed`, `stored`, `stalled`, `troubled`, `crowded`, `overlapped`, `hit` and the
like) record what happened and guard nothing the code does; `MaxFaults`, `MaxChannelFaults`,
`MaxConnects`, `MaxOutages`, `MaxRestarts` and `MaxChanges` bound the environment, never the
program. Where modules extend one another, the composed run explores both together. A definition
preceded by "Mutant of X" is a plausible bug put in place of X to see that a property notices;
no specification uses it.

## 3. AgentEngine

**State.** `store` is Redis (`agent_session:{tenant}:{session}`). Each request has
its own `AgentSession` object (`session`), a program counter `pc`, the
`current_node` of `_run_workflow` (`node`), the iterations left (`left`) and the
kinds of steps it recorded (`steps`). A conversation is the set of user messages
in it, named by the request that sent them.

**Actions.** One step is what a request does between two awaits that touch the
session store. `Arrive` chooses endpoint, agent and session; `Find`, `Load`,
`SaveRunning` are the openings of the endpoints and of `run`; `InterruptRead`,
`InterruptMark` are the two halves of `POST /interrupt`. The workflow executor has an
action per node type (`EndNode`, `HumanNode`, `ConditionNode`, `ActionNode`,
`SearchNode`, `LlmNode`, `LlmNodePause`, `LlmNodeError`), all of which pass the
step bound through `Advance`; the tool loop has `LoopAnswer`, `LoopError`,
`LoopBadAnswer`, `LoopTools`, `LoopPause`; `Finish` and `Fail` are the ends of `run`.
Faults: `Disconnect` (the client of a stream goes away and cancels the generator),
`Crash` (the API process restarts), `Expire` (the key's time to live), and failed
accesses to Redis inside `Save` and `Loads` (which the code logs and survives).

**Decisions that come from the code.**

- The branch "unknown node type" of the executor is left out: only the default
  agents are registered, and they use the six known types.
- A search node always fails: `str.format` is given `user_input` twice.
- Condition expressions are evaluated with no builtins, so an expression that
  calls `len` raises, and the handler counts that as false.
- `POST /run` with a `session_id` ("rerun") always answers 500 after the engine
  has run: the response model wants a string and gets a UUID.
- `LoopPause` may answer an error: an LLM that calls tools may send no text, and a
  response without output cannot be built.
- A node of type "llm" in an agent with human-in-the-loop pauses, and the executor
  then overwrites that with "completed". No default agent has both; the bounded
  instance adds one (`Poller`).
- A tool or an action node that reaches `ActionExecutor` inserts a log row without
  `executed_by`, a NOT NULL column. The failed flush leaves the database session unusable,
  so `get_db` cannot commit, and a request that is no stream is answered 500 although its
  agent session is stored as completed (`Answer`).
- Reading the status has no effect and is no action. One access to Redis is one
  atomic step. There is one uvicorn process, so a crash ends all requests.

**Properties.** `RunningHasOwner`, `ReplyIsStored`, `TurnsKept`, `RunningSettles`
(liveness). `faults = 0` or `disturbed` appears where the code really gives no
guarantee after a crash: nothing sweeps a session left at "running".

**Fairness.** WF of each request's own progress: the event loop runs every
coroutine that is ready, and an LLM call ends after its timeout of 60 seconds
(`llm_gateway.py:26`). Nobody has to send a request, and no fault has to happen.

## 4. ValidationTask, ReportFeed and InterfaceChannel

Saving an interface enqueues `validate_all_interfaces`; a worker validates the
tenant's types, stores the report under the `latest` key and publishes it; the API
process pushes it to browser tabs. The chain is cut in two at Redis:

    ValidationTask  ==implements==>  ReportFeed  <==extends==  InterfaceChannel
      (changes, tasks, retries)    (store, then close)     (tabs, loops, broadcasts)

`ReportFeed` says that a report is stored once, then published once or given up, and that no more
are in between than there are worker processes. `ValidationTask` is shown to implement it
(`FeedKept`, with `pending <- Pending`, the reports its workers have stored and not yet
published; `stored` is history in both), and `InterfaceChannel` EXTENDS it: what it assumes of the
workers is `StoreReport`, `CloseReport` and `ExpireLatest`, with no guard of its own but the
bound on faults. So
`FreshWins` and `ChangeReported` on the worker's side and `CatchUp` on the
channel's side hold together of the composition, without its product having to
be explored. So do the theorems `ReportsTellCommitted` (a stored report tells of committed changes
only, although its task was enqueued before the commit) and `TabsShowStored` (a tab shows only what
was stored): no tab ever shows a change that was rolled back.

**ValidationTask.** `Submit` is the handler: flush, then `delay()`, before the commit
(archiving enqueues nothing). `Commit` is `get_db` after the handler has returned.
`Take` reads the database, `Store` writes the report (`setex`), `Publish` publishes
it and ends the attempt (`End`): success, retry, or failure after `MaxRetries`. A
validation that fails is free and bounded by the retries; a failed report is
stored and published too. The broker may hand out waiting tasks in any order, and
a task whose worker dies is lost. What a validation says is abstracted to which
committed changes it read.

`FreshWins`: when all is quiet, the latest report saw each change whose task ran
after the commit. It is excused by a fault, by two attempts at once (the older
view may be stored last), by a task that used up its retries, and by a task that
read before the commit; each excuse is something the code does allow.
Fairness: a request that began ends (`Commit`); a free worker takes a task that
waits and finishes it (`Worker`).

**InterfaceChannel.** Each tab has a subscribe loop and a poll loop; either
broadcasts to all clients, and the channel remembers the report sent last.
A broadcast is one step unless a client that does not read suspends it half-way
(`Broadcast`, `Resume`): then `stalled` is set, and what the tabs show may differ for
good. Each report has a text of its own (`completed_at`, and in `ValidationTask` its task and
attempt), so each is stored once; that is part of `ReportFeed`, as the channel tells reports apart
by their text.
Fairness: the event loop runs each loop that is ready, and a client that does not
read is cut off in the end. Nothing is assumed of workers or tabs.

## 5. OntologyStore

**State.** `types` are the rows of object types with the columns that requests
change; the other kinds of row are only ever inserted, so `committed` (the requests
whose transaction committed) is enough for them. A row is named by the request
that creates it, as is its node or relationship in Neo4j (`graph`). `loaded` is the
row in the session of a request.

**Actions.** `Check` and `Load` are the reads of a handler with the early returns
(404, 409, and the 500 of `scalar_one_or_none` given two rows); `Draw` is the Neo4j
statement, which takes effect at once; `Write` is flush and commit. Flush and commit
are one step because an UPDATE locks its row until the commit, an INSERT is
invisible before it, and the tables have no unique constraint that would make one
wait for another. `Merged` is SQLAlchemy's UPDATE: only the columns that differ from
those loaded. `DrawFails`, `WriteFails` (rolled back, or committed and not heard of)
and `Restart` are the failures.

**Decisions that come from the code.**

- A required property without a validation makes `compile_object_type` raise an
  AttributeError, recorded as "error"; no validation has a field `unique`, so the
  compilation never reaches Neo4j.
- Neo4j refuses maps as property values; whether creating a node succeeds is
  left open (`DrawFails`), so every run includes both.
- A relationship hangs on a MATCH: when an end is missing nothing is drawn, and
  nothing is said.
- Link creation checks neither that the objects' types fit the link type nor its
  cardinality, so the model has no such guard.
- `missed[r]`, the requests that committed after r read, counts changes that wrote
  nothing (archiving what is archived) as well: `Raced` is a little wider than
  needed.
- Creating an action type looks for its name before it looks for its object type, the
  other handlers do it the other way round: `CheckActionType` is an action of its own.
- `docker/postgres/schema.sql` has unique keys, but a deployment runs `init.sql` and
  `Base.metadata.create_all`, which have none.

There is no liveness here: no handler waits for another.

## 6. Workshop

**TopologicalOrder.** `topological_order` is a recursive function; its calls are frames
of `stack`, each with the edge it looks at next. `Start` and `Skip` are the two loops over
the nodes (first those without incoming edges, then those still white), `Follow` a
recursive call, `Leave` a return. Ids that only an edge names are searched like nodes, as
in the code. That a graph has a cycle is stated without paths: no numbers of the ids
fall along every edge (`Heights`).

**Workshop.** `Load`, `Create` (the execution row, whose foreign key fails when the app is
gone and locks it when it is not), `Search` (a step of the sort), `Prepare`, an action per
node type for the node that is `Due`, `Commit`. `Delete` runs beside it. Node output is
abstracted to absent, empty or some items: whether items are there decides
what filters, charts and actions do. Faults: the connection to PostgreSQL is lost
between two statements or in the commit, or the process restarts.

**Decisions that come from the code.**

- An action node that finds an object upstream calls `ActionExecutor` without a user; the
  failed flush rolls back and deactivates the transaction. Nodes that need the database fail after
  it, filters and charts do not; the locks are gone, so `Delete` may go ahead; and the
  commit fails.
- PUT is no action: the graph chosen in `Init` is the one the request reads, whatever was
  saved before. Runs of one app share no row they write and hold compatible
  locks, so there is one.
- Ids are strings, as the editor makes them; a graph deeper than Python's recursion
  limit is not considered.

**Properties.** `CycleIsReal` (and, proved, its converse `EdgesDescend`), `UpstreamFirst`,
`AnswerIsStored`, `RunAnswered`; `StatusTold`, the state machine of `docs/API-SPEC.md`, is proved.
Fairness: the request itself goes on, as the event loop resumes it after each statement.

## 7. ActionExecution

**State.** A request has a program counter `pc`, the properties its session read (`seen`),
whether an UPDATE was flushed (`dirty`) and the status its log row is to have (`verdict`).
PostgreSQL has the objects (`stored`, a property is named by the request that wrote it), the
log (`rows`) and the row locks (`lock`); the process has the functions' subprocesses
(`processes`) and the event loop, which an endpoint that waits for one blocks (`loop`).

**Actions.** `Open` is the look-up of `execute_action` and `test_function`, `Submit` the one of
`ActionExecutor.execute`; `Reject`, `Deny` and `Admit` are rules and policy, which only the
executor asks; the modes are `ReadObject`, `Modify`, `Misread`, `Touch`, `SyncGraph`
(direct; `Written` is what a commit stores), `Workflow`, and `Unbacked`, `SyntaxError`, `Launch`, `Exit`, `Timeout` (function).
`Commit` is `get_db`; `CommitFails` and `Restart` are the failures; `Linger` is a process
nobody waits for.

**Decisions that come from the code.**

- The endpoint changes the JSON object it read in place and assigns it to itself. SQLAlchemy
  compares by identity and sees no change, unless the object was empty and `or {}` gave a
  new one (`Stores`): only the first direct execution on an empty object is stored.
- The executor's response lacks required fields, so each of its executions ends as "failed"
  (`Ending`), whatever it did; a type with rules fails earlier, as `RuleEvaluation` is
  built with a field it does not have; the status "blocked" violates a constraint, so a denied
  execution leaves no row (`Deny`).
- `subprocess.run` kills a process at its time limit, `asyncio.wait_for` only stops
  waiting for it (`Killed`).
- The executor looks a node up by `elementId` with an id PostgreSQL made up, and finds none.

**Properties.** `AuditIsTrue` (log, answers and objects fit together), `ProcessesInBounds`,
`ChangesStored` (an execution that was answered as success is on the object, if that was empty when
it was read, whatever other executions were under way), `EveryCallAnswered`. An object that had
properties keeps them and the execution is answered as success all the same; section 15 has that.
Fairness: WF of each request's own step, as the event loop, PostgreSQL's lock queue and the time
limits give it; nobody has to ask, no process has to end by itself, nothing has to fail.

## 8. LlmCalls, TenantSettings and Guardrails

**TenantSettings** has the templates of one name and the tenant's budget. Each request reads,
computes and writes absolute values (`ReadUsage` and `StoreUsage`, `GetPrompt` and `StorePrompt`,
`LoadBudget` and `WriteBudget`); `Merged` is the UPDATE of the columns that differ from those
read; `CreatePrompt`, `InsertPrompt` meet the partial unique index (`Collides`).

**LlmCalls** adds the endpoints `/aip/chat`, `/aip/chat/stream` and `/aip/rag/query`: the check of
the input (`OpenCall`), the template (`RenderTemplate`), the rate limit in two steps (`ReadCounter`,
`SetCounter`), the model (`AskModel`, `StreamModel`), the check of the output (`CheckOutput`), the
usage (`RecordUsage`), the commit (`Finish`), and a client that goes away (`Disconnect`).
`LogCheck` is `log_check`: it commits the session it is called in, and when it fails it leaves the
session unusable, which the rest of the request finds out (`broken`).

**Guardrails** is `check_output` as operators over what its patterns tell apart:
scores in hundredths, and which pattern matches which datum, in whole or in part.

**Decisions that come from the code.** The gateway's own log row cannot be built and is never
written. A stream starts after `get_db` has committed. A RAG query makes two calls to the gateway.
The counters of other models and minutes have other keys and are left out.

**Properties.** `RateIsLimited`, `OnlyOverlapsLose` (usage counts and version names),
`BudgetIsKept`, `AnswersAreAudited`. Each says what the unlocked read and write still
guarantees, and that nothing but an overlap costs more. No handler waits for another: no
fairness.

## 9. OntologyDag and OntologyChecks

**OntologyDag** is the class `OntologyDAG`: `AddNode`, `AddEdge`, `RemoveEdge`, `RemoveNode`, and
the searches as machines that look at one node or edge in a step: `find_cycle` (`Root`,
`Descend`, `Pass`, `Leave`, `Found`, `NotFound`), `topological_sort` (`Sort`, `Take`, `Sorted`,
`SortFails`, which goes on to `find_cycle`), `get_impact_set` (`Spread`) and
`get_dependency_chain` (`Climb`). A Python set is iterated in any order (`Orders`).

**OntologyChecks** puts it behind the endpoints that judge a tenant's definitions. A request reads
its tables one after the other (`ReadTypes`, `ReadLinks`, `ReadForGraph`, `ReadForValidator`,
`ReadInterface`, `ReadForInterface`) while definitions are committed in between (`Change`), builds
the graph (`Build`) and searches it with the machines of `OntologyDag`.

**Properties.** `Mirrored` (both directions of the graph, and no edge without its nodes),
`CyclesTold`, `ClosureRight`; `CycleIsMisuse` (only a type that implements a type or link
type makes a cycle), `ReportOfAMoment` (a report was or is true unless two definitions changed
meanwhile), `ChecksAgree` (the two validators of interfaces). No fairness: a search
that is not continued is of no interest.

## 10. Platform and DecisionFlows

**Platform** is `lifespan` in `main.py`: each client is connected once, in order, and a failure
is logged (`StartClient`); `HealthCheck` reads flags of the start; `BeginClosing`, `CloseClient`, `Kill`,
`StartAnew`; services go down and come back (`Outage`, `Recovery`).

**DecisionFlows** has flows as Neo4j nodes, execution records in Redis or, when Redis was not
there at the start, in the memory of the process (`fallback`), and for each request how far its
background task is (`job`): `StartExecution`, `ReadRecord`, `FinishExecution`, and after a
failed access `ReadToFail`, `FailExecution`.

**Decisions that come from the code.** Neo4j takes no list of maps as a property, so a flow with
steps is refused (`CreateWithSteps`) and an execution goes from its first record to its last. The
execution id that is answered is not the one the record has (section 15), so both are in
`ExecutionIds`. A client that connected at the start
works whenever its service is up, one that did not never does.

**Properties.** `RecordsSettle`, `FlowsAsAnswered`, `JobsEnd`, and `HealthForetells`: what GET /health told
of Neo4j is what the next requests meet, as long as Neo4j is now what it was when the process
started. The last condition is what the check is worth; section 15 has what it is said to be.
Fairness: WF of `JobStep` alone: a background task goes on as long as its process serves; the
process may be killed, services may stay away.

## 11. RuleExpressions and Filters

The expressions of an action type's rules (`SafeExprEvaluator`), the policies of the embedded OPA
evaluator (`_SafeEval`) and the comparisons of a Filter node, on syntax trees as `ast.parse`
returns them. A tree is written as the sequence of its nodes, each after its parts, which it names
by their places (`Tree`, `Shaped`); the value of every node is a recursive function on these places
(`Values`), and what one node makes of the values of its parts is an operator without recursion:
`VisitNode` for the rules, `Evaluate` for the policies, `Python` for what `eval` would make of them.
`MCRuleExpressions` puts such sequences together from smaller ones (`Over`).

`RuleAsPython` compares the first with the last; `PolicyByLines` says which policy denies when
lines are joined and evaluations fail. `Joined` gives the truth of the lines joined by the word
"and": a line is the sequence of its "or" operands, so a term of the whole begins with an operand
after an "or", or with the very first, and runs on through the lines that follow (`Begins`, `Term`).

`Filters` is the Filter node: a property and the filter's value are read as numbers or flags where they can be (`coerce_compare`) and compared
(`eval_filter`). `FiltersPartition` says how operators complement each other, values that cannot be
ordered included. Lists and maps as property values are left out (`Comparand`).

**Decisions that come from the code.** A list is ordered by the first elements in which it differs
from another, which may be lists themselves (`Deciders`; `Nesting` bounds how deep); a dictionary is the sequence of its
keys, of which membership is asked (`Compared`), and what cannot be hashed is none. `ValidateRule`
evaluates the first rule of a type and raises then, as the record it builds lacks a required
field: no later rule is ever evaluated, and nobody hears what the first is worth. The lines of a
policy are joined before they are parsed, so a comment behind one of them swallows the lines after it
(`Reached`), and a line that is only a comment does not parse.

The values of `Values` were compared with those of the two Python classes on 12,000 random
expressions outside of this project, with no difference.

## 12. Accounts

**State.** `users` is the table; `call`, `pc`, `told` and the token issued (`token`, `expired`) belong
to requests; `bearer` is the login whose token a request carries, `resolved` the tenant the
middleware sees, `served` the one of `get_current_user`.

**Actions.** `OpenRegister`, `CheckName`, `Store`, `StoreFails`, `AnswerRegister`; `OpenLogin`, `Login`;
`OpenMe` (with the middleware), `Decode`, `LoadUser`, `ReadFails`; `Expire`.

**Decisions that come from the code.** `Store` commits in its own transaction before the answer is
built; building it raises when no tenant was named. Two registrations of one name that both found
it free meet the unique keys of the table. An address is checked by its key only. The middleware
accepts an expired token, `get_current_user` does not.

**Properties.** `RegistrationAnswers` and `ServedAsRegistered`. No fairness.

## 13. Runs

| Run | Instance | Distinct states | Shows |
|---|---|---|---|
| `agent_engine` | 3 requests on one session, `MaxSteps` 3, 1 fault | 192,427 | who owns a running session, what an answer is worth, which messages are kept, that runs end |
| `validation_task` | create, update, archive; 2 workers, 1 retry, 1 fault | 194,259 | what the latest report covers; the refinement |
| `interface_channel` | 2 reports, 2 tabs, 2 connections each, 1 fault | 129,586 | tabs agree, and catch up |
| `ontology_store` | 5 requests about one type, 2 names, 1 fault | 1,175,891 | keys, graph, compile status, archive |
| `workshop` | 276 graphs of up to 5 edges, 1 fault | 22,475 | the sort, the order of the nodes, status and storage of a run |
| `action_execution` | 2 executions out of 54, 2 objects, 2 properties, 1 fault | 106,215 | log, processes, stored changes, answers |
| `llm_calls` | 3 requests out of 11, limit 2, 2 templates, 1 fault | 486,600 | rate limit, usage, versions, budget, the guardrails' log |
| `ontology_dag` | all graphs of 4 definitions | 471,920 | the graph and its four searches |
| `ontology_checks` | 2 object types, a link type, an interface, 2 changes | 991,933 | what the verdict of a check is about |
| `decision_flows` | 2 requests and an old flow, 1 outage, 1 restart, Neo4j there or not | 545,643 | records, flows, what the health check is worth |
| `rule_expressions` | about 18,000 rules, 11,500 bundles, 11 values | 71,974 | the interpreters and the filters |
| `accounts` | 3 requests, 2 names, addresses, passwords and tenants, 1 fault | 441,920 | accounts and the tenant of a token |

The type invariants are not in the runs' configurations; they are proved (of `OntologyDag` and
`OntologyChecks`, the part the proofs need).

Why the bounds are enough. Three requests on one session are a run, its
interruption and a run that resumes or overlaps it; sessions do not interact, so
one is as good as many; `MaxSteps` 3 takes each
default agent from its entry to its end or its pause, and lets a workflow that loops run
into its bound. One fault reaches each of the
faults at each place, and no property relates two faults. Three changes let two
tasks run at once and a third change fall between; one retry separates a failure that is retried
from the one that is not. Two tabs are what it takes for one to see
what the other does not. Five requests are an object type, two changes of it that
race, and two more that meet them, or three objects, a link type and a link. The graphs of
`workshop` are all with up to two edges between three ids over three lists of nodes, and a
diamond, a cycle no root leads to, and a chain drawn backwards with a doubled edge; four
definitions in `ontology_dag` hold a diamond, two cycles that share a node and a cycle with a
way into it. Two executions are two on one object, one after the other or both having read it,
or one whose function blocks the other. A limit of two calls and three requests, of which a RAG
query makes two calls, go past the limit with overlaps and without. One change between
two reads is what `ReportOfAMoment` allows, and two are what it excuses. Three registrations or
logins are two rivals, and a login or a request after them.
What does not depend on the bound is proved (section 14).

`CHECK_DEADLOCK FALSE` in each configuration but that of `ontology_dag`: the environment
may send nothing more, and then the system is at rest.

Symmetry (of requests, names, definitions) is used in `llm_calls`, `ontology_dag` and `accounts`,
which check no liveness.

## 14. Proofs

Each theorem holds for all values of the constants under the named assumptions in
the modules (`AgentAssumption`, `TaskAssumption`, `ReportAssumption`, `FeedAssumption`,
`ChannelAssumption`, `StoreAssumption`, `GraphAssumption`, `WorkshopAssumption`,
`FilterAssumption`, `RuleAssumption`, `ActionAssumption`, `SettingsAssumption`, `LlmAssumption`,
`DagAssumption`, `ChecksAssumption`, `PlatformAssumption`, `FlowsAssumption`, `AccountsAssumption`): registries of any
shape, any number of requests, sessions, tabs, changes, workers, retries, faults, outages and
restarts, any rate limit, graphs, ontologies, expressions and policies of any size. They say what
kind of thing a constant is (a syntax tree is a tree), that sets which are counted are finite, and
that special values are none of the ordinary ones;
TLC evaluates each of them in a run.

Every invariant and action property that a run checks is stated by a theorem.

**AgentEngineProofs.** `TypeInv` adds to `TypeOK` that a run in its loop has
iterations left (`IterationsLeft`): without it the count could fall below zero. `Safe`
is `RunningHasOwner`, `ReplyIsStored` and `TurnView`: a request that will
still save and is not disturbed has every stored turn in its own copy.
`TurnView` is what makes `TurnsKept` inductive: the property speaks of the moment of the
save, its reason is what the request saw when it loaded. Theorems: `TypeCorrect`,
`RunningIsOwned`, `ReplyStored`, `TurnsAreKept`.

**BackgroundProofs**, for `ValidationTask` and `DecisionFlows`. `ReportsTellCommitted`
rests on `CommittedInv`: what was read, and what was reported, is committed. `FreshReportWins` uses
`FreshInv`, which claims something only of behaviours with no fault and no overlap so far
(`Undisturbed`): each change not yet covered has a task there is still to come, what was
committed was asked for, what a task read was committed, one task runs at a time, and the
running one, or else the latest report, has the freshest view (`TasksThere`, `CommittedAsked`,
`ReadsCommitted`, `OneAtATime`, `RunnerFreshest`, `LatestFreshest`). `RequestFirst` is separate:
a task exists only for a request that was sent. `ImplementsFeed` maps each step to a step or a
stutter of `ReportFeed`; `BusyBounded` and `RoomToReport` show that there is room for the report
that is stored, and `StoredBefore` that it is a new one: what was stored is of an earlier
attempt of its task, or the task has reported.

For the flows, `FlowsInv` has three parts that a step of one kind disturbs one at a time:
`ProcessInv` (a client is connected when its service answered at the start, and as long as the
process serves), `FlowsAre` (`FlowOf`: what is stored was created and answered, and who deletes a
flow asked after its creation was answered) and `RecordsAre` (`RecordOf`: in which of the two
stores the record is, at each point of the task). The last is the reason for `RecordsSettle`: the
property speaks of tasks that have ended, and needs to know that a task writes to one store from
its beginning to its end, which holds because a client is connected at the start or never.
`HealthForetold` is about one step: a statement for Neo4j meets its client and whether Neo4j is up
(`CypherMeets`), a process that serves has the client as it was made at the start, and what
GET /health told is the flag of that client (`ConnectedAtStart`). Theorems: `ExecutionsSettle`,
`FlowsStayAsAnswered`, `HealthIsForetold`, `FlowsTypeCorrect`.

**ClientsProofs**, for `InterfaceChannel` and `LlmCalls`. `AgreeInv` adds to `TabsAgree` that no
broadcast is half-way as long as none was suspended. `ToldInv` says that nothing but stored reports
is on any way to a tab: in the key, in a subscription, read by a poll, or in the rest of a broadcast.

For the calls, `CallsInv` is in three layers. `SettingsHold` is about templates and budget: a
request holds a column exactly between its read and its write (`Opened`), and all that hold one
at once are marked as overlapping; so a request that is alone writes back one more than what is
there. Counts cannot be compared step by step, for a late write may put back an old value. What
does hold is a bound on both sides, of what is stored and of what each request has read
(`UsageOf`): no less than the recordings that were alone, no more than all of them. `VersionOf`
says the same of version names: an update that was alone has a name no other update that was
alone has, and none higher than what is stored or has been read. `BudgetOf` says that a field
which is not as last asked belongs to a request that overlapped. `LimiterInv` is about
`_check_rate_limit`: the counter lies between the calls let through alone and all calls let
through, as do the values read and not yet written back (`Counts`, `CountOf`), which makes the
bound of `RateIsLimited` an induction on the steps and not on the calls; `Fresh` keeps a call
from being let through twice. `AuditInv` says at each point of a request what it has logged by
then, unless its session is broken; `KeptIsPlain` adds what `check_output` leaves in an answer.
Steps that write nothing (`Advances`, with `EndsAdvance`, `MovesAdvance` and `OpensAdvance`) are
treated once for all actions. Theorems: `CallsTypeCorrect`, `OverlapsLose`, `BudgetStays`,
`RateStaysLimited`, `AnswersStayAudited`.

**OntologyStoreProofs.** `UniqueKeys` rests on `ClashesSeen`: a creation under way has
each row that clashes with it in `missed`, for it found none when it looked.
`GraphKeepsStep` rests on `NeedsFound` (what a request refers to is there) and
`DrawnFirst` (a creation that reached its write has been drawn).
`CompileStatusMatches` and `VersionsCounted` rest on `LoadedFresh`: a request that
missed no change of the type has the row as it is now; and on `TypesSound`, the two
properties themselves. The version may go backwards in a race, so the theorem on
it is about the bound and about the races. `ArchivedTypesStay` is an action property
from the same invariant.

**WorkshopProofs.** `OrderInv` is the invariant of a depth-first search: the
gray ids are those of the stack, each once (`FramesDistinct`, `GrayOnStack`); a frame's
passed edges lead to black ids or to ids entered later (`EdgesPassed`); heights fall along the stack
(`HeightsFall`), so an edge back into it contradicts them, which is `CycleIsReal`; and
when a frame returns, its edges all lead to black ids with lower numbers, which is
`EdgesDescend`. `VisitStep` says this once for the first call and for recursive ones.
The run adds `Progress`: the nodes that have run are those with a number of at least `turn`.
`RunsUpstreamFirst` follows from it and `EdgesDescend`, `StatusIsTold` from it and
`NodesVisited` (no node is left white). `FiltersSplitItems` is about `Filters`, alone: `FilterInv`
says what has been answered so far, `Trichotomy` how two values that can be ordered compare.

The same module has the proofs about `RuleExpressions`, for expressions of any shape and depth.
`ValuesDefined` shows that the recursive function `Values` satisfies its own equation: where it did
not there would be a least number of nodes without a solution (`LeastNumber`, from the well-founded
order of the numbers), and the solution for one node fewer extends to it. `AgreeNode` is one node:
`ExactNode` (no part holds a long join: the values are the same), `AlikeNode` (none is read by its
value: they are as true), `FailingNode` (Python fails too); `ChainIsAnd` has the
comparisons, `DecidingSame` and `DecidingAlike` the joins. `AllAgree` goes through the nodes, again
by the least one that would not agree. `LinesHold` is about joined lines: if each line has a true
operand, take the last line whose true operand begins a term; the lines after it have no other
true operand than their first, so the term that begins there is true. What is parsed of a policy
are its first lines (`ReachedIs`, `ParsedIs`), to which this applies. Hence what denies has a false
line (`DeniedByLine`), and where lines have no "or" a false line denies (`FalseLineDenies`).
`JobInv` says of a call what has been evaluated so far and that the verdict of a bundle is that of
the first policy that denied. `RulesAsPython` and `PoliciesByLines` follow.

**ActionExecutionProofs.** A step is one request's own (`OthersStay`), and only a commit shows
anything to others (`OnlyCommitShows`). `Local` says of a request what it is about to commit: before
its end it has told nobody and shown nothing (`Unfinished`), and what it has flushed is its own
change of an empty object, with the status success (`Flushed`). That makes `AuditInv` inductive:
`AuditTold` follows. `ChangeInv` adds that an execution of direct mode which ends as success has
flushed its change if it found the object empty (`Chosen`), and that what is stored was named by its
execution (`StoredNamed`). A later commit on the object either names the same property, or comes from an
execution that read the object before this one was stored: `ChangesAreStored`. `Bounded` adds that whoever is past the gate was let
through it, and that an endpoint's process holds the event loop, which gives `ProcessesBounded`.

**OntologyDagProofs.** `GraphInv` gives `GraphMirrored`. `SearchInv` is the invariant of
`find_cycle`: the calls under way are the gray nodes, each called from the one before it
(`Calls`), what they looked at is black (`LookedAt`), and nothing black leads out of what is
black nor to itself (`BlackClosed`, `BlackAcyclic`). `PathIsCycle` turns an edge back into the
stack into the cycle that is told. `Sorting` is that of `topological_sort`: a degree counts the
dependencies not taken yet, and the queue holds what waits for none. When the queue runs empty
early, each node left waits for another that is left; `NoFirst` takes one whose set of ancestors
is least among them (strict inclusion is well founded on finite sets), and it is its own
ancestor: there is a cycle, and the search that follows cannot end without it (`Stuck`). That
gives `CyclesAreTold`. `Spreading` and `Climbing` are the invariants of the breadth-first
searches: all that was found is reached, and what follows from something found is found or still
in the queue. An empty queue makes the found set closed, which is `ClosuresAreRight`.

The requests of `OntologyChecks` use all that of the graph they build (`DagInv`). `ChecksInv`
adds that the graph searched is that of the tables as they were read (`GraphBuilt`), that as
long as one definition changed at most, what was read of each table is what it was or what it
is, and only one table has two such versions (`ReadOfAMoment`), so all that was read is the one
or the other state as a whole; and what the last answer was about (`Answered`, `ReportOfRead`).
`ReportsAreOfAMoment` follows from these and from the fact that what is wrong with some tables
depends on nothing else. `CyclesAreMisuse` takes the cycle that was told and goes along it:
interfaces, types and links depend on one another in one direction only, unless an object type
or link type is implemented. `ValidatorsAgree` unfolds what the two look at.

**AccountsProofs.** `AccountsInv` relates each row to the registration that stored it
(`StoredAsAsked`), each registration to what it may still answer (`Registering`), and each token
to the login behind it and to the row that login read (`LoggedIn`, `Carrying`). No row ever
changes (`RowsKept`), so what a login read stays true.

Only model-checked: the liveness properties (`RunningSettles`, `ChangeReported`, `CatchUp`,
`RunAnswered`, `EveryCallAnswered`, `JobsEnd`), as the prover has no rule for fairness.

## 15. Where code and documents disagree

Found while modelling; the models do what the code does. Paths are under `src/backend/app/`,
those of the change log and of `docs/` under `src/`.

Agents and validation:

- The Action Agent is said to pause for confirmation before acting; the loop runs the tools
  and pauses afterwards.
- An interrupt writes a copy of the session; the run in flight never looks, and its next
  save overwrites the status. A resumed workflow starts at the human node it paused at, and
  pauses there again.
- A run without a session id answers with a trace id that is its session id; one with a
  session id answers with another (`services/agent_engine.py:300`).
- What the tools of a stream flush is never committed (`routers/aip.py:539`).
- The validation of interfaces is enqueued before the commit, so a quick worker validates the
  old definitions and nothing validates the new ones.
- The tasks for documents and for compilation work in sessions that nobody commits
  (`worker/tasks.py:243`, `391`), and report success.

Ontology:

- The design calls `version` an optimistic lock; nothing compares it.
- `get_dependency_chain` (`services/ontology_dag.py:150`) promises an order from the roots; it reverses a
  breadth-first order, which is none on a diamond with unequal sides. `ClosureRight` says what
  it does give.
- Implementing an id that is no interface is not refused, and is the only way to a cycle
  (`CycleIsMisuse`).

Actions, policies, workshop:

- A direct action modifies the object's properties (`docs/PRD-v2.0.md:92`, FR-ONT-013: written back at
  once to PostgreSQL and Neo4j; `services/action_executor.py:318`), and the endpoint answers
  success with the properties it updated. The dictionary is changed in place
  (`routers/ontology/actions.py:234`), so an object that had properties keeps them as they were, and
  Neo4j is not asked. `ChangesStored` has the condition `seen[r] = Empty` for this reason: without
  it TLC finds an execution answered as success whose property is nowhere, in five states; with a
  copy of the dictionary in `Stores` the property holds without it.
- The rules of an action type are validated one by one, and the answer lists their evaluations;
  the first one ends the execution, because `RuleEvaluation` is built with names it does not have
  (`services/action_executor.py:309`).
- Each non-empty line of a policy is said to be a conjunct (`services/opa_client.py:120-122`); a comment
  behind a line swallows the lines after it, and a line that is only a comment empties the bundle.
- Rules may call `len`, says the docstring (`services/action_executor.py:35-37`); every call raises.
- The policy syntax with `&&`, `||` and `!` that `services/opa_client.py:31-39` documents does not
  parse; the bundle is dropped, and everything is allowed.
- An action node that finds an object breaks the transaction of the whole run; the client gets a
  500 and no execution is stored, where the workshop executor promises a row that says "partial".

LLM calls:

- `CHANGELOG.md:22` says a row is kept for every check; the log is best effort.
- The log row of an output may say "blocked" when the output was delivered all the same. A single
  kind of personal data is neither counted nor taken out, and overlapping patterns leave rests
  of a number.

Flows and accounts:

- GET /health is called a "health check endpoint with actual service connectivity checks"
  (`main.py:257`) and is to return the state of each service (`docs/ACCEPTANCE.md:134`, `226`). Only
  PostgreSQL is asked; of Neo4j and RabbitMQ it tells whether they answered when the process started,
  of MinIO whether a client object exists. `HealthForetells` states what is left of it; that what is
  told unhealthy is down, and what is told healthy is up, TLC refutes in eight states.
- The execution id answered (`routers/decision_flow.py:315`) is not the record's (line 122), so
  polling, as `CHANGELOG.md:47-50` describes it, never finds it.
- A registration that names no tenant is answered 500, and the account is there.

## 16. Not modelled

- **Compilation.** `POST /ontology/compile` always answers 500: its log row lacks a column the
  ORM requires, so nothing comes before its first stage. The compile task calls
  `CompilationPipeline.run_full`, which always raises a TypeError. Incremental compilation and versioning
  have no caller, and the schema registry none that gets as far.
- **Ontology service.** Its methods that create or change rows have no caller; those
  that read are in `OntologyChecks`.
- **Search and documents.** Nothing fills the vector collection and graph nodes have no
  `object_id`, so semantic search is always empty; the subgraph endpoint answers 404 or 500; an
  upload calls the storage with arguments it does not take, so no document exists; creating
  a node of the knowledge graph raises.
- **Celery tasks** other than the validation: sessions that are never committed, an import that fails
  with the pinned RestrictedPython, a flow task that is never enqueued.
- **Single sign-on** forwards to Keycloak and keeps nothing. The message queue client is
  connected (in `Platform`) and never used.
- **LLM cost reports** are sums over rows that are only ever inserted, by a gateway that fails
  to (section 8).
- Metrics, the frontend, deployment scripts: no state of their own that several steps could
  break.

Contents of messages, prompts, properties and reports are abstracted in all modules to what
the properties tell apart.

## 17. What is left

1. The composition of `ValidationTask` and `InterfaceChannel` through `ReportFeed` as one
   specification and a theorem about it; section 4 has the argument.
2. When the compilers, the document upload or the flow steps can get past the errors of section 16:
   modules for them; the compilers against an abstract compile that does all or nothing.
