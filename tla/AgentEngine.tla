---------------------------- MODULE AgentEngine ----------------------------
(***************************************************************************)
(* The agent engine and its session store: AgentEngine, AgentSession and   *)
(* the agent endpoints of the AIP router.                                  *)
(*                                                                         *)
(* A request is a coroutine of the API process.  It loads the session from *)
(* Redis into an object of its own, works on that copy across many awaits  *)
(* (LLM calls, searches, actions) and writes the whole copy back.  Nothing *)
(* ties two requests on one session together, so one step of this module   *)
(* is what a request does between two awaits that touch the session store. *)
(***************************************************************************)
EXTENDS Naturals, Sequences, SequencesExt

CONSTANTS
    Requests,   \* the HTTP requests the clients may send
    Sessions,   \* session ids (keys agent_session:{tenant}:{session})
    Nodes,      \* ids of workflow nodes
    NoNode,     \* None, where a node is expected
    Agents,     \* agent ids
    Registry,   \* the AgentDefinition registered under each id
    Calls,      \* what each request may ask: endpoint, agent and session
    NoCall,     \* of a request not sent yet
    MaxSteps,   \* max_steps of _run_workflow (50 in the code)
    MaxFaults   \* bound on the crashes, disconnections, lost writes and expiries

NodeTypes == {"llm", "search", "action", "human", "condition", "end"}

(* builtins: the condition expression calls a Python builtin such as len *)
WorkflowNode == [id : Nodes, type : NodeTypes, builtins : BOOLEAN]
WorkflowEdge == [source : Nodes, target : Nodes, condition : {"none", "true", "false"}]

AgentDefinition ==
    [nodes : Seq(WorkflowNode), edges : Seq(WorkflowEdge), human_in_the_loop : BOOLEAN,
     max_iterations : Nat \ {0}]

(* "run" opens a session of its own, "rerun" is POST /run with a session_id *)
Endpoints == {"run", "rerun", "stream", "resume", "interrupt"}
Call == [op : Endpoints, agent : Agents, session : Sessions]

(* What the handler of each endpoint does first *)
Opening == [run |-> "load", rerun |-> "load", stream |-> "load",
            resume |-> "find", interrupt |-> "read"]

ASSUME AgentAssumption ==
    /\ NoNode \notin Nodes
    /\ Registry \in [Agents -> AgentDefinition]
    /\ Calls \in [Requests -> SUBSET Call]
    /\ NoCall \notin Call
    /\ MaxSteps \in Nat \ {0}
    /\ MaxFaults \in Nat

VARIABLES
    store,      \* Redis: the saved state of each session
    call,       \* what each request asks
    pc,         \* where each request stands
    session,    \* the AgentSession object of each request
    node,       \* current_node of _run_workflow
    left,       \* iterations its loop may still make
    steps,      \* the kinds of the engine's _steps, and "tool" once a tool has run
    reply,      \* the status the client was answered
    disturbed,  \* history: requests whose session someone else changed, or whose
                \* store access failed, since they loaded it
    faults      \* history: how many faults have happened

vars == <<store, call, pc, session, node, left, steps, reply, disturbed, faults>>

Statuses == {"running", "awaiting_input", "completed", "failed", "interrupted"}
Replies == Statuses \cup {"none", "not_found", "error", "lost"}
StepKinds == {"llm", "tool", "action", "action_error", "condition", "answer", "error"}

(* turns: the user messages in the conversation, named by their request *)
SessionState == [status : Statuses \cup {"absent", "pending"},
                 node : Nodes \cup {NoNode},
                 turns : SUBSET Requests]
Absent == [status |-> "absent", node |-> NoNode, turns |-> {}]
Fresh == [status |-> "pending", node |-> NoNode, turns |-> {}]

Labels == {"idle", "find", "load", "save", "step", "finish", "fail",
           "read", "mark", "done"}

-----------------------------------------------------------------------------
(* The workflow graph of an agent *)

HasWorkflow(a) == a.nodes # <<>>

GetNode(a, n) ==
    IF \E i \in DOMAIN a.nodes : a.nodes[i].id = n THEN n ELSE NoNode

NodeOf(a, n) == a.nodes[SelectInSeq(a.nodes, LAMBDA x : x.id = n)]

(* The node edge i leads to; 0 stands for no edge *)
Follow(a, i) == IF i = 0 THEN NoNode ELSE GetNode(a, a.edges[i].target)

NextNode(a, n) == Follow(a, SelectInSeq(a.edges, LAMBDA e : e.source = n))

(* _execute_condition_node: the edge labelled with the outcome, else the first
   unlabelled one *)
Branch(a, n, passed) ==
    LET label == IF passed THEN "true" ELSE "false"
        First(condition) ==
            SelectInSeq(a.edges, LAMBDA e : e.source = n /\ e.condition = condition)
    IN  Follow(a, IF First(label) # 0 THEN First(label) ELSE First("none"))

(* The expression is evaluated with no builtins: calling one raises, and the
   handler counts that as not passed.  Otherwise it depends on the user input. *)
Outcomes(a, n) == IF NodeOf(a, n).builtins THEN {FALSE} ELSE BOOLEAN

(* Where a run enters the workflow: the saved node, else the first one *)
EntryNode(a, s) ==
    IF ~HasWorkflow(a) THEN NoNode
    ELSE IF GetNode(a, s.node) # NoNode THEN s.node
    ELSE a.nodes[1].id

-----------------------------------------------------------------------------
Init ==
    /\ store = [s \in Sessions |-> Absent]
    /\ call = [r \in Requests |-> NoCall]
    /\ pc = [r \in Requests |-> "idle"]
    /\ session = [r \in Requests |-> Fresh]
    /\ node = [r \in Requests |-> NoNode]
    /\ left = [r \in Requests |-> 0]
    /\ steps = [r \in Requests |-> {}]
    /\ reply = [r \in Requests |-> "none"]
    /\ disturbed = {}
    /\ faults = 0

Sent(r) == pc[r] # "idle"
Busy(r) == pc[r] \notin {"idle", "done"}
Sid(r) == call[r].session
Agent(r) == Registry[call[r].agent]
On(s) == {r \in Requests : Sent(r) /\ call[r].session = s}
Goto(r, l) == pc' = [pc EXCEPT ![r] = l]

Fault == faults < MaxFaults /\ faults' = faults + 1

(* The request is over, and its objects are gone *)
Leave(r, status) ==
    /\ Goto(r, "done")
    /\ reply' = [reply EXCEPT ![r] = status]
    /\ session' = [session EXCEPT ![r] = Fresh]
    /\ node' = [node EXCEPT ![r] = NoNode]
    /\ left' = [left EXCEPT ![r] = 0]

(* run with a session_id fails to build its response: AgentRunResponse wants a
   string where it is given a UUID.  A tool or node that reached the action
   executor has left the database session unusable (the execution log it flushes
   names no executed_by, which the table requires), and get_db's commit, which
   comes before the response is sent, then raises; a stream has no such commit. *)
Answer(r, status) ==
    \/ Leave(r, IF call[r].op = "rerun" THEN "error" ELSE status)
    \/ /\ call[r].op # "stream"
       /\ steps[r] \cap {"tool", "action_error"} # {}
       /\ Leave(r, "error")

(* AgentSession.save: a failure is logged and swallowed *)
Save(r, state) ==
    \/ /\ store' = [store EXCEPT ![Sid(r)] = state]
       /\ disturbed' = disturbed \cup (On(Sid(r)) \ {r})
       /\ UNCHANGED faults
    \/ /\ Fault
       /\ disturbed' = disturbed \cup {r}
       /\ UNCHANGED store

(* AgentSession.load: a failure looks like a session that does not exist.
   found says what it returns. *)
Loads(r, found) ==
    \/ /\ found = (store[Sid(r)] # Absent)
       /\ disturbed' = disturbed \ {r}
       /\ UNCHANGED faults
    \/ /\ ~found
       /\ store[Sid(r)] # Absent
       /\ Fault
       /\ disturbed' = disturbed \cup {r}

-----------------------------------------------------------------------------
(* The endpoints *)

(* A client knows the id of a session another request opens only from its
   answer. *)
Arrive(r) ==
    /\ ~Sent(r)
    /\ \E c \in Calls[r] :
         /\ c.op = "run" => store[c.session] = Absent /\ On(c.session) = {}
         /\ \A q \in On(c.session) : Busy(q) => call[q].op # "run"
         /\ call' = [call EXCEPT ![r] = c]
         /\ Goto(r, Opening[c.op])
    /\ UNCHANGED <<store, session, node, left, steps, reply, disturbed, faults>>

(* resume_agent looks the session up before it starts the engine *)
Find(r) ==
    /\ pc[r] = "find"
    /\ \E found \in BOOLEAN :
         /\ Loads(r, found)
         /\ IF found
            THEN /\ session' = [session EXCEPT ![r] = store[Sid(r)]]
                 /\ Goto(r, "load")
                 /\ UNCHANGED <<node, left, reply>>
            ELSE Answer(r, "not_found")
    /\ UNCHANGED <<store, call, steps>>

(* Mutant of Load: the engine trusts the session it was handed *)
LoadHanded(r) ==
    /\ pc[r] = "load"
    /\ session' = [session EXCEPT ![r] =
           [@ EXCEPT !.turns = @ \cup {r}, !.status = "running"]]
    /\ disturbed' = disturbed \ {r}
    /\ Goto(r, "save")
    /\ UNCHANGED <<store, call, node, left, steps, reply, faults>>

(* AgentEngine.run and run_stream up to their first save *)
Load(r) ==
    /\ pc[r] = "load"
    /\ \E found \in BOOLEAN :
         /\ Loads(r, found)
         /\ LET base == IF found THEN store[Sid(r)] ELSE session[r]
            IN  session' = [session EXCEPT ![r] =
                    [base EXCEPT !.turns = @ \cup {r}, !.status = "running"]]
    /\ Goto(r, "save")
    /\ UNCHANGED <<store, call, node, left, steps, reply>>

SaveRunning(r) ==
    /\ pc[r] = "save"
    /\ Save(r, session[r])
    /\ Goto(r, "step")
    /\ node' = [node EXCEPT ![r] = EntryNode(Agent(r), session[r])]
    /\ left' = [left EXCEPT ![r] =
           IF HasWorkflow(Agent(r)) THEN MaxSteps ELSE Agent(r).max_iterations]
    /\ UNCHANGED <<call, session, steps, reply>>

(* interrupt_agent: load, then save under the new status *)
InterruptRead(r) ==
    /\ pc[r] = "read"
    /\ \E found \in BOOLEAN :
         /\ Loads(r, found)
         /\ session' = [session EXCEPT ![r] = IF found THEN store[Sid(r)] ELSE Fresh]
    /\ Goto(r, "mark")
    /\ UNCHANGED <<store, call, node, left, steps, reply>>

InterruptMark(r) ==
    /\ pc[r] = "mark"
    /\ Save(r, [session[r] EXCEPT !.status = "interrupted"])
    /\ Answer(r, "interrupted")
    /\ UNCHANGED <<call, steps>>

-----------------------------------------------------------------------------
(* The workflow executor: one iteration of the loop of _run_workflow *)

At(r, type) ==
    /\ pc[r] = "step"
    /\ HasWorkflow(Agent(r))
    /\ NodeOf(Agent(r), node[r]).type = type

Visit(r) == [session[r] EXCEPT !.node = node[r]]
VisitAs(r, status) == [Visit(r) EXCEPT !.status = status]
Record(r, kinds) == steps' = [steps EXCEPT ![r] = @ \cup kinds]

(* Mutant of Advance: while True in place of the bounded loop *)
AdvanceForever(r, n) ==
    /\ session' = [session EXCEPT ![r] = Visit(r)]
    /\ node' = [node EXCEPT ![r] = n]
    /\ Goto(r, IF n = NoNode THEN "finish" ELSE "step")
    /\ UNCHANGED <<store, call, left, reply, disturbed, faults>>

(* On to the next node; the run completes when there is none, or when the
   iterations are used up *)
Advance(r, n) ==
    /\ session' = [session EXCEPT ![r] = Visit(r)]
    /\ node' = [node EXCEPT ![r] = n]
    /\ left' = [left EXCEPT ![r] = @ - 1]
    /\ Goto(r, IF n = NoNode \/ left[r] = 1 THEN "finish" ELSE "step")
    /\ UNCHANGED <<store, call, reply, disturbed, faults>>

EndNode(r) ==
    /\ At(r, "end")
    /\ Save(r, VisitAs(r, "completed"))
    /\ Answer(r, "completed")
    /\ UNCHANGED <<call, steps>>

(* Mutant of HumanNode: the status is set after the save *)
HumanNodeLate(r) ==
    /\ At(r, "human")
    /\ Save(r, Visit(r))
    /\ Answer(r, "awaiting_input")
    /\ UNCHANGED <<call, steps>>

HumanNode(r) ==
    /\ At(r, "human")
    /\ Save(r, VisitAs(r, "awaiting_input"))
    /\ Answer(r, "awaiting_input")
    /\ UNCHANGED <<call, steps>>

ConditionNode(r) ==
    /\ At(r, "condition")
    /\ \E passed \in Outcomes(Agent(r), node[r]) :
         Advance(r, Branch(Agent(r), node[r], passed))
    /\ Record(r, {"condition"})

(* A failing action is recorded and the workflow goes on *)
ActionNode(r) ==
    /\ At(r, "action")
    /\ Advance(r, NextNode(Agent(r), node[r]))
    /\ \E kind \in {"action", "action_error"} : Record(r, {kind})

(* str.format is given user_input twice, as a keyword and among the variables,
   and raises outside the node's own handler *)
SearchNode(r) ==
    /\ At(r, "search")
    /\ session' = [session EXCEPT ![r] = Visit(r)]
    /\ Goto(r, "fail")
    /\ UNCHANGED <<store, call, node, left, steps, reply, disturbed, faults>>

LlmNode(r) ==
    /\ At(r, "llm")
    /\ Advance(r, NextNode(Agent(r), node[r]))
    /\ \/ Record(r, {"llm"})
       \/ ~Agent(r).human_in_the_loop /\ Record(r, {"llm", "tool"})

(* With human_in_the_loop a node that called tools pauses: it saves, and returns
   no next node *)
LlmNodePause(r) ==
    /\ At(r, "llm")
    /\ Agent(r).human_in_the_loop
    /\ Record(r, {"llm", "tool"})
    /\ Save(r, VisitAs(r, "awaiting_input"))
    /\ session' = [session EXCEPT ![r] = VisitAs(r, "awaiting_input")]
    /\ Goto(r, "finish")
    /\ UNCHANGED <<call, node, left, reply>>

(* The LLM call fails, or its answer cannot be used; tools may already have run *)
LlmNodeError(r) ==
    /\ At(r, "llm")
    /\ Record(r, {"error"}) \/ Record(r, {"error", "tool"})
    /\ Save(r, VisitAs(r, "failed"))
    /\ session' = [session EXCEPT ![r] = VisitAs(r, "failed")]
    /\ Goto(r, "fail")
    /\ UNCHANGED <<call, node, left, reply>>

Finish(r) ==
    /\ pc[r] = "finish"
    /\ Save(r, [session[r] EXCEPT !.status = "completed"])
    /\ Answer(r, "completed")
    /\ UNCHANGED <<call, steps>>

(* The handler of run and run_stream *)
Fail(r) ==
    /\ pc[r] = "fail"
    /\ Save(r, [session[r] EXCEPT !.status = "failed"])
    /\ Answer(r, "failed")
    /\ UNCHANGED <<call, steps>>

-----------------------------------------------------------------------------
(* The LLM loop of an agent without a workflow *)

InLoop(r) == pc[r] = "step" /\ ~HasWorkflow(Agent(r))
As(r, status) == [session[r] EXCEPT !.status = status]

LoopAnswer(r) ==
    /\ InLoop(r)
    /\ Record(r, {"answer"})
    /\ Save(r, As(r, "completed"))
    /\ Answer(r, "completed")
    /\ UNCHANGED call

(* Mutant of LoopError: a failed LLM call returns without saving *)
LoopErrorUnsaved(r) ==
    /\ InLoop(r)
    /\ Record(r, {"error"})
    /\ Answer(r, "failed")
    /\ UNCHANGED <<store, call, disturbed, faults>>

LoopError(r) ==
    /\ InLoop(r)
    /\ Record(r, {"error"})
    /\ Save(r, As(r, "failed"))
    /\ Answer(r, "failed")
    /\ UNCHANGED call

(* The LLM's answer or the arguments of a tool call cannot be parsed: the tools
   called before that one in the same answer have run *)
LoopBadAnswer(r) ==
    /\ InLoop(r)
    /\ Record(r, {}) \/ Record(r, {"tool"})
    /\ Goto(r, "fail")
    /\ UNCHANGED <<store, call, session, node, left, reply, disturbed, faults>>

LoopTools(r) ==
    /\ InLoop(r)
    /\ ~Agent(r).human_in_the_loop
    /\ Record(r, {"tool"})
    /\ left' = [left EXCEPT ![r] = @ - 1]
    /\ Goto(r, IF left[r] = 1 THEN "finish" ELSE "step")
    /\ UNCHANGED <<store, call, session, node, reply, disturbed, faults>>

(* The tools have run when the loop pauses.  An LLM that calls tools may send no
   text, and a response without output cannot be built (the stream sends it);
   nor can what a tool did to the database session be committed. *)
LoopPause(r) ==
    /\ InLoop(r)
    /\ Agent(r).human_in_the_loop
    /\ Record(r, {"tool"})
    /\ Save(r, As(r, "awaiting_input"))
    /\ \/ Answer(r, "awaiting_input")
       \/ call[r].op # "stream" /\ Leave(r, "error")
    /\ UNCHANGED call

-----------------------------------------------------------------------------
(* Faults *)

(* The client of a stream goes away: the generator is cancelled, and no handler
   catches that *)
Disconnect(r) ==
    /\ Busy(r)
    /\ call[r].op = "stream"
    /\ Fault
    /\ Leave(r, "lost")
    /\ UNCHANGED <<store, call, steps, disturbed>>

(* The API process restarts *)
Crash ==
    /\ \E r \in Requests : Busy(r)
    /\ Fault
    /\ pc' = [r \in Requests |-> IF Busy(r) THEN "done" ELSE pc[r]]
    /\ reply' = [r \in Requests |-> IF Busy(r) THEN "lost" ELSE reply[r]]
    /\ session' = [r \in Requests |-> Fresh]
    /\ node' = [r \in Requests |-> NoNode]
    /\ left' = [r \in Requests |-> 0]
    /\ UNCHANGED <<store, call, steps, disturbed>>

(* The time to live of the key ends *)
Expire(s) ==
    /\ store[s] # Absent
    /\ Fault
    /\ store' = [store EXCEPT ![s] = Absent]
    /\ disturbed' = disturbed \cup On(s)
    /\ UNCHANGED <<call, pc, session, node, left, steps, reply>>

-----------------------------------------------------------------------------
Endpoint(r) ==
    \/ Find(r) \/ Load(r) \/ SaveRunning(r)
    \/ InterruptRead(r) \/ InterruptMark(r)

Workflow(r) ==
    \/ EndNode(r) \/ HumanNode(r) \/ ConditionNode(r) \/ ActionNode(r)
    \/ SearchNode(r) \/ LlmNode(r) \/ LlmNodePause(r) \/ LlmNodeError(r)

Loop(r) ==
    \/ LoopAnswer(r) \/ LoopError(r) \/ LoopBadAnswer(r)
    \/ LoopTools(r) \/ LoopPause(r)

Progress(r) == Endpoint(r) \/ Workflow(r) \/ Loop(r) \/ Finish(r) \/ Fail(r)

Next ==
    \/ \E r \in Requests : Arrive(r) \/ Progress(r) \/ Disconnect(r)
    \/ \E s \in Sessions : Expire(s)
    \/ Crash

(* The event loop runs every coroutine that is ready, and an LLM call ends after
   its timeout: a request that can go on does.  Nobody has to send one. *)
Fairness == \A r \in Requests : WF_vars(Progress(r))

Spec == Init /\ [][Next]_vars /\ Fairness

-----------------------------------------------------------------------------
(* Properties *)

(* Type correctness of the store and of the objects of every request. *)
TypeOK ==
    /\ store \in [Sessions -> SessionState]
    /\ call \in [Requests -> Call \cup {NoCall}]
    /\ pc \in [Requests -> Labels]
    /\ \A r \in Requests : Sent(r) => call[r] \in Calls[r]
    /\ session \in [Requests -> SessionState]
    /\ node \in [Requests -> Nodes \cup {NoNode}]
    /\ left \in [Requests -> Nat]
    /\ steps \in [Requests -> SUBSET StepKinds]
    /\ reply \in [Requests -> Replies]
    /\ disturbed \subseteq Requests
    /\ faults \in 0..MaxFaults

(* The engine of request r is at work and will save once more *)
Working(r) == pc[r] \in {"step", "finish", "fail"}

(* A session saved as running has a run that is still working on it and will
   save another status: however runs and interrupts of a session overlap, the
   status the UI polls does not stick at "running", short of a fault. *)
RunningHasOwner ==
    faults = 0 =>
        \A s \in Sessions :
            store[s].status = "running" =>
                \E r \in Requests : Working(r) /\ Sid(r) = s

(* The status a client was answered is the one GET /status reads afterwards,
   unless another request or a fault came between: every return and every final
   event of the engine follows the save of the same status. *)
ReplyIsStored ==
    \A r \in Requests :
        pc[r] = "done" /\ reply[r] \in Statuses /\ r \notin disturbed
            => store[Sid(r)].status = reply[r]

(* A saved conversation loses a user message only to a request that loaded the
   session before that message was saved, or whose access to the store failed. *)
KeepsTurns ==
    \A s \in Sessions :
        store[s] # Absent /\ store'[s] # Absent =>
            \/ store[s].turns \subseteq store'[s].turns
            \/ \E r \in disturbed : Sid(r) = s /\ pc'[r] # pc[r]

TurnsKept == [][KeepsTurns]_vars

(* A running session settles: the run completes, fails, pauses or is marked as
   interrupted, even in a workflow whose edges loop forever. *)
RunningSettles ==
    \A s \in Sessions :
        store[s].status = "running"
            ~> store[s].status # "running" \/ faults > 0
=============================================================================
