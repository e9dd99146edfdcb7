--------------------------- MODULE ActionExecution ---------------------------
(***************************************************************************)
(* The executions of action types and functions: the endpoint              *)
(* /actions/{id}/execute, the endpoint /functions/{id}/test and the        *)
(* ActionExecutor that agents and workshop apps call, with the policy      *)
(* bundle it asks.                                                         *)
(*                                                                         *)
(* A request works in one READ COMMITTED transaction, committed by get_db  *)
(* after the handler, or by the caller of the executor after it raised.    *)
(* What a request flushed is its own until then, apart from the lock of    *)
(* the row it updated.  The endpoints run a function with subprocess.run   *)
(* on the event loop, so nothing else moves before it ends; the executor   *)
(* awaits its process.                                                     *)
(*                                                                         *)
(* A property of an object is named by the request that stored it.  In     *)
(* Neo4j nothing changes: the executor looks its node up by elementId with *)
(* the node_id that the store made up, and finds none.                     *)
(***************************************************************************)
EXTENDS Naturals, FiniteSets

CONSTANTS
    Requests,   \* the executions that are asked for
    Objects,    \* the objects of the tenant
    Props,      \* names of properties
    Filled,     \* the objects that were created with properties
    Original,   \* of a property an object was created with
    Calls,      \* what may be asked
    NoCall,     \* of a request not sent yet
    Absent,     \* of a property no execution has stored
    NoRequest,  \* of a lock, or of the event loop, that is free
    MaxFaults   \* bound on the failures

Paths == {"execute", "test", "executor"}
Modes == {"direct", "function_backed", "workflow"}

(* modifies: the properties it names and the parameters give; backed: its
   function or workflow exists; valid: the code parses; sensitive: it has a name
   that the policy forbids *)
ActionType == [mode : Modes, modifies : SUBSET Props, rules : BOOLEAN,
               backed : BOOLEAN, valid : BOOLEAN, sensitive : BOOLEAN]

(* found: the type or function named is one of the tenant, or else of another.
   target: an object of the tenant, of another one, or an id of no object.  user:
   the caller says who executes, as the endpoint does and no caller of the
   executor *)
Call == [path : Paths, type : ActionType, found : BOOLEAN,
         target : Objects \cup {"none", "foreign", "missing"},
         parameters : Nat, user : BOOLEAN]

ASSUME ActionAssumption ==
    /\ Calls \subseteq Call
    /\ \A c \in Calls : c.path = "test" => c.type.backed
    /\ NoCall \notin Call
    /\ Filled \subseteq Objects
    /\ Absent \notin Requests \cup {Original}
    /\ Original \notin Requests
    /\ NoRequest \notin Requests
    /\ MaxFaults \in Nat
    /\ Objects \cap {"none", "foreign", "missing"} = {}

VARIABLES
    call,       \* what each request asks
    pc,         \* where each request stands
    seen,       \* the properties of its object that each request read
    verdict,    \* the status in the request's log row
    dirty,      \* the requests that flushed an UPDATE of the properties
    lock,       \* PostgreSQL: who holds the lock of each object's row
    stored,     \* PostgreSQL: the properties of each object
    rows,       \* PostgreSQL: the status in each request's log row
    processes,  \* the requests whose function process runs
    loop,       \* the request that blocks the event loop
    told,       \* what the caller was answered
    faults      \* history: how many failures have happened

session == <<call, seen, verdict, dirty>>
database == <<lock, stored, rows>>
runtime == <<processes, loop>>
vars == <<session, pc, database, runtime, told, faults>>

Labels == {"idle", "gate", "mode", "apply", "sync", "sandbox", "commit", "done"}
Statuses == {"none", "success", "failed"}
Answers == {"none", "success", "failed", "not_found", "error", "lost"}
Properties == [Props -> Requests \cup {Absent, Original}]
Empty == [p \in Props |-> Absent]

Path(r) == call[r].path
Type(r) == call[r].type
Target(r) == call[r].target
Http(r) == Path(r) \in {"execute", "test"}
Busy(r) == pc[r] \notin {"idle", "done"}

(* Only the request that blocks the event loop moves while one does *)
Free(r) == loop \in {NoRequest, r}
At(r, l) == pc[r] = l /\ Free(r)
Goto(r, l) == pc' = [pc EXCEPT ![r] = l]
Tell(r, a) == told' = [told EXCEPT ![r] = a]
Fault == faults < MaxFaults /\ faults' = faults + 1

Init ==
    /\ call = [r \in Requests |-> NoCall]
    /\ pc = [r \in Requests |-> "idle"]
    /\ seen = [r \in Requests |-> Empty]
    /\ verdict = [r \in Requests |-> "none"]
    /\ dirty = {}
    /\ lock = [o \in Objects |-> NoRequest]
    /\ stored = [o \in Objects |->
                   IF o \in Filled THEN [p \in Props |-> Original] ELSE Empty]
    /\ rows = [r \in Requests |-> "none"]
    /\ processes = {}
    /\ loop = NoRequest
    /\ told = [r \in Requests |-> "none"]
    /\ faults = 0
-----------------------------------------------------------------------------
(* The policy bundle: each rule, and whether its body holds of the input.  The
   type was looked up by the tenant of the caller *)
MaxParameters == 32
Judgement(r) ==
    [tenant_isolation |-> TRUE,
     forbidden_parameters |-> ~ Type(r).sensitive,
     max_parameters |-> call[r].parameters <= MaxParameters]

(* A denial is the first rule that does not hold *)
Denied(r) == \E rule \in DOMAIN Judgement(r) : ~ Judgement(r)[rule]

(* The status an execution ends with.  Whatever the executor did, the response
   it builds lacks required fields: building it raises, inside the try *)
Ending(r, v) == IF Path(r) = "executor" THEN "failed" ELSE v

(* The log row gets its last status and is flushed *)
Settle(r, v) ==
    /\ verdict' = [verdict EXCEPT ![r] = Ending(r, v)]
    /\ Goto(r, "commit")
    /\ UNCHANGED told

(* Mutant of Abort: a denied execution goes on *)
AbortGoesOn(r, a) ==
    /\ IF pc[r] = "gate" THEN Goto(r, "mode") ELSE Goto(r, "done")
    /\ Tell(r, IF pc[r] = "gate" THEN "none" ELSE a)
    /\ UNCHANGED verdict

(* The handler ends without a commit: nothing it flushed stays *)
Abort(r, a) ==
    /\ Goto(r, "done")
    /\ Tell(r, a)
    /\ UNCHANGED verdict
-----------------------------------------------------------------------------
(* execute_action and test_function look their type or function up; the former
   inserts the log row, whose target must be an object of someone *)
Open(r) ==
    /\ At(r, "idle")
    /\ \E c \in Calls :
        /\ c.path # "executor"
        /\ call' = [call EXCEPT ![r] = c]
        /\ \/ ~ c.found /\ Abort(r, "not_found")
           \/ c.found /\ c.target = "missing" /\ Abort(r, "error")
           \/ c.found /\ c.target # "missing"
                /\ Goto(r, "mode") /\ UNCHANGED <<verdict, told>>
    /\ UNCHANGED <<seen, dirty, database, runtime, faults>>

(* ActionExecutor.execute inserts its log row outside of its try *)
Submit(r) ==
    /\ At(r, "idle")
    /\ \E c \in Calls :
        /\ c.path = "executor"
        /\ call' = [call EXCEPT ![r] = c]
        /\ \/ (~ c.user \/ c.target = "missing") /\ Abort(r, "error")
           \/ c.user /\ c.target # "missing"
                /\ Goto(r, "gate") /\ UNCHANGED <<verdict, told>>
    /\ UNCHANGED <<seen, dirty, database, runtime, faults>>

(* No such type, or one with rules: RuleEvaluation(name=...) lacks rule_name *)
Reject(r) ==
    /\ At(r, "gate")
    /\ ~ call[r].found \/ Type(r).rules
    /\ Settle(r, "failed")
    /\ UNCHANGED <<call, seen, dirty, database, runtime, faults>>

(* The status blocked violates a constraint: its flush fails, and so does the
   one of the status failed after it *)
Deny(r) ==
    /\ At(r, "gate")
    /\ call[r].found /\ ~ Type(r).rules
    /\ Denied(r)
    /\ Abort(r, "error")
    /\ UNCHANGED <<call, seen, dirty, database, runtime, faults>>

Admit(r) ==
    /\ At(r, "gate")
    /\ call[r].found /\ ~ Type(r).rules
    /\ ~ Denied(r)
    /\ Goto(r, "mode")
    /\ UNCHANGED <<session, database, runtime, told, faults>>
-----------------------------------------------------------------------------
Runs(r, mode) ==
    At(r, "mode") /\ IF Path(r) = "test" THEN mode = "function_backed"
                                         ELSE Type(r).mode = mode

(* Direct mode reads the object *)
ReadObject(r) ==
    /\ Runs(r, "direct")
    /\ Target(r) \in Objects
    /\ seen' = [seen EXCEPT ![r] = stored[Target(r)]]
    /\ Goto(r, "apply")
    /\ UNCHANGED <<call, verdict, dirty, database, runtime, told, faults>>

(* Without an object the endpoint has nothing to do, the executor raises *)
NoObject(r) ==
    /\ Runs(r, "direct")
    /\ Target(r) \notin Objects
    /\ Settle(r, "success")
    /\ UNCHANGED <<call, seen, dirty, database, runtime, faults>>

(* Mutant of Stores: without the "or {}" an empty object is changed in place too *)
StoresNever(r) == FALSE

(* The JSON object that was read is changed in place and assigned to itself,
   which the session takes for no change, unless it was empty and "or {}" put
   a new one in its place *)
Stores(r) == Type(r).modifies # {} /\ seen[r] = Empty

(* The endpoint flushes an UPDATE if the session saw a change *)
Modify(r) ==
    /\ At(r, "apply")
    /\ Http(r)
    /\ Stores(r) => lock[Target(r)] = NoRequest
    /\ dirty' = IF Stores(r) THEN dirty \cup {r} ELSE dirty
    /\ lock' = IF Stores(r) THEN [lock EXCEPT ![Target(r)] = r] ELSE lock
    /\ Settle(r, "success")
    /\ UNCHANGED <<call, seen, stored, rows, runtime, faults>>

(* The executor takes the names of properties for records, and raises *)
Misread(r) ==
    /\ At(r, "apply")
    /\ ~ Http(r) /\ Type(r).modifies # {}
    /\ Settle(r, "failed")
    /\ UNCHANGED <<call, seen, dirty, database, runtime, faults>>

(* Without any, it sets updated_at, and locks the row with that *)
Touch(r) ==
    /\ At(r, "apply")
    /\ ~ Http(r) /\ Type(r).modifies = {}
    /\ lock[Target(r)] = NoRequest
    /\ lock' = [lock EXCEPT ![Target(r)] = r]
    /\ Goto(r, "sync")
    /\ UNCHANGED <<session, stored, rows, runtime, told, faults>>

(* The statement for Neo4j, whether it fails or not *)
SyncGraph(r) ==
    /\ At(r, "sync")
    /\ Settle(r, "success")
    /\ UNCHANGED <<call, seen, dirty, database, runtime, faults>>

(* A workflow changes the object in place and flushes: nothing is stored *)
Workflow(r) ==
    /\ Runs(r, "workflow")
    /\ Settle(r, "success")
    /\ UNCHANGED <<call, seen, dirty, database, runtime, faults>>
-----------------------------------------------------------------------------
(* No function: the endpoint is content, the executor raises *)
Unbacked(r) ==
    /\ Runs(r, "function_backed")
    /\ ~ Type(r).backed
    /\ Settle(r, "success")
    /\ UNCHANGED <<call, seen, dirty, database, runtime, faults>>

(* The endpoints parse the code before they run it *)
SyntaxError(r) ==
    /\ Runs(r, "function_backed")
    /\ Type(r).backed /\ ~ Type(r).valid /\ Http(r)
    /\ Settle(r, "failed")
    /\ UNCHANGED <<call, seen, dirty, database, runtime, faults>>

Launch(r) ==
    /\ Runs(r, "function_backed")
    /\ Type(r).backed /\ (Type(r).valid \/ ~ Http(r))
    /\ processes' = processes \cup {r}
    /\ loop' = IF Http(r) THEN r ELSE loop
    /\ Goto(r, "sandbox")
    /\ UNCHANGED <<session, database, told, faults>>

(* The process ends by itself, with any return code *)
Exit(r) ==
    /\ At(r, "sandbox")
    /\ r \in processes
    /\ processes' = processes \ {r}
    /\ loop' = IF Http(r) THEN NoRequest ELSE loop
    /\ \E v \in {"success", "failed"} : (Type(r).valid \/ v = "failed") /\ Settle(r, v)
    /\ UNCHANGED <<call, seen, dirty, database, faults>>

(* At the time limit subprocess.run kills the process; asyncio.wait_for only
   stops waiting for it *)
Killed(r) == IF Http(r) THEN {r} ELSE {}

(* Mutant of Timeout: a process is waited for without a limit *)
TimeoutNever(r) == FALSE /\ UNCHANGED vars

Timeout(r) ==
    /\ At(r, "sandbox")
    /\ processes' = processes \ Killed(r)
    /\ loop' = IF Http(r) THEN NoRequest ELSE loop
    /\ Settle(r, "failed")
    /\ UNCHANGED <<call, seen, dirty, database, faults>>

(* A process nobody waits for ends *)
Linger(r) ==
    /\ r \in processes /\ pc[r] # "sandbox"
    /\ processes' = processes \ {r}
    /\ UNCHANGED <<session, pc, database, loop, told, faults>>
-----------------------------------------------------------------------------
Unlocked(s) == [o \in Objects |-> IF lock[o] \in s THEN NoRequest ELSE lock[o]]

(* Mutant of Heard: the endpoint answers that the execution succeeded *)
HeardSuccess(r) == IF Http(r) THEN "success" ELSE "error"

(* What the client hears of a commit; the caller of the executor has had its
   exception *)
Heard(r) == IF Http(r) THEN verdict[r] ELSE "error"

(* The object as the request changed it *)
Written(r) == [p \in Props |-> IF p \in Type(r).modifies THEN r ELSE seen[r][p]]

Commit(r) ==
    /\ At(r, "commit")
    /\ rows' = IF Path(r) = "test" THEN rows ELSE [rows EXCEPT ![r] = verdict[r]]
    /\ stored' = IF r \in dirty THEN [stored EXCEPT ![Target(r)] = Written(r)] ELSE stored
    /\ lock' = Unlocked({r})
    /\ Tell(r, Heard(r))
    /\ Goto(r, "done")
    /\ UNCHANGED <<session, runtime, faults>>

(* A failing commit answers 500; a lost connection makes any await fail *)
CommitFails(r) ==
    /\ At(r, "commit")
    /\ Fault
    /\ lock' = Unlocked({r})
    /\ Tell(r, "error")
    /\ Goto(r, "done")
    /\ UNCHANGED <<session, stored, rows, runtime>>

(* The process stops, and some of the functions it started with it *)
Restart ==
    /\ Fault
    /\ \E left \in SUBSET processes : processes' = left
    /\ loop' = NoRequest
    /\ lock' = [o \in Objects |-> NoRequest]
    /\ pc' = [r \in Requests |-> IF Busy(r) THEN "done" ELSE pc[r]]
    /\ told' = [r \in Requests |-> IF Busy(r) THEN "lost" ELSE told[r]]
    /\ UNCHANGED <<session, stored, rows>>
-----------------------------------------------------------------------------
Step(r) ==
    \/ Reject(r) \/ Deny(r) \/ Admit(r)
    \/ ReadObject(r) \/ NoObject(r) \/ Modify(r) \/ Misread(r) \/ Touch(r)
    \/ SyncGraph(r) \/ Workflow(r)
    \/ Unbacked(r) \/ SyntaxError(r) \/ Launch(r) \/ Timeout(r)
    \/ Commit(r)

Next ==
    \/ \E r \in Requests :
        Open(r) \/ Submit(r) \/ Step(r) \/ Exit(r) \/ Linger(r) \/ CommitFails(r)
    \/ Restart

(* The event loop takes every handler further, PostgreSQL gives a lock to who
   waits for it, and a process that does not end runs into its time limit *)
Fairness == \A r \in Requests : WF_vars(Step(r))

Spec == Init /\ [][Next]_vars /\ Fairness
-----------------------------------------------------------------------------
(* Every variable has its type. *)
TypeOK ==
    /\ call \in [Requests -> Calls \cup {NoCall}]
    /\ pc \in [Requests -> Labels]
    /\ seen \in [Requests -> Properties]
    /\ verdict \in [Requests -> Statuses]
    /\ dirty \subseteq Requests
    /\ lock \in [Objects -> Requests \cup {NoRequest}]
    /\ stored \in [Objects -> Properties]
    /\ rows \in [Requests -> Statuses]
    /\ processes \subseteq Requests
    /\ loop \in Requests \cup {NoRequest}
    /\ told \in [Requests -> Answers]
    /\ faults \in 0 .. MaxFaults

(* An execution that the endpoint answered as success or failed has its log row
   with that status; only executions logged as successes have stored properties;
   no row is seen before its execution is over, and none of the executor's says
   success. *)
AuditIsTrue ==
    /\ \A r \in Requests :
        /\ told[r] \in {"success", "failed"} /\ Path(r) = "execute" => rows[r] = told[r]
        /\ rows[r] # "none" => pc[r] = "done"
        /\ rows[r] = "success" => Path(r) = "execute"
    /\ \A o \in Objects, p \in Props :
        stored[o][p] \in Requests => rows[stored[o][p]] = "success"

(* The process of a function belongs to one execution that passed the rules and
   the policy, where there are any; the endpoints run one at a time, and leave
   none behind once they have answered. *)
ProcessesInBounds ==
    \A r \in processes :
        /\ Path(r) = "executor" => ~ Type(r).rules /\ ~ Denied(r)
        /\ Http(r) /\ told[r] # "lost" => loop = r /\ pc[r] = "sandbox"

(* An execution that the endpoint answered as success has stored every property it
   names on an object that was empty when it read it: each is there from this
   execution or from one that names it too, or the object is as another execution
   left it that had not seen this one.  An object that had properties keeps them,
   whatever is answered: of that nothing is said here. *)
ChangesStored ==
    \A r \in Requests :
        /\ told[r] = "success" /\ Path(r) = "execute" /\ Type(r).mode = "direct"
        /\ Target(r) \in Objects /\ seen[r] = Empty
        => LET object == stored[Target(r)]
           IN  \/ \A p \in Type(r).modifies :
                    object[p] \in Requests /\ p \in Type(object[p]).modifies
               \/ \E p \in Props :
                    /\ object[p] \in Requests \ {r}
                    /\ r \notin {seen[object[p]][q] : q \in Props}

(* Whoever asks for an execution is answered, although functions block the event
   loop, rows are locked and processes hang; or the process has stopped. *)
EveryCallAnswered == \A r \in Requests : (pc[r] # "idle") ~> (told[r] # "none")
=============================================================================
