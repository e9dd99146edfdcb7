--------------------------- MODULE TenantSettings ---------------------------
(***************************************************************************)
(* What a tenant keeps for its LLM calls: the prompt templates             *)
(* (/aip/prompts and PromptTemplateService) and the budget (/llm-budgets   *)
(* and LLMCostService).                                                    *)
(*                                                                         *)
(* Every request reads rows, computes from them and writes absolute values *)
(* back, in a READ COMMITTED transaction of its own.  The UPDATE names the *)
(* columns whose value differs from what the session read, and only them.  *)
(* Writing and committing are one step here: in between the request holds  *)
(* the lock of the row, and all that others can do is to wait for it.      *)
(***************************************************************************)
EXTENDS Guardrails

CONSTANTS
    Requests,   \* the requests to the API
    Templates,  \* the prompt templates that bear one and the same name
    Initially,  \* the template that is there and active in the beginning, if any
    Calls,      \* what may be asked
    NoCall,     \* of a request not sent yet
    NoTemplate, \* of a call that names none
    NoRow,      \* of a request that has read no template
    Unset,      \* of a field of a budget that does not exist
    MaxFaults   \* bound on the failures

Fields == {"cap", "threshold"}
Changes == {"text", "on", "off"} \cup Fields
SettingPaths == {"create", "update", "delete", "post_budget", "put_budget"}
LlmPaths == {"chat", "stream", "rag"}

(* changes: what a setting is to change.  clean: the last message of the user
   triggers no guardrail; llama: the answer is to come from LlamaIndex; answer: what
   the model says to it *)
Call == [path : SettingPaths \cup LlmPaths, template : Templates \cup {NoTemplate},
         changes : SUBSET Changes, clean : BOOLEAN, llama : BOOLEAN,
         answer : Text]

TemplateRow == [state : {"none", "active", "archived"}, version : Nat, usage : Nat]

ASSUME SettingsAssumption ==
    /\ IsFiniteSet(Requests)
    /\ Calls \subseteq Call
    /\ \A c \in Calls : c.path \in {"update", "delete"} => c.template \in Templates
    /\ \A c \in Calls : c.path = "delete" => c.changes = {"off"}
    /\ \A c \in Calls : c.path = "post_budget" => c.changes = Fields
    /\ \A c \in Calls : c.path = "put_budget" => c.changes \subseteq Fields
    /\ NoCall \notin Call
    /\ NoTemplate \notin Templates /\ NoRow \notin TemplateRow
    /\ Initially \subseteq Templates /\ Cardinality(Initially) <= 1
    /\ Unset \notin Requests
    /\ MaxFaults \in Nat

VARIABLES
    call,       \* what each request asks
    pc,         \* where each request stands
    told,       \* what each client was answered
    row,        \* the template each request has read
    before,     \* the budget each request has read first
    loaded,     \* the budget that the session of each request holds
    template,   \* PostgreSQL: the templates
    budget,     \* PostgreSQL: who gave each field of the budget its value
    open,       \* history: who has read what it is going to write
    overlapped, \* history: who did so while another did
    written,    \* history: the request and the column it counted up, committed
    named,      \* history: the version that each update was answered
    lastSet,    \* history: the last request that asked for each field's value
    faults      \* history: how many failures have happened

request == <<call, pc, told, row, before, loaded>>
history == <<open, overlapped, written, named, lastSet>>
settings == <<request, template, budget, history>>

Budget == [Fields -> Requests \cup {Unset}]
NoBudget == [f \in Fields |-> Unset]

(* A column that requests count up, of a template or of the budget *)
Columns == ({"version", "usage"} \X Templates) \cup {<<"budget", NoTemplate>>}

Path(r) == call[r].path
Target(r) == call[r].template
At(r, l) == pc[r] = l
Busy(r) == pc[r] \notin {"idle", "done"}
Goto(r, l) == pc' = [pc EXCEPT ![r] = l]
Tell(r, a) == told' = [told EXCEPT ![r] = a]
Fault == faults < MaxFaults /\ faults' = faults + 1

(* A request reads what it is going to write back *)
Opening(r, x) ==
    LET others == {o \in open : o[2] = x /\ o[1] # r} IN
    /\ open' = open \cup {<<r, x>>}
    /\ overlapped' = IF others = {} THEN overlapped
                     ELSE overlapped \cup others \cup {<<r, x>>}

Closed(r) == {o \in open : o[1] # r}

(* The handler is over *)
End(r, a) ==
    /\ Goto(r, "done")
    /\ Tell(r, a)
    /\ open' = Closed(r)
    /\ UNCHANGED overlapped

InitSettings ==
    /\ call = [r \in Requests |-> NoCall]
    /\ pc = [r \in Requests |-> "idle"]
    /\ told = [r \in Requests |-> "none"]
    /\ row = [r \in Requests |-> NoRow]
    /\ before = [r \in Requests |-> NoBudget]
    /\ loaded = [r \in Requests |-> NoBudget]
    /\ template = [t \in Templates |->
                     IF t \in Initially THEN [state |-> "active", version |-> 1, usage |-> 0]
                     ELSE [state |-> "none", version |-> 0, usage |-> 0]]
    /\ budget = NoBudget
    /\ open = {} /\ overlapped = {} /\ written = {}
    /\ named = [r \in Requests |-> 0]
    /\ lastSet = NoBudget
    /\ faults = 0
-----------------------------------------------------------------------------
Active == {t \in Templates : template[t].state = "active"}

(* The partial unique index over the active templates of a name *)
Collides(t) == Active \ {t} # {}

(* create_prompt looks for an active template of the name *)
CreatePrompt(r, c) ==
    /\ c.path = "create"
    /\ IF Active # {} THEN End(r, "conflict")
                      ELSE Goto(r, "insert") /\ UNCHANGED <<told, open, overlapped>>
    /\ UNCHANGED row

InsertPrompt(r) ==
    /\ At(r, "insert")
    /\ \E t \in Templates :
        /\ template[t].state = "none"
        /\ IF Collides(t)
           THEN End(r, "error") /\ UNCHANGED template
           ELSE /\ End(r, "ok")
                /\ template' = [template EXCEPT ![t] =
                                  [state |-> "active", version |-> 1, usage |-> 0]]
    /\ UNCHANGED <<call, row, before, loaded, budget, written, named, lastSet, faults>>

(* update_prompt and delete_prompt read their template, archived or not *)
GetPrompt(r, c) ==
    /\ c.path \in {"update", "delete"}
    /\ IF template[c.template].state = "none"
       THEN End(r, "not_found") /\ UNCHANGED row
       ELSE /\ row' = [row EXCEPT ![r] = template[c.template]]
            /\ Goto(r, "store")
            /\ IF "text" \in c.changes THEN Opening(r, <<"version", c.template>>)
                                       ELSE UNCHANGED <<open, overlapped>>
            /\ UNCHANGED told

Wanted(r) == IF "on" \in call[r].changes THEN "active"
             ELSE IF "off" \in call[r].changes THEN "archived" ELSE row[r].state

(* Mutant of Merged: the whole row that was read is written back *)
MergedWhole(r, now) ==
    [state |-> Wanted(r),
     version |-> IF "text" \in call[r].changes THEN row[r].version + 1 ELSE row[r].version,
     usage |-> row[r].usage]

(* Mutant of Merged: a new text does not raise the version *)
MergedSameVersion(r, now) ==
    [now EXCEPT !.state = IF Wanted(r) # row[r].state THEN Wanted(r) ELSE @]

(* The row after the UPDATE of a session that had read row[r] *)
Merged(r, now) ==
    [now EXCEPT !.state = IF Wanted(r) # row[r].state THEN Wanted(r) ELSE @,
                !.version = IF "text" \in call[r].changes THEN row[r].version + 1 ELSE @]

StorePrompt(r) ==
    LET t == Target(r)
        new == Merged(r, template[t])
    IN
    /\ At(r, "store")
    /\ IF new.state = "active" /\ Collides(t)
       THEN End(r, "error") /\ UNCHANGED <<template, written, named>>
       ELSE /\ End(r, "ok")
            /\ template' = [template EXCEPT ![t] = new]
            /\ IF "text" \in call[r].changes
               THEN /\ written' = written \cup {<<r, <<"version", t>>>>}
                    /\ named' = [named EXCEPT ![r] = new.version]
               ELSE UNCHANGED <<written, named>>
    /\ UNCHANGED <<call, row, before, loaded, budget, lastSet, faults>>
-----------------------------------------------------------------------------
(* PromptTemplateService.load_template: only an active one *)
Load(r) == template[Target(r)].state = "active"

(* record_usage reads the count ... *)
ReadUsage(r) ==
    /\ row' = [row EXCEPT ![r] = template[Target(r)]]
    /\ Opening(r, <<"usage", Target(r)>>)

(* ... and stores the next one *)
Counted(r) == row[r].usage + 1

StoreUsage(r) ==
    /\ template' = [template EXCEPT ![Target(r)].usage = Counted(r)]
    /\ written' = written \cup {<<r, <<"usage", Target(r)>>>>}
-----------------------------------------------------------------------------
HasBudget(b) == b # NoBudget

(* update_llm_budget reads the budget for the fields it is not given *)
GetBudget(r, c) ==
    /\ c.path = "put_budget"
    /\ IF HasBudget(budget)
       THEN /\ before' = [before EXCEPT ![r] = budget]
            /\ Goto(r, "upsert")
            /\ Opening(r, <<"budget", NoTemplate>>)
            /\ UNCHANGED told
       ELSE End(r, "not_found") /\ UNCHANGED before
    /\ UNCHANGED row

(* create_llm_budget goes to upsert_budget at once *)
PostBudget(r, c) ==
    /\ c.path = "post_budget"
    /\ Goto(r, "upsert")
    /\ Opening(r, <<"budget", NoTemplate>>)
    /\ UNCHANGED <<told, row, before>>

(* upsert_budget reads the row, again *)
LoadBudget(r) ==
    /\ At(r, "upsert")
    /\ loaded' = [loaded EXCEPT ![r] = budget]
    /\ Goto(r, "write")
    /\ UNCHANGED <<call, told, row, before, template, budget, history, faults>>

(* Mutant of Given: a field that is not given is set by the request all the same *)
GivenAll(r, f) == r

(* The value that the handler passes for a field *)
Given(r, f) == IF f \in call[r].changes THEN r ELSE before[r][f]

(* It inserts a row for the tenant, of which the unique index allows one, or
   updates the columns whose value is new to the session *)
WriteBudget(r) ==
    /\ At(r, "write")
    /\ IF ~ HasBudget(loaded[r]) /\ HasBudget(budget)
       THEN End(r, "error") /\ UNCHANGED <<budget, lastSet>>
       ELSE /\ End(r, "ok")
            /\ budget' = [f \in Fields |-> IF Given(r, f) # loaded[r][f]
                                           THEN Given(r, f) ELSE budget[f]]
            /\ lastSet' = [f \in Fields |-> IF f \in call[r].changes THEN r ELSE lastSet[f]]
    /\ UNCHANGED <<call, row, before, loaded, template, written, named, faults>>
-----------------------------------------------------------------------------
OpenSetting(r) ==
    /\ At(r, "idle")
    /\ \E c \in Calls :
        /\ call' = [call EXCEPT ![r] = c]
        /\ \/ (CreatePrompt(r, c) \/ GetPrompt(r, c) \/ PostBudget(r, c)) /\ UNCHANGED before
           \/ GetBudget(r, c)
    /\ UNCHANGED <<loaded, template, budget, written, named, lastSet, faults>>

(* An await fails: get_db rolls back, and nothing that was flushed stays *)
SettingFails(r) ==
    /\ pc[r] \in {"insert", "store", "upsert", "write"}
    /\ Fault
    /\ End(r, "error")
    /\ UNCHANGED <<call, row, before, loaded, template, budget, written, named, lastSet>>

SettingStep(r) ==
    \/ OpenSetting(r) \/ InsertPrompt(r) \/ StorePrompt(r)
    \/ LoadBudget(r) \/ WriteBudget(r) \/ SettingFails(r)
-----------------------------------------------------------------------------
(* The requests that counted a column up, and those of them that were alone *)
Writers(x) == {r \in Requests : <<r, x>> \in written}
Alone(x) == {r \in Writers(x) : <<r, x>> \notin overlapped}

(* What is counted up is lost by overlaps only.  The usage of a template falls
   behind the calls that were recorded by no more than the recordings that
   overlapped, however often its text is changed at the same time, and never runs
   ahead; and two changes of a text that were answered with the same version are
   not both free of an overlap. *)
OnlyOverlapsLose ==
    \A t \in Templates :
        /\ Cardinality(Alone(<<"usage", t>>)) <= template[t].usage
        /\ template[t].usage <= Cardinality(Writers(<<"usage", t>>))
        /\ \A r, s \in Alone(<<"version", t>>) : r # s => named[r] # named[s]

(* A field of the budget keeps the value that was last asked for it, whatever
   partial updates leave it alone, unless the request that asked overlapped with
   another. *)
BudgetIsKept ==
    \A f \in Fields :
        budget[f] # lastSet[f] => <<lastSet[f], <<"budget", NoTemplate>>>> \in overlapped
=============================================================================
