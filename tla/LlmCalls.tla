------------------------------ MODULE LlmCalls ------------------------------
(***************************************************************************)
(* The calls to language models: the endpoints /aip/chat, /aip/chat/stream *)
(* and /aip/rag/query with the guardrails they ask, the gateway with its   *)
(* rate limit, and the templates of TenantSettings that they use.          *)
(*                                                                         *)
(* log_check commits the session of the request it is called in.  When it  *)
(* fails it only warns, but leaves a session that raises whenever it is    *)
(* used again, the commit of get_db included.  The gateway's own log row   *)
(* is never written: building it raises, before it is in the session.      *)
(* A stream starts after get_db has committed and closed the session,      *)
(* which takes a new transaction when it is used then.                     *)
(*                                                                         *)
(* The counter of the rate limit has a key for each model and minute.  The *)
(* keys have nothing to do with each other; the calls here are those that  *)
(* find the same key.                                                      *)
(***************************************************************************)
EXTENDS TenantSettings

CONSTANTS
    Guarded,    \* whether GUARDRAILS_ENABLED is on
    Limit       \* LLM_RATE_LIMIT_PER_MINUTE

ASSUME LlmAssumption ==
    /\ Guarded \in BOOLEAN
    /\ Limit \in Nat

VARIABLES
    counter,    \* Redis: the calls counted, 0 without a key
    round,      \* which of its calls to the gateway each request makes
    seen,       \* the counter as that call has read it
    broken,     \* the requests whose session raises
    source,     \* where the answer came from
    logged,     \* PostgreSQL: the guardrails log rows of each request
    holds,      \* the personal data in the answer that the request has by now
    reached,    \* history: the requests whose text was sent to a model
    admitted,   \* history: the calls that the counter let through
    crowded,    \* history: those of them that overlapped another one's check
    checking,   \* history: the calls between reading the counter and setting it
    refused     \* history: the calls that the counter turned away

gateway == <<round, source, holds>>
limiter == <<counter, seen, admitted, crowded, checking, refused>>
audit == <<broken, logged, reached>>
vars == <<settings, faults, gateway, limiter, audit>>

Rounds == {"infer", "answer"}
Labels == {"idle", "insert", "store", "upsert", "write", "respond", "template",
           "rate", "count", "model", "output", "usage", "finish", "done"}
Answers == {"none", "ok", "conflict", "not_found", "error", "blocked", "no_answer", "lost"}

(* A call to the gateway *)
Ask(r) == <<r, round[r]>>
AskType == Requests \X Rounds

Init ==
    /\ InitSettings
    /\ counter = 0
    /\ round = [r \in Requests |-> "answer"]
    /\ seen = [r \in Requests |-> 0]
    /\ broken = {}
    /\ source = [r \in Requests |-> "none"]
    /\ holds = [r \in Requests |-> {}]
    /\ logged = {} /\ reached = {} /\ admitted = {}
    /\ crowded = {} /\ checking = {} /\ refused = {}

(* The answer to a request is there *)
Said(r, who) ==
    /\ source' = [source EXCEPT ![r] = who]
    /\ holds' = [holds EXCEPT ![r] = call[r].answer.holds]

quiet == UNCHANGED <<call, before, loaded, budget, named, lastSet>>
-----------------------------------------------------------------------------
(* log_check: the row of a check is flushed and committed, or the session is left
   broken *)
LogCheck(r, kind, action) ==
    IF ~ Guarded THEN UNCHANGED <<logged, broken, faults>>
    ELSE \/ /\ r \notin broken
            /\ logged' = logged \cup {<<r, kind, action>>}
            /\ UNCHANGED <<broken, faults>>
         \/ /\ r \notin broken
            /\ Fault
            /\ broken' = broken \cup {r}
            /\ UNCHANGED logged
         \/ r \in broken /\ UNCHANGED <<logged, broken, faults>>

(* check_input *)
Passes(c) == c.clean \/ ~ Guarded

(* A request comes in and its input is checked *)
OpenCall(r) ==
    /\ At(r, "idle")
    /\ \E c \in Calls :
        /\ c.path \in LlmPaths
        /\ call' = [call EXCEPT ![r] = c]
        /\ LogCheck(r, "input", IF c.clean THEN "allowed" ELSE "blocked")
        /\ IF ~ Passes(c) THEN End(r, "blocked") /\ UNCHANGED round
           ELSE /\ Goto(r, IF c.path = "stream" THEN "respond"
                            ELSE IF c.path = "rag" THEN "rate" ELSE "template")
                /\ round' = [round EXCEPT ![r] = IF c.path = "rag" THEN "infer" ELSE "answer"]
                /\ UNCHANGED <<told, open, overlapped>>
    /\ UNCHANGED <<row, before, loaded, template, budget, written, named, lastSet,
                   source, holds, limiter, reached>>

(* chat_stream is over, and get_db with it, before its generator starts *)
Respond(r) ==
    /\ At(r, "respond")
    /\ IF r \in broken THEN End(r, "error")
                       ELSE Goto(r, "rate") /\ UNCHANGED <<told, open, overlapped>>
    /\ quiet
    /\ UNCHANGED <<row, template, written, gateway, limiter, audit, faults>>

(* The system prompt is rendered from the template, if that is active; then
   LlamaIndex answers, or the gateway is asked *)
RenderTemplate(r) ==
    /\ At(r, "template")
    /\ IF Target(r) # NoTemplate /\ r \in broken
       THEN End(r, "error") /\ UNCHANGED <<source, holds>>
       ELSE /\ \/ Goto(r, "rate") /\ UNCHANGED <<source, holds>>
               \/ /\ call[r].llama /\ Path(r) = "rag"
                  /\ Said(r, "llama")
                  /\ Goto(r, "output")
            /\ UNCHANGED <<told, open, overlapped>>
    /\ quiet
    /\ UNCHANGED <<row, template, written, round, limiter, audit, faults>>
-----------------------------------------------------------------------------
(* Without an answer of the gateway: search goes on without the types it would
   have inferred, rag_query puts the error into its answer, the others report it *)
NoAnswer(r) ==
    IF round[r] = "infer"
    THEN /\ Goto(r, "template")
         /\ round' = [round EXCEPT ![r] = "answer"]
         /\ UNCHANGED <<told, open, overlapped>>
    ELSE /\ IF Path(r) = "rag" THEN Goto(r, "finish") /\ UNCHANGED <<told, open, overlapped>>
            ELSE End(r, "error")
         /\ UNCHANGED round

(* Mutant of OverLimit: the last call of the limit is refused already *)
OverLimitEarly(n) == n # 0 /\ n + 1 >= Limit

(* _check_rate_limit compares what it read; a counter that is not there yet is
   compared with nothing *)
OverLimit(n) == n # 0 /\ n >= Limit

(* It reads the counter ... *)
ReadCounter(r) ==
    /\ At(r, "rate")
    /\ IF OverLimit(counter)
       THEN /\ NoAnswer(r)
            /\ refused' = refused \cup {Ask(r)}
            /\ UNCHANGED <<seen, crowded, checking>>
       ELSE /\ seen' = [seen EXCEPT ![r] = counter]
            /\ Goto(r, "count")
            /\ checking' = checking \cup {Ask(r)}
            /\ crowded' = IF checking = {} THEN crowded
                          ELSE crowded \cup checking \cup {Ask(r)}
            /\ UNCHANGED <<told, open, overlapped, round, refused>>
    /\ quiet
    /\ UNCHANGED <<row, template, written, source, holds, counter, admitted, audit, faults>>

(* The check of a call is over *)
Checked(r) ==
    /\ checking' = {q \in checking : q[1] # r}
    /\ seen' = [seen EXCEPT ![r] = 0]

(* ... and sets it *)
SetCounter(r) ==
    /\ At(r, "count")
    /\ counter' = seen[r] + 1
    /\ admitted' = admitted \cup {Ask(r)}
    /\ Checked(r)
    /\ Goto(r, "model")
    /\ quiet
    /\ UNCHANGED <<told, row, open, overlapped, template, written, gateway, crowded,
                   refused, audit, faults>>

(* Redis fails at one of the two: the call is let through without counting *)
LetThrough(r) ==
    /\ pc[r] \in {"rate", "count"}
    /\ Fault
    /\ Checked(r)
    /\ Goto(r, "model")
    /\ quiet
    /\ UNCHANGED <<told, row, open, overlapped, template, written, gateway, counter,
                   admitted, crowded, refused, audit>>

(* The model answers, or the call fails or takes longer than its time limit *)
ModelAnswers(r) ==
    /\ reached' = reached \cup {r}
    /\ \/ NoAnswer(r) /\ UNCHANGED <<source, holds>>
       \/ /\ round[r] = "answer"
          /\ Said(r, "llm")
          /\ Goto(r, "output")
          /\ UNCHANGED <<told, open, overlapped, round>>
    /\ quiet
    /\ UNCHANGED <<row, template, written, limiter, broken, logged, faults>>

AskModel(r) == At(r, "model") /\ Path(r) # "stream" /\ ModelAnswers(r)

(* The pieces of a stream are kept back until the last one is there *)
StreamModel(r) == At(r, "model") /\ Path(r) = "stream" /\ ModelAnswers(r)
-----------------------------------------------------------------------------
(* The output is checked, and what is left of it is sent whether it passed or not.
   A stream sends it now *)
CheckOutput(r) ==
    /\ At(r, "output")
    /\ LogCheck(r, "output", Action(call[r].answer, Path(r) = "rag", "markdown"))
    /\ holds' = [holds EXCEPT ![r] = IF Guarded THEN Kept(call[r].answer) ELSE @]
    /\ IF Path(r) = "stream" THEN End(r, "ok")
       ELSE /\ Goto(r, IF Target(r) # NoTemplate /\ source[r] = "llm" THEN "usage" ELSE "finish")
            /\ UNCHANGED <<told, open, overlapped>>
    /\ quiet
    /\ UNCHANGED <<row, template, written, round, source, limiter, reached>>

(* record_usage looks for the template again.  What raises here is an error of
   chat and a warning of rag_query *)
RecordUsage(r) ==
    /\ At(r, "usage")
    /\ IF r \in broken
       THEN /\ IF Path(r) = "chat" THEN End(r, "error")
               ELSE Goto(r, "finish") /\ UNCHANGED <<told, open, overlapped>>
            /\ UNCHANGED row
       ELSE /\ IF Load(r) THEN ReadUsage(r) ELSE UNCHANGED <<row, open, overlapped>>
            /\ Goto(r, "finish")
            /\ UNCHANGED told
    /\ quiet
    /\ UNCHANGED <<template, written, gateway, limiter, audit, faults>>

(* Mutant of Commits: a session that raises is taken for one with nothing to commit *)
CommitsAlways(r) == TRUE

(* Whether the commit of the session succeeds *)
Commits(r) == r \notin broken

(* get_db commits; only then the answer is sent *)
Finish(r) ==
    /\ At(r, "finish")
    /\ IF Commits(r)
       THEN /\ End(r, IF source[r] = "none" THEN "no_answer" ELSE "ok")
            /\ IF row[r] # NoRow THEN StoreUsage(r) ELSE UNCHANGED <<template, written>>
       ELSE End(r, "error") /\ UNCHANGED <<template, written>>
    /\ quiet
    /\ UNCHANGED <<row, gateway, limiter, audit, faults>>

(* The flush of the usage or the commit fails; or a lost connection makes the
   SELECT of a template fail *)
CallFails(r) ==
    /\ \/ pc[r] = "finish"
       \/ pc[r] \in {"template", "usage"} /\ Target(r) # NoTemplate
    /\ Fault
    /\ broken' = broken \cup {r}
    /\ quiet
    /\ UNCHANGED <<pc, told, row, open, overlapped, template, written, gateway, limiter,
                   logged, reached>>

(* The client of a stream goes away, and the generator is cancelled *)
Disconnect(r) ==
    /\ pc[r] \in {"rate", "count", "model", "output"} /\ Path(r) = "stream"
    /\ Fault
    /\ End(r, "lost")
    /\ Checked(r)
    /\ quiet
    /\ UNCHANGED <<row, template, written, gateway, counter, admitted, crowded, refused, audit>>
-----------------------------------------------------------------------------
CallStep(r) ==
    \/ OpenCall(r) \/ Respond(r) \/ RenderTemplate(r)
    \/ ReadCounter(r) \/ SetCounter(r) \/ LetThrough(r)
    \/ AskModel(r) \/ StreamModel(r)
    \/ CheckOutput(r) \/ RecordUsage(r) \/ Finish(r) \/ CallFails(r) \/ Disconnect(r)

Next ==
    \E r \in Requests :
        \/ SettingStep(r) /\ UNCHANGED <<gateway, limiter, audit>>
        \/ CallStep(r)

Spec == Init /\ [][Next]_vars
-----------------------------------------------------------------------------
(* Every variable has its type. *)
TypeOK ==
    /\ call \in [Requests -> Calls \cup {NoCall}]
    /\ pc \in [Requests -> Labels]
    /\ told \in [Requests -> Answers]
    /\ row \in [Requests -> TemplateRow \cup {NoRow}]
    /\ before \in [Requests -> Budget] /\ loaded \in [Requests -> Budget]
    /\ template \in [Templates -> TemplateRow]
    /\ budget \in Budget /\ lastSet \in Budget
    /\ open \subseteq Requests \X Columns /\ overlapped \subseteq Requests \X Columns
    /\ written \subseteq Requests \X Columns
    /\ named \in [Requests -> Nat]
    /\ faults \in 0 .. MaxFaults
    /\ counter \in Nat
    /\ round \in [Requests -> Rounds]
    /\ seen \in [Requests -> Nat]
    /\ broken \subseteq Requests
    /\ source \in [Requests -> {"none", "llm", "llama"}]
    /\ logged \subseteq Requests \X {"input", "output"} \X {"allowed", "redacted", "blocked"}
    /\ holds \in [Requests -> SUBSET Secrets]
    /\ reached \subseteq Requests
    /\ admitted \subseteq AskType /\ crowded \subseteq AskType
    /\ checking \subseteq AskType /\ refused \subseteq AskType

(* The limit is exceeded by no more than the calls whose checks overlapped or
   that found Redis failing, and no call is turned away unless as many as the
   limit were let through. *)
RateIsLimited ==
    /\ Cardinality(admitted \ crowded) <= IF Limit = 0 THEN 1 ELSE Limit
    /\ refused # {} => Cardinality(admitted) >= Limit

Logged(r, kind) == \E l \in logged : l[1] = r /\ l[2] = kind

(* What the guardrails block reaches no model.  Although the log is best effort,
   nobody gets an answer, nor the beginning of a stream, whose input has no row
   in the log, nor an answer outside of a stream whose output has none, and the
   answer to which two patterns apply is sent to nobody as it is. *)
AnswersAreAudited ==
    Guarded => \A r \in Requests :
        /\ r \in reached => call[r].clean
        /\ told[r] \in {"ok", "no_answer"} /\ Path(r) \in LlmPaths => Logged(r, "input")
        /\ told[r] = "ok" /\ Path(r) \in {"chat", "rag"} => Logged(r, "output")
        /\ told[r] = "ok" /\ Path(r) \in LlmPaths =>
              Cardinality(UNION {Matching[s] : s \in holds[r]}) < 2
=============================================================================
