-------------------------- MODULE ValidationTask --------------------------
(***************************************************************************)
(* The asynchronous validation of the interfaces of one tenant, up to      *)
(* Redis: the endpoints that create, update and archive an interface, and  *)
(* the Celery task validate_all_interfaces.                                *)
(*                                                                         *)
(* The endpoint enqueues the task before its transaction commits.  A worker*)
(* process reads the database, stores the report under the latest key and  *)
(* publishes it; a validation that fails is reported too, and retried.     *)
(***************************************************************************)
EXTENDS Naturals, FiniteSets

CONSTANTS
    Changes,     \* requests that create, update or archive an interface
    Archives,    \* those that archive one: they enqueue no task
    NoReport,    \* None, where a report is expected
    Workers,     \* worker processes (celery --concurrency=2)
    MaxRetries,  \* max_retries of the task (3 in the code)
    MaxFaults    \* bound on failed calls, crashes, restarts and expiries

ASSUME TaskAssumption ==
    /\ Archives \subseteq Changes
    /\ IsFiniteSet(Changes)
    /\ Workers \in Nat \ {0}
    /\ MaxRetries \in Nat
    /\ MaxFaults \in Nat

(* A report tells which committed changes its validation read.  completed_at
   makes the text of every attempt's report one of its own. *)
Report == [task : Changes, attempt : 0..MaxRetries, ok : BOOLEAN, saw : SUBSET Changes]

ASSUME ReportAssumption == NoReport \notin Report

VARIABLES
    transaction, \* where each change request stands
    db,        \* PostgreSQL: the committed changes
    task,      \* where the task of each change stands
    attempt,   \* self.request.retries of each task
    read,      \* the changes the last attempt of each task has read
    latest,    \* Redis: interface_validation:latest:{tenant}
    stored,    \* history: the reports stored so far
    overlap,   \* history: two attempts ran at the same time
    faults     \* history: how many faults have happened

vars == <<transaction, db, task, attempt, read, latest, stored, overlap, faults>>

Init ==
    /\ transaction = [c \in Changes |-> "idle"]
    /\ db = {}
    /\ task = [c \in Changes |-> "none"]
    /\ attempt = [c \in Changes |-> 0]
    /\ read = [c \in Changes |-> {}]
    /\ latest = NoReport
    /\ stored = {}
    /\ overlap = FALSE
    /\ faults = 0

Fault == faults < MaxFaults /\ faults' = faults + 1

-----------------------------------------------------------------------------
(* The endpoints: flush, enqueue, and commit when the request ends *)

Submit(c) ==
    /\ transaction[c] = "idle"
    /\ transaction' = [transaction EXCEPT ![c] = "flushed"]
    /\ \/ c \notin Archives /\ task' = [task EXCEPT ![c] = "queued"] /\ UNCHANGED faults
       \/ c \notin Archives /\ Fault /\ UNCHANGED task    \* delay() fails: logged
       \/ c \in Archives /\ UNCHANGED <<task, faults>>
    /\ UNCHANGED <<db, attempt, read, latest, stored, overlap>>

(* get_db commits after the endpoint has returned, or rolls back *)
Commit(c) ==
    /\ transaction[c] = "flushed"
    /\ \/ /\ db' = db \cup {c}
          /\ transaction' = [transaction EXCEPT ![c] = "done"]
          /\ UNCHANGED faults
       \/ /\ Fault
          /\ transaction' = [transaction EXCEPT ![c] = "failed"]
          /\ UNCHANGED db
    /\ UNCHANGED <<task, attempt, read, latest, stored, overlap>>

(* The API process restarts: the transactions in flight are rolled back *)
ApiRestart ==
    /\ Fault
    /\ transaction' =
            [c \in Changes |-> IF transaction[c] = "flushed" THEN "failed" ELSE transaction[c]]
    /\ UNCHANGED <<db, task, attempt, read, latest, stored, overlap>>

-----------------------------------------------------------------------------
(* The task *)

Running(c) == task[c] \in {"reading", "reported", "failing"}
Occupied == {c \in Changes : Running(c)}

(* A worker process takes the task and reads the interfaces *)
Take(c) ==
    /\ task[c] = "queued"
    /\ Cardinality(Occupied) < Workers
    /\ task' = [task EXCEPT ![c] = "reading"]
    /\ read' = [read EXCEPT ![c] = db]
    /\ overlap' = (overlap \/ Occupied # {})
    /\ UNCHANGED <<transaction, db, attempt, latest, stored, faults>>

ReportOf(c, ok) ==
    [task |-> c, attempt |-> attempt[c], ok |-> ok, saw |-> IF ok THEN read[c] ELSE {}]

(* Mutant of End: the retry is not raised *)
EndNoRetry(c, ok) ==
    /\ task' = [task EXCEPT ![c] = "done"]
    /\ UNCHANGED attempt

(* Mutant of End: retries are not counted *)
EndUncounted(c, ok) ==
    /\ task' = [task EXCEPT ![c] = IF ok THEN "done" ELSE "queued"]
    /\ UNCHANGED attempt

(* How an attempt ends: a failed one is retried, later, while retries are left *)
End(c, ok) ==
    IF ok \/ attempt[c] = MaxRetries
    THEN /\ task' = [task EXCEPT ![c] = IF ok THEN "done" ELSE "failed"]
         /\ UNCHANGED attempt
    ELSE /\ task' = [task EXCEPT ![c] = "queued"]
         /\ attempt' = [attempt EXCEPT ![c] = @ + 1]

(* Mutant of Store: the latest key is left for later, and publishing comes first *)
StoreLate(c) ==
    /\ task[c] = "reading"
    /\ \E ok \in BOOLEAN : task' = [task EXCEPT ![c] = IF ok THEN "reported" ELSE "failing"]
    /\ UNCHANGED <<transaction, db, attempt, read, latest, stored, overlap, faults>>

(* _publish_interface_validation stores the report, of a validation that
   succeeded or of its failure, and then publishes it.  A failure of Redis is
   logged, and ends the attempt as if it had been published. *)
Store(c) ==
    /\ task[c] = "reading"
    /\ \E ok \in BOOLEAN :
         \/ /\ latest' = ReportOf(c, ok)
            /\ stored' = stored \cup {ReportOf(c, ok)}
            /\ task' = [task EXCEPT ![c] = IF ok THEN "reported" ELSE "failing"]
            /\ UNCHANGED <<attempt, faults>>
         \/ Fault /\ End(c, ok) /\ UNCHANGED <<latest, stored>>
    /\ UNCHANGED <<transaction, db, read, overlap>>

Publish(c) ==
    /\ task[c] \in {"reported", "failing"}
    /\ End(c, task[c] = "reported")
    /\ \/ UNCHANGED faults
       \/ Fault                     \* the call to Redis fails
    /\ UNCHANGED <<transaction, db, read, latest, stored, overlap>>

(* A worker process dies: the task was acknowledged when it was taken *)
WorkerCrash(c) ==
    /\ Running(c)
    /\ Fault
    /\ task' = [task EXCEPT ![c] = "lost"]
    /\ UNCHANGED <<transaction, db, attempt, read, latest, stored, overlap>>

(* The latest key lives for 300 seconds *)
Expire ==
    /\ latest # NoReport
    /\ Fault
    /\ latest' = NoReport
    /\ UNCHANGED <<transaction, db, task, attempt, read, stored, overlap>>

Worker(c) == Take(c) \/ Store(c) \/ Publish(c)

Next ==
    \/ \E c \in Changes : Submit(c) \/ Commit(c) \/ Worker(c) \/ WorkerCrash(c)
    \/ ApiRestart
    \/ Expire

(* A request that has begun ends, and a worker that is free takes a task that
   waits and finishes it: the validation is one pass over the tenant's types *)
Fairness == \A c \in Changes : WF_vars(Commit(c)) /\ WF_vars(Worker(c))

Spec == Init /\ [][Next]_vars /\ Fairness

-----------------------------------------------------------------------------
(* Properties *)

(* Type correctness: what each variable holds. *)
TypeOK ==
    /\ transaction \in [Changes -> {"idle", "flushed", "done", "failed"}]
    /\ db \in SUBSET Changes
    /\ task \in [Changes -> {"none", "queued", "reading", "reported", "failing",
                             "done", "failed", "lost"}]
    /\ attempt \in [Changes -> 0..MaxRetries]
    /\ read \in [Changes -> SUBSET Changes]
    /\ latest \in Report \cup {NoReport}
    /\ stored \in SUBSET Report
    /\ overlap \in BOOLEAN
    /\ faults \in 0..MaxFaults

(* No request and no task is under way *)
Quiet ==
    \A c \in Changes : transaction[c] # "flushed" /\ task[c] # "queued" /\ ~Running(c)

Covers(report, c) == report # NoReport /\ c \in report.saw

(* What may keep a change out of the report: a fault, two attempts at once (the
   older reading may be stored last), a task that used up its retries, or its
   own task having read the database before the change was committed *)
Excused(c) ==
    \/ faults > 0
    \/ overlap
    \/ \E d \in Changes : task[d] = "failed"
    \/ task[c] = "done" /\ c \notin read[c]

(* When all is quiet, the latest report is of a validation that saw every change
   whose task ran after its commit, whatever failed and was retried in between:
   without overlapping attempts a retry never puts back an older view. *)
FreshWins ==
    Quiet => \A c \in db \ Archives : Excused(c) \/ Covers(latest, c)

(* A committed change is in the end, and from then on, in the latest report, but
   for the same excuses: no task waits or is retried for ever. *)
ChangeReported ==
    <>[](\A c \in db \ Archives : Excused(c) \/ Covers(latest, c))

(* The reports stored and not yet published *)
Open == {c \in Changes : task[c] \in {"reported", "failing"}}
Pending == {ReportOf(c, task[c] = "reported") : c \in Open}

Feed == INSTANCE ReportFeed WITH pending <- Pending

(* The workers keep what the API process relies on: a report is stored once
   and then published, and no more are under way than there are worker processes. *)
FeedKept == Feed!FeedSpec
=============================================================================
