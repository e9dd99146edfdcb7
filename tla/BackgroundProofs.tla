-------------------------- MODULE BackgroundProofs --------------------------
(***************************************************************************)
(* Proofs about the work that follows a response, in a Celery worker or in *)
(* the process that answered.                                              *)
(*                                                                         *)
(* ValidationTask, for any changes, numbers of workers and retries: type   *)
(* correctness, FreshWins, and that the workers implement ReportFeed.      *)
(*                                                                         *)
(* DecisionFlows, for any requests, outages and restarts: the records of   *)
(* the executions settle, the flows are as the endpoints answered, and     *)
(* GET /health tells of the start.                                         *)
(***************************************************************************)
EXTENDS ValidationTask, DecisionFlows, FiniteSetTheorems, TLAPS

(* Whatever a task reports is a report. *)
LEMMA ReportType ==
    ASSUME TypeOK, NEW c \in Changes, NEW ok \in BOOLEAN
    PROVE  ReportOf(c, ok) \in Report
BY DEF TypeOK, ReportOf, Report

(* An attempt that ends leaves tasks and retries well-typed. *)
LEMMA EndType ==
    ASSUME TypeOK, NEW c \in Changes, NEW ok \in BOOLEAN, End(c, ok)
    PROVE  TypeOK!3' /\ TypeOK!4'
BY TaskAssumption DEF TypeOK, End

LEMMA TypeInit == Init => TypeOK
<1> SUFFICES ASSUME Init
             PROVE  TypeOK
  OBVIOUS
<1>1. read \in [Changes -> SUBSET Changes]
  BY DEF Init
<1>2. attempt \in [Changes -> 0..MaxRetries] /\ faults \in 0..MaxFaults
  BY TaskAssumption DEF Init
<1>3. QED
  BY <1>1, <1>2 DEF Init, TypeOK

LEMMA TypeNext == TypeOK /\ [Next]_vars => TypeOK'
<1> SUFFICES ASSUME TypeOK, [Next]_vars
             PROVE  TypeOK'
  OBVIOUS
<1> USE TaskAssumption
<1>1. ASSUME NEW c \in Changes, Submit(c)
      PROVE  TypeOK'
  BY <1>1 DEF TypeOK, Submit, Fault
<1>2. ASSUME NEW c \in Changes, Commit(c)
      PROVE  TypeOK'
  BY <1>2 DEF TypeOK, Commit, Fault
<1>3. ASSUME NEW c \in Changes, Take(c)
      PROVE  TypeOK'
  BY <1>3 DEF TypeOK, Take
<1>4. ASSUME NEW c \in Changes, Store(c)
      PROVE  TypeOK'
  <2>1. PICK ok \in BOOLEAN :
          \/ /\ latest' = ReportOf(c, ok) /\ stored' = stored \cup {ReportOf(c, ok)}
             /\ task' = [task EXCEPT ![c] = IF ok THEN "reported" ELSE "failing"]
             /\ UNCHANGED <<attempt, faults>>
          \/ Fault /\ End(c, ok) /\ UNCHANGED <<latest, stored>>
    BY <1>4 DEF Store
  <2>2. CASE /\ latest' = ReportOf(c, ok) /\ stored' = stored \cup {ReportOf(c, ok)}
             /\ UNCHANGED <<attempt, faults>>
             /\ task' = [task EXCEPT ![c] = IF ok THEN "reported" ELSE "failing"]
    <3>1. latest' \in Report /\ stored' \subseteq Report
      BY <2>2, ReportType DEF TypeOK
    <3>2. QED
      BY <1>4, <2>2, <3>1 DEF TypeOK, Store
  <2>3. CASE Fault /\ End(c, ok) /\ UNCHANGED <<latest, stored>>
    BY <1>4, <2>3, EndType DEF TypeOK, Store, Fault
  <2>4. QED
    BY <2>1, <2>2, <2>3
<1>5. ASSUME NEW c \in Changes, Publish(c)
      PROVE  TypeOK'
  <2>1. End(c, task[c] = "reported") /\ (task[c] = "reported") \in BOOLEAN
    BY <1>5 DEF Publish
  <2>2. TypeOK!3' /\ TypeOK!4'
    BY <2>1, EndType
  <2>3. QED
    BY <1>5, <2>2 DEF TypeOK, Publish, Fault
<1>6. ASSUME NEW c \in Changes, WorkerCrash(c)
      PROVE  TypeOK'
  BY <1>6 DEF TypeOK, WorkerCrash, Fault
<1>7. CASE ApiRestart
  BY <1>7 DEF TypeOK, ApiRestart, Fault
<1>8. CASE Expire
  BY <1>8 DEF TypeOK, Expire, Fault
<1>9. CASE UNCHANGED vars
  BY <1>9 DEF TypeOK, vars
<1>10. QED
  BY <1>1, <1>2, <1>3, <1>4, <1>5, <1>6, <1>7, <1>8, <1>9 DEF Next, Worker

(* Type correctness of the endpoints and the task, whatever the number of
   changes, workers and retries: no task is retried more than MaxRetries times. *)
THEOREM TypeCorrect == Spec => []TypeOK
BY TypeInit, TypeNext, PTL DEF Spec

-----------------------------------------------------------------------------
(* A task belongs to a request that has begun. *)
RequestFirst == \A c \in Changes : transaction[c] = "idle" => task[c] = "none"

LEMMA RequestFirstInit == Init => RequestFirst
BY DEF Init, RequestFirst

LEMMA RequestFirstNext == TypeOK /\ RequestFirst /\ [Next]_vars => RequestFirst'
<1> SUFFICES ASSUME TypeOK, RequestFirst, [Next]_vars
             PROVE  RequestFirst'
  OBVIOUS
<1> USE DEF RequestFirst, TypeOK
<1>1. ASSUME NEW c \in Changes, Submit(c)
      PROVE  RequestFirst'
  BY <1>1 DEF Submit
<1>2. ASSUME NEW c \in Changes, Commit(c)
      PROVE  RequestFirst'
  BY <1>2 DEF Commit
<1>3. ASSUME NEW c \in Changes, Worker(c) \/ WorkerCrash(c)
      PROVE  RequestFirst'
  BY <1>3 DEF Worker, Take, Store, Publish, End, WorkerCrash, Running
<1>4. CASE ApiRestart \/ Expire \/ UNCHANGED vars
  BY <1>4 DEF ApiRestart, Expire, vars
<1>5. QED
  BY <1>1, <1>2, <1>3, <1>4 DEF Next

LEMMA AlwaysTyped == Spec => [](TypeOK /\ RequestFirst)
BY TypeInit, TypeNext, RequestFirstInit, RequestFirstNext, PTL DEF Spec

-----------------------------------------------------------------------------
(* What was read was committed, and stays so. *)
CommittedInv == /\ \A c \in Changes : read[c] \subseteq db
                /\ \A r \in stored : r.saw \subseteq db

LEMMA CommittedInit == Init => CommittedInv
BY DEF Init, CommittedInv

LEMMA CommittedNext == TypeOK /\ CommittedInv /\ [Next]_vars => CommittedInv'
<1> SUFFICES ASSUME TypeOK, CommittedInv, [Next]_vars
             PROVE  CommittedInv'
  OBVIOUS
<1>1. ASSUME NEW c \in Changes, Submit(c) \/ Publish(c) \/ WorkerCrash(c)
      PROVE  CommittedInv'
  BY <1>1 DEF Submit, Publish, WorkerCrash, CommittedInv
<1>2. ASSUME NEW c \in Changes, Commit(c)
      PROVE  CommittedInv'
  BY <1>2 DEF Commit, CommittedInv
<1>3. ASSUME NEW c \in Changes, Take(c)
      PROVE  CommittedInv'
  BY <1>3 DEF Take, CommittedInv, TypeOK
<1>4. ASSUME NEW c \in Changes, Store(c)
      PROVE  CommittedInv'
  <2>1. \A ok \in BOOLEAN : ReportOf(c, ok).saw \subseteq db
    BY DEF ReportOf, CommittedInv
  <2>2. \A r \in stored' : r.saw \subseteq db
    BY <1>4, <2>1 DEF Store, CommittedInv
  <2>3. QED
    BY <1>4, <2>2 DEF Store, CommittedInv
<1>5. CASE ApiRestart \/ Expire \/ UNCHANGED vars
  BY <1>5 DEF ApiRestart, Expire, vars, CommittedInv
<1>6. QED
  BY <1>1, <1>2, <1>3, <1>4, <1>5 DEF Next, Worker

(* A report tells of nothing that was not committed, although its task is enqueued
   before the commit: for any changes, retries, workers, crashes and restarts
   (validate_all_interfaces reads what is committed, and nothing takes it back). *)
THEOREM ReportsTellCommitted == Spec => [](\A r \in stored : r.saw \subseteq db)
<1>1. CommittedInv => \A r \in stored : r.saw \subseteq db
  BY DEF CommittedInv
<1>2. QED
  BY <1>1, CommittedInit, CommittedNext, AlwaysTyped, PTL DEF Spec

-----------------------------------------------------------------------------
(* Without faults and without overlapping attempts, the latest report is the
   freshest *)

(* A change is not committed before its task is there, and no task is lost. *)
TasksThere ==
    \A c \in Changes :
        /\ task[c] # "lost"
        /\ c \notin Archives /\ transaction[c] # "idle" => task[c] # "none"

CommittedAsked == \A c \in db : transaction[c] # "idle"

ReadsCommitted == \A c \in Changes : read[c] \subseteq db

(* Of two attempts under way, one would have been taken during the other. *)
OneAtATime == \A c, d \in Changes : Running(c) /\ Running(d) => c = d

(* The attempt under way has read at least what any other has. *)
RunnerFreshest == \A c, d \in Changes : Running(c) => read[d] \subseteq read[c]

(* A task that has reported is in what the latest report saw, and a failure
   stays the latest report only while its task has an attempt to come. *)
LatestFreshest ==
    /\ latest = NoReport => \A c \in Changes : task[c] \in {"none", "queued", "reading"}
    /\ latest # NoReport /\ latest.ok =>
           \A c \in Changes : task[c] # "reading" => read[c] \subseteq latest.saw
    /\ latest # NoReport /\ ~latest.ok =>
           task[latest.task] \in {"failing", "queued", "reading", "failed"}

Undisturbed == faults = 0 /\ ~overlap

FreshInv ==
    Undisturbed => /\ TasksThere /\ CommittedAsked /\ ReadsCommitted
                   /\ OneAtATime /\ RunnerFreshest /\ LatestFreshest

LEMMA FreshInit == Init => FreshInv
BY DEF Init, FreshInv, TasksThere, CommittedAsked, ReadsCommitted, OneAtATime,
       RunnerFreshest, LatestFreshest, Running

(* A fault, or an overlap, is never forgotten. *)
LEMMA DisturbedForGood ==
    ASSUME TypeOK, [Next]_vars, Undisturbed'
    PROVE  Undisturbed /\ UNCHANGED faults
<1>1. faults \in Nat
  BY TaskAssumption DEF TypeOK
<1>2. faults' = faults \/ faults' = faults + 1
  BY DEF Next, Worker, Submit, Commit, Take, Store, Publish, WorkerCrash, ApiRestart, Expire,
         Fault, vars
<1>3. overlap' = FALSE => overlap = FALSE
  BY DEF Next, Worker, Submit, Commit, Take, Store, Publish, WorkerCrash, ApiRestart, Expire,
         vars, TypeOK
<1>4. faults' = 0
  BY DEF Undisturbed
<1>5. UNCHANGED faults /\ faults = 0
  BY <1>1, <1>2, <1>4
<1>6. ~overlap
  BY <1>3 DEF Undisturbed, TypeOK
<1>7. QED
  BY <1>5, <1>6 DEF Undisturbed

(* A step under way with no fault: Fault is not taken. *)
LEMMA NoFault ==
    ASSUME TypeOK, UNCHANGED faults
    PROVE  ~Fault
BY TaskAssumption DEF TypeOK, Fault

LEMMA FreshNext == TypeOK /\ RequestFirst /\ FreshInv /\ [Next]_vars => FreshInv'
<1> SUFFICES ASSUME TypeOK, RequestFirst, FreshInv, [Next]_vars, Undisturbed'
             PROVE  /\ TasksThere' /\ CommittedAsked' /\ ReadsCommitted'
                    /\ OneAtATime' /\ RunnerFreshest' /\ LatestFreshest'
  BY DEF FreshInv
<1>0. /\ Undisturbed /\ UNCHANGED faults /\ ~Fault
      /\ TasksThere /\ CommittedAsked /\ ReadsCommitted
      /\ OneAtATime /\ RunnerFreshest /\ LatestFreshest
  BY DisturbedForGood, NoFault DEF FreshInv
<1>1. ASSUME NEW c \in Changes, Submit(c)
      PROVE  /\ TasksThere' /\ CommittedAsked' /\ ReadsCommitted'
             /\ OneAtATime' /\ RunnerFreshest' /\ LatestFreshest'
  <2>1. /\ transaction' = [transaction EXCEPT ![c] = "flushed"]
        /\ task' = task \/ task' = [task EXCEPT ![c] = "queued"]
        /\ c \notin Archives => task'[c] = "queued"
        /\ UNCHANGED <<db, read, latest>>
    BY <1>0, <1>1 DEF Submit, TypeOK
  <2>2. TasksThere' /\ CommittedAsked' /\ ReadsCommitted'
    BY <1>0, <2>1 DEF TasksThere, CommittedAsked, ReadsCommitted, TypeOK
  <2>3. OneAtATime' /\ RunnerFreshest'
    BY <1>0, <2>1 DEF OneAtATime, RunnerFreshest, Running, TypeOK
  <2>4. LatestFreshest'
    <3>1. task[c] = "none"
      BY <1>1 DEF RequestFirst, Submit
    <3>2. latest # NoReport => latest.task \in Changes
      BY DEF TypeOK, Report
    <3>3. QED
      BY <1>0, <2>1, <3>1, <3>2 DEF LatestFreshest, TypeOK
  <2>5. QED
    BY <2>2, <2>3, <2>4
<1>2. ASSUME NEW c \in Changes, Commit(c)
      PROVE  /\ TasksThere' /\ CommittedAsked' /\ ReadsCommitted'
             /\ OneAtATime' /\ RunnerFreshest' /\ LatestFreshest'
  <2>1. /\ transaction[c] = "flushed" /\ transaction' = [transaction EXCEPT ![c] = "done"]
        /\ db' = db \cup {c}
        /\ UNCHANGED <<task, read, latest>>
    BY <1>0, <1>2 DEF Commit
  <2>2. TasksThere' /\ CommittedAsked' /\ ReadsCommitted'
    BY <1>0, <2>1 DEF TasksThere, CommittedAsked, ReadsCommitted, TypeOK
  <2>3. OneAtATime' /\ RunnerFreshest' /\ LatestFreshest'
    BY <1>0, <2>1 DEF OneAtATime, RunnerFreshest, LatestFreshest, Running
  <2>4. QED
    BY <2>2, <2>3
<1>3. ASSUME NEW c \in Changes, Take(c)
      PROVE  /\ TasksThere' /\ CommittedAsked' /\ ReadsCommitted'
             /\ OneAtATime' /\ RunnerFreshest' /\ LatestFreshest'
  <2>1. /\ task[c] = "queued" /\ task' = [task EXCEPT ![c] = "reading"]
        /\ read' = [read EXCEPT ![c] = db]
        /\ UNCHANGED <<transaction, db, latest>>
    BY <1>3 DEF Take
  <2>2. \A d \in Changes : ~Running(d)
    BY <1>3 DEF Take, Occupied, Undisturbed
  <2>3. TasksThere' /\ CommittedAsked' /\ ReadsCommitted'
    BY <1>0, <2>1 DEF TasksThere, CommittedAsked, ReadsCommitted, TypeOK
  <2>4. OneAtATime'
    BY <2>1, <2>2 DEF OneAtATime, Running, TypeOK
  <2>5. RunnerFreshest'
    BY <1>0, <2>1, <2>2 DEF RunnerFreshest, ReadsCommitted, Running, TypeOK
  <2>6. LatestFreshest'
    <3>1. ASSUME latest # NoReport, latest.ok, NEW d \in Changes, task'[d] # "reading"
          PROVE  read'[d] \subseteq latest.saw
      BY <1>0, <2>1, <3>1 DEF LatestFreshest, TypeOK
    <3>2. ASSUME latest = NoReport, NEW d \in Changes
          PROVE  task'[d] \in {"none", "queued", "reading"}
      BY <1>0, <2>1, <3>2 DEF LatestFreshest, TypeOK
    <3>3. ASSUME latest # NoReport, ~latest.ok
          PROVE  task'[latest.task] \in {"failing", "queued", "reading", "failed"}
      <4>1. latest.task \in Changes
        BY <3>3 DEF TypeOK, Report
      <4>2. QED
        BY <1>0, <2>1, <3>3, <4>1 DEF LatestFreshest, TypeOK
    <3>4. QED
      BY <2>1, <3>1, <3>2, <3>3 DEF LatestFreshest
  <2>7. QED
    BY <2>3, <2>4, <2>5, <2>6
<1>4. ASSUME NEW c \in Changes, Store(c)
      PROVE  /\ TasksThere' /\ CommittedAsked' /\ ReadsCommitted'
             /\ OneAtATime' /\ RunnerFreshest' /\ LatestFreshest'
  <2>1. PICK ok \in BOOLEAN :
          /\ latest' = ReportOf(c, ok)
          /\ task' = [task EXCEPT ![c] = IF ok THEN "reported" ELSE "failing"]
    BY <1>0, <1>4 DEF Store
  <2>2. task[c] = "reading" /\ UNCHANGED <<transaction, db, read>>
    BY <1>4 DEF Store
  <2>3. TasksThere' /\ CommittedAsked' /\ ReadsCommitted'
    BY <1>0, <2>1, <2>2 DEF TasksThere, CommittedAsked, ReadsCommitted, TypeOK
  <2>4. OneAtATime' /\ RunnerFreshest'
    BY <1>0, <2>1, <2>2 DEF OneAtATime, RunnerFreshest, Running, TypeOK
  <2>5. LatestFreshest'
    <3>1. latest' \in Report
      BY <2>1, ReportType
    <3>2. latest' # NoReport /\ latest'.task = c /\ latest'.ok = ok
      BY <2>1, <3>1, ReportAssumption DEF ReportOf
    <3>3. ASSUME latest'.ok, NEW d \in Changes
          PROVE  read'[d] \subseteq latest'.saw
      <4>1. latest'.saw = read[c]
        BY <2>1, <3>2, <3>3 DEF ReportOf
      <4>2. read[d] \subseteq read[c]
        BY <1>0, <2>2 DEF RunnerFreshest, Running
      <4>3. QED
        BY <2>2, <4>1, <4>2
    <3>4. ~latest'.ok => task'[latest'.task] = "failing"
      BY <2>1, <3>2 DEF TypeOK
    <3>5. QED
      BY <3>2, <3>3, <3>4 DEF LatestFreshest
  <2>6. QED
    BY <2>3, <2>4, <2>5
<1>5. ASSUME NEW c \in Changes, Publish(c)
      PROVE  /\ TasksThere' /\ CommittedAsked' /\ ReadsCommitted'
             /\ OneAtATime' /\ RunnerFreshest' /\ LatestFreshest'
  <2>1. PICK s \in {"done", "failed", "queued"} :
          /\ task' = [task EXCEPT ![c] = s]
          /\ task[c] = "failing" => s # "done"
    BY <1>5 DEF Publish, End
  <2>2. task[c] \in {"reported", "failing"} /\ UNCHANGED <<transaction, db, read, latest>>
    BY <1>5 DEF Publish
  <2>3. TasksThere' /\ CommittedAsked' /\ ReadsCommitted'
    BY <1>0, <2>1, <2>2 DEF TasksThere, CommittedAsked, ReadsCommitted, TypeOK
  <2>4. OneAtATime' /\ RunnerFreshest'
    BY <1>0, <2>1, <2>2 DEF OneAtATime, RunnerFreshest, Running, TypeOK
  <2>5. LatestFreshest'
    <3>1. latest # NoReport
      BY <1>0, <2>2 DEF LatestFreshest
    <3>2. ASSUME latest.ok, NEW d \in Changes, task'[d] # "reading"
          PROVE  read[d] \subseteq latest.saw
      <4>1. task[d] # "reading"
        BY <2>1, <2>2, <3>2 DEF TypeOK
      <4>2. QED
        BY <1>0, <3>1, <3>2, <4>1 DEF LatestFreshest
    <3>3. ASSUME ~latest.ok
          PROVE  task'[latest.task] \in {"failing", "queued", "reading", "failed"}
      <4>1. task[latest.task] \in {"failing", "queued", "reading", "failed"}
        BY <1>0, <3>1, <3>3 DEF LatestFreshest
      <4>2. CASE latest.task = c
        BY <2>1, <2>2, <4>1, <4>2 DEF TypeOK
      <4>3. CASE latest.task # c
        BY <2>1, <4>1, <4>3 DEF TypeOK
      <4>4. QED
        BY <4>2, <4>3
    <3>4. QED
      BY <2>2, <3>1, <3>2, <3>3 DEF LatestFreshest
  <2>6. QED
    BY <2>3, <2>4, <2>5
<1>6. CASE UNCHANGED vars
  BY <1>0, <1>6 DEF vars, TasksThere, CommittedAsked, ReadsCommitted, OneAtATime,
                    RunnerFreshest, LatestFreshest, Running
<1>7. QED
  BY <1>0, <1>1, <1>2, <1>3, <1>4, <1>5, <1>6
     DEF Next, Worker, WorkerCrash, ApiRestart, Expire

LEMMA FreshIsFresh == TypeOK /\ FreshInv => FreshWins
<1> SUFFICES ASSUME TypeOK, FreshInv, Quiet, NEW c \in db \ Archives, ~Excused(c)
             PROVE  Covers(latest, c)
  BY DEF FreshWins
<1>1. /\ Undisturbed /\ c \in Changes
      /\ \A d \in Changes : task[d] # "failed"
      /\ task[c] = "done" => c \in read[c]
  BY DEF Excused, Undisturbed, TypeOK
<1>2. TasksThere /\ CommittedAsked /\ LatestFreshest
  BY <1>1 DEF FreshInv
<1>3. task[c] = "done"
  BY <1>1, <1>2 DEF TasksThere, CommittedAsked, Quiet, Running, TypeOK
<1>4. latest # NoReport /\ latest \in Report
  BY <1>1, <1>2, <1>3 DEF LatestFreshest, TypeOK
<1>5. latest.ok
  <2>1. latest.task \in Changes
    BY <1>4 DEF Report
  <2>2. QED
    BY <1>1, <1>2, <1>4, <2>1 DEF LatestFreshest, Quiet, Running
<1>6. read[c] \subseteq latest.saw
  BY <1>1, <1>2, <1>3, <1>4, <1>5 DEF LatestFreshest
<1>7. QED
  BY <1>1, <1>3, <1>4, <1>6 DEF Covers

(* The latest report is the freshest: when all is quiet it saw every committed
   change, but for the races and failures FreshWins names, for any number of
   changes, workers and retries. *)
THEOREM FreshReportWins == Spec => []FreshWins
<1>1. Spec => []FreshInv
  BY AlwaysTyped, FreshInit, FreshNext, PTL DEF Spec
<1>2. QED
  BY <1>1, TypeCorrect, FreshIsFresh, PTL

-----------------------------------------------------------------------------
(* The workers implement ReportFeed *)

BusyBounded == Cardinality(Occupied) <= Workers

LEMMA BusyFinite == IsFiniteSet(Occupied) /\ Cardinality(Occupied) \in Nat
<1>1. Occupied \in SUBSET Changes
  BY DEF Occupied
<1>2. QED
  BY <1>1, TaskAssumption, FS_Subset, FS_CardinalityType

LEMMA BusyInit == Init => BusyBounded
<1> SUFFICES ASSUME Init
             PROVE  BusyBounded
  OBVIOUS
<1>1. Occupied = {}
  BY DEF Init, Occupied, Running
<1>2. QED
  BY <1>1, FS_EmptySet, TaskAssumption DEF BusyBounded

(* Only Take makes a task busy, and it waits for a free worker. *)
LEMMA BusyNext == TypeOK /\ BusyBounded /\ [Next]_vars => BusyBounded'
<1> SUFFICES ASSUME TypeOK, BusyBounded, [Next]_vars
             PROVE  BusyBounded'
  OBVIOUS
<1>0. IsFiniteSet(Occupied) /\ Cardinality(Occupied) \in Nat
  BY BusyFinite
<1>1. ASSUME NEW c \in Changes, Take(c)
      PROVE  BusyBounded'
  <2>1. Occupied' = Occupied \cup {c}
    BY <1>1 DEF Take, Occupied, Running, TypeOK
  <2>2. Cardinality(Occupied) < Workers
    BY <1>1 DEF Take
  <2>3. Cardinality(Occupied \cup {c}) <= Cardinality(Occupied) + 1
    <3>1. Cardinality(Occupied \cup {c}) =
            IF c \in Occupied THEN Cardinality(Occupied) ELSE Cardinality(Occupied) + 1
      BY <1>0, FS_AddElement
    <3>2. QED
      BY <1>0, <3>1
  <2>4. Cardinality(Occupied \cup {c}) \in Nat
    BY <1>0, FS_AddElement, FS_CardinalityType
  <2>5. QED
    BY <1>0, <2>1, <2>2, <2>3, <2>4, TaskAssumption DEF BusyBounded
<1>2. ASSUME Occupied' \subseteq Occupied
      PROVE  BusyBounded'
  <2>1. Cardinality(Occupied') <= Cardinality(Occupied) /\ Cardinality(Occupied') \in Nat
    BY <1>0, <1>2, FS_Subset, FS_CardinalityType
  <2>2. QED
    BY <1>0, <2>1, TaskAssumption DEF BusyBounded
<1>3. ASSUME NEW c \in Changes, Submit(c)
      PROVE  Occupied' \subseteq Occupied
  BY <1>3 DEF Submit, Occupied, Running, TypeOK
<1>4. ASSUME NEW c \in Changes, Commit(c)
      PROVE  Occupied' \subseteq Occupied
  BY <1>4 DEF Commit, Occupied, Running
<1>5. ASSUME NEW c \in Changes, Store(c)
      PROVE  Occupied' \subseteq Occupied
  BY <1>5 DEF Store, End, Occupied, Running, TypeOK
<1>6. ASSUME NEW c \in Changes, Publish(c)
      PROVE  Occupied' \subseteq Occupied
  BY <1>6 DEF Publish, End, Occupied, Running, TypeOK
<1>7. ASSUME NEW c \in Changes, WorkerCrash(c)
      PROVE  Occupied' \subseteq Occupied
  BY <1>7 DEF WorkerCrash, Occupied, Running, TypeOK
<1>8. CASE ApiRestart \/ Expire \/ UNCHANGED vars
  <2>1. Occupied' \subseteq Occupied
    BY <1>8 DEF ApiRestart, Expire, vars, Occupied, Running
  <2>2. QED
    BY <1>2, <2>1
<1>9. QED
  BY <1>1, <1>2, <1>3, <1>4, <1>5, <1>6, <1>7, <1>8 DEF Next, Worker

(* While an attempt has not reported, another worker's report may be open, but
   never as many as there are workers. *)
LEMMA RoomToReport ==
    ASSUME TypeOK, BusyBounded, NEW c \in Changes, task[c] = "reading"
    PROVE  Cardinality(Pending) \in Nat /\ Cardinality(Pending) < Workers
<1> DEFINE others == Occupied \ {c}
           owner == [r \in Pending |-> r.task]
<1>1. IsFiniteSet(others) /\ Cardinality(others) = Cardinality(Occupied) - 1
  <2>1. c \in Occupied
    BY DEF Occupied, Running
  <2>2. QED
    BY <2>1, BusyFinite, FS_RemoveElement
<1>2. owner \in Injection(Pending, others)
  <2>1. \A r \in Pending : /\ r.task \in others
                           /\ r = ReportOf(r.task, task[r.task] = "reported")
    BY DEF Pending, Open, ReportOf, Occupied, Running
  <2>2. owner \in [Pending -> others]
    BY <2>1
  <2>3. ASSUME NEW a \in Pending, NEW b \in Pending, owner[a] = owner[b]
        PROVE  a = b
    BY <2>1, <2>3
  <2>4. QED
    BY <2>2, <2>3 DEF Injection, IsInjective
<1>3. IsFiniteSet(Pending) /\ Cardinality(Pending) <= Cardinality(others)
  BY <1>1, <1>2, FS_Injection
<1>4. QED
  BY <1>1, <1>3, BusyFinite, FS_CardinalityType, TaskAssumption DEF BusyBounded

(* A stored report is of an earlier attempt of its task, or of the present one,
   which then has reported. *)
StoredBefore ==
    \A r \in stored :
        \/ r.attempt < attempt[r.task]
        \/ /\ r.attempt = attempt[r.task]
           /\ task[r.task] \in {"reported", "failing", "done", "failed", "lost"}

LEMMA StoredInit == Init => StoredBefore
BY DEF Init, StoredBefore

(* Only Store adds a report; a task is queued again with a higher attempt. *)
LEMMA StoredNext ==
    TypeOK /\ RequestFirst /\ StoredBefore /\ [Next]_vars => StoredBefore'
<1> SUFFICES ASSUME TypeOK, RequestFirst, StoredBefore, [Next]_vars
             PROVE  StoredBefore'
  OBVIOUS
<1> DEFINE Told == {"reported", "failing", "done", "failed", "lost"}
<1>1. ASSUME NEW r \in Report,
             \/ r.attempt < attempt[r.task]
             \/ r.attempt = attempt[r.task] /\ task[r.task] \in Told,
             \/ /\ UNCHANGED attempt
                /\ task[r.task] \in Told => task'[r.task] \in Told
             \/ attempt'[r.task] = attempt[r.task] + 1
      PROVE  \/ r.attempt < attempt'[r.task]
             \/ r.attempt = attempt'[r.task] /\ task'[r.task] \in Told
  <2>1. r.attempt \in Int /\ attempt[r.task] \in Int
    BY TaskAssumption DEF TypeOK, Report
  <2>2. QED
    BY <1>1, <2>1
<1>2. ASSUME UNCHANGED stored,
             \A c \in Changes :
                \/ UNCHANGED attempt /\ (task[c] \in Told => task'[c] \in Told)
                \/ attempt'[c] = attempt[c] + 1
                \/ attempt'[c] = attempt[c] /\ task'[c] = task[c]
      PROVE  StoredBefore'
  <2> SUFFICES ASSUME NEW r \in stored
               PROVE  \/ r.attempt < attempt'[r.task]
                      \/ r.attempt = attempt'[r.task] /\ task'[r.task] \in Told
    BY <1>2 DEF StoredBefore
  <2>1. r \in Report /\ r.task \in Changes
    BY DEF TypeOK, Report
  <2>2. CASE attempt'[r.task] = attempt[r.task] /\ task'[r.task] = task[r.task]
    BY <2>2 DEF StoredBefore
  <2>3. QED
    BY <1>1, <1>2, <2>1, <2>2 DEF StoredBefore
<1>3. ASSUME NEW c \in Changes, NEW ok \in BOOLEAN, End(c, ok), UNCHANGED stored
      PROVE  StoredBefore'
  <2>1. CASE UNCHANGED attempt
    <3>1. \A d \in Changes : task[d] \in Told => task'[d] \in Told
      BY <1>3, <2>1 DEF End, TypeOK
    <3>2. QED
      BY <1>2, <1>3, <2>1, <3>1
  <2>2. CASE /\ task' = [task EXCEPT ![c] = "queued"]
             /\ attempt' = [attempt EXCEPT ![c] = @ + 1]
    <3>1. \A d \in Changes : \/ attempt'[d] = attempt[d] + 1
                             \/ attempt'[d] = attempt[d] /\ task'[d] = task[d]
      BY <2>2 DEF TypeOK
    <3>2. QED
      BY <1>2, <1>3, <3>1
  <2>3. QED
    BY <1>3, <2>1, <2>2 DEF End
<1>4. ASSUME NEW c \in Changes, Submit(c) \/ Commit(c) \/ Take(c) \/ WorkerCrash(c)
      PROVE  StoredBefore'
  <2>1. UNCHANGED <<stored, attempt>>
    BY <1>4 DEF Submit, Commit, Take, WorkerCrash
  <2>2. \A d \in Changes : task[d] \in Told => task'[d] \in Told
    BY <1>4 DEF Submit, Commit, Take, WorkerCrash, RequestFirst, TypeOK
  <2>3. QED
    BY <1>2, <2>1, <2>2
<1>5. ASSUME NEW c \in Changes, Store(c)
      PROVE  StoredBefore'
  <2>1. PICK ok \in BOOLEAN :
          \/ /\ stored' = stored \cup {ReportOf(c, ok)}
             /\ task' = [task EXCEPT ![c] = IF ok THEN "reported" ELSE "failing"]
             /\ UNCHANGED attempt
          \/ End(c, ok) /\ UNCHANGED stored
    BY <1>5 DEF Store
  <2>2. CASE End(c, ok) /\ UNCHANGED stored
    BY <1>3, <2>2
  <2>3. CASE /\ stored' = stored \cup {ReportOf(c, ok)}
             /\ task' = [task EXCEPT ![c] = IF ok THEN "reported" ELSE "failing"]
             /\ UNCHANGED attempt
    <3>1. ASSUME NEW r \in stored
          PROVE  \/ r.attempt < attempt'[r.task]
                 \/ r.attempt = attempt'[r.task] /\ task'[r.task] \in Told
      <4>1. r \in Report /\ r.task \in Changes
        BY DEF TypeOK, Report
      <4>2. task[r.task] \in Told => task'[r.task] \in Told
        BY <2>3, <4>1 DEF TypeOK
      <4>3. QED
        BY <1>1, <2>3, <4>1, <4>2 DEF StoredBefore
    <3>2. /\ ReportOf(c, ok).attempt = attempt'[ReportOf(c, ok).task]
          /\ task'[ReportOf(c, ok).task] \in Told
      BY <2>3 DEF ReportOf, TypeOK
    <3>3. QED
      BY <2>3, <3>1, <3>2 DEF StoredBefore
  <2>4. QED
    BY <2>1, <2>2, <2>3
<1>6. ASSUME NEW c \in Changes, Publish(c)
      PROVE  StoredBefore'
  <2>1. End(c, task[c] = "reported") /\ (task[c] = "reported") \in BOOLEAN /\ UNCHANGED stored
    BY <1>6 DEF Publish
  <2>2. QED
    BY <1>3, <2>1
<1>7. CASE ApiRestart \/ Expire \/ UNCHANGED vars
  BY <1>7 DEF ApiRestart, Expire, vars, StoredBefore
<1>8. QED
  BY <1>4, <1>5, <1>6, <1>7 DEF Next, Worker

(* Every step of the workers is a step of the feed, or none. *)
LEMMA FeedStep ==
    ASSUME TypeOK, RequestFirst, BusyBounded, StoredBefore, [Next]_vars
    PROVE  \/ \E r \in Report : \/ /\ r \notin stored /\ Cardinality(Pending) < Workers
                                   /\ latest' = r /\ Pending' = Pending \cup {r}
                                   /\ stored' = stored \cup {r}
                                \/ /\ r \in Pending /\ Pending' = Pending \ {r}
                                   /\ latest' = latest /\ stored' = stored
           \/ /\ latest # NoReport /\ latest' = NoReport
              /\ Pending' = Pending /\ stored' = stored
           \/ UNCHANGED <<latest, Pending, stored>>
<1> DEFINE Stays == UNCHANGED <<latest, Pending, stored>>
           Closes(c) == LET r == ReportOf(c, task[c] = "reported")
                        IN  /\ r \in Report /\ r \in Pending
                            /\ Pending' = Pending \ {r} /\ latest' = latest /\ stored' = stored
<1>1. ASSUME NEW c \in Changes, task[c] \notin {"reported", "failing"},
             NEW s \in {"none", "queued", "reading", "done", "failed", "lost"},
             task' = [task EXCEPT ![c] = s],
             \A d \in Changes \ {c} : attempt'[d] = attempt[d] /\ read'[d] = read[d]
      PROVE  UNCHANGED Pending
  <2>1. Open' = Open /\ c \notin Open
    BY <1>1 DEF Open, TypeOK
  <2>2. \A d \in Open : task'[d] = task[d] /\ attempt'[d] = attempt[d] /\ read'[d] = read[d]
    BY <1>1, <2>1 DEF Open, TypeOK
  <2>3. QED
    BY <2>1, <2>2 DEF Pending, ReportOf
<1>2. ASSUME NEW c \in Changes, task[c] \in {"reported", "failing"},
             NEW s \in {"none", "queued", "reading", "done", "failed", "lost"},
             task' = [task EXCEPT ![c] = s],
             \A d \in Changes \ {c} : attempt'[d] = attempt[d] /\ read'[d] = read[d],
             UNCHANGED <<latest, stored>>
      PROVE  Closes(c)
  <2>1. Open' = Open \ {c} /\ c \in Open
    BY <1>2 DEF Open, TypeOK
  <2>2. \A d \in Open' : ReportOf(d, task[d] = "reported")' = ReportOf(d, task[d] = "reported")
    BY <1>2, <2>1 DEF Open, TypeOK, ReportOf
  <2>3. \A d : ReportOf(d, task[d] = "reported").task = d
    BY DEF ReportOf
  <2>4. Pending' = Pending \ {ReportOf(c, task[c] = "reported")}
    BY <2>1, <2>2, <2>3 DEF Pending
  <2>5. ReportOf(c, task[c] = "reported") \in Report
    BY ReportType
  <2>6. QED
    BY <1>2, <2>1, <2>4, <2>5 DEF Pending
<1>3. ASSUME UNCHANGED <<task, attempt, read>>
      PROVE  UNCHANGED Pending
  BY <1>3 DEF Pending, Open, ReportOf
<1>4. ASSUME NEW c \in Changes, Submit(c)
      PROVE  Stays
  <2>1. task[c] = "none" /\ UNCHANGED <<attempt, read, latest, stored>>
    BY <1>4 DEF Submit, RequestFirst
  <2>2. UNCHANGED task \/ task' = [task EXCEPT ![c] = "queued"]
    BY <1>4 DEF Submit
  <2>3. CASE UNCHANGED task
    BY <1>3, <2>1, <2>3
  <2>4. CASE task' = [task EXCEPT ![c] = "queued"]
    <3>1. UNCHANGED Pending
      BY <1>1, <2>1, <2>4
    <3>2. QED
      BY <2>1, <3>1
  <2>5. QED
    BY <2>2, <2>3, <2>4
<1>5. ASSUME NEW c \in Changes, Commit(c)
      PROVE  Stays
  BY <1>3, <1>5 DEF Commit
<1>6. ASSUME NEW c \in Changes, Take(c)
      PROVE  Stays
  <2>1. \A d \in Changes \ {c} : attempt'[d] = attempt[d] /\ read'[d] = read[d]
    BY <1>6 DEF Take, TypeOK
  <2>2. UNCHANGED Pending
    BY <1>1, <1>6, <2>1 DEF Take
  <2>3. QED
    BY <1>6, <2>2 DEF Take
<1>7. ASSUME NEW c \in Changes, NEW ok \in BOOLEAN, End(c, ok)
      PROVE  /\ \E s \in {"queued", "done", "failed"} : task' = [task EXCEPT ![c] = s]
             /\ \A d \in Changes \ {c} : attempt'[d] = attempt[d]
  BY <1>7 DEF End, TypeOK
<1>8. ASSUME NEW c \in Changes, Publish(c)
      PROVE  Closes(c)
  <2>1. /\ task[c] \in {"reported", "failing"} /\ UNCHANGED <<read, latest, stored>>
        /\ End(c, task[c] = "reported") /\ (task[c] = "reported") \in BOOLEAN
    BY <1>8 DEF Publish
  <2>2. QED
    BY <1>2, <1>7, <2>1
<1>9. ASSUME NEW c \in Changes, WorkerCrash(c)
      PROVE  Stays \/ Closes(c)
  <2>1. task' = [task EXCEPT ![c] = "lost"] /\ UNCHANGED <<attempt, read, latest, stored>>
    BY <1>9 DEF WorkerCrash
  <2>2. CASE task[c] \in {"reported", "failing"}
    BY <1>2, <2>1, <2>2
  <2>3. CASE task[c] \notin {"reported", "failing"}
    <3>1. UNCHANGED Pending
      BY <1>1, <2>1, <2>3
    <3>2. QED
      BY <2>1, <3>1
  <2>4. QED
    BY <2>2, <2>3
<1>10. ASSUME NEW c \in Changes, Store(c)
       PROVE  \/ Stays
              \/ \E r \in Report : /\ r \notin stored /\ Cardinality(Pending) < Workers
                                  /\ latest' = r /\ Pending' = Pending \cup {r}
                                  /\ stored' = stored \cup {r}
  <2>1. task[c] = "reading" /\ UNCHANGED read
    BY <1>10 DEF Store
  <2>2. PICK ok \in BOOLEAN :
          \/ /\ latest' = ReportOf(c, ok) /\ stored' = stored \cup {ReportOf(c, ok)}
             /\ task' = [task EXCEPT ![c] = IF ok THEN "reported" ELSE "failing"]
             /\ UNCHANGED <<attempt, faults>>
          \/ Fault /\ End(c, ok) /\ UNCHANGED <<latest, stored>>
    BY <1>10 DEF Store
  <2>3. CASE End(c, ok) /\ UNCHANGED <<latest, stored>>
    <3>1. UNCHANGED Pending
      BY <1>1, <1>7, <2>1, <2>3
    <3>2. QED
      BY <2>3, <3>1
  <2>4. CASE /\ latest' = ReportOf(c, ok) /\ UNCHANGED attempt
             /\ stored' = stored \cup {ReportOf(c, ok)}
             /\ task' = [task EXCEPT ![c] = IF ok THEN "reported" ELSE "failing"]
    <3>1. Open' = Open \cup {c} /\ c \notin Open
      BY <2>1, <2>4 DEF Open, TypeOK
    <3>2. \A d \in Open : ReportOf(d, task[d] = "reported")' = ReportOf(d, task[d] = "reported")
      BY <2>1, <2>4, <3>1 DEF Open, TypeOK, ReportOf
    <3>3. ReportOf(c, task[c] = "reported")' = ReportOf(c, ok)
      BY <2>1, <2>4 DEF TypeOK, ReportOf
    <3>4. Pending' = Pending \cup {ReportOf(c, ok)}
      BY <3>1, <3>2, <3>3 DEF Pending
    <3>5. ReportOf(c, ok) \notin stored
      <4>1. attempt[c] \in Int
        BY TaskAssumption DEF TypeOK
      <4>2. ReportOf(c, ok).task = c /\ ReportOf(c, ok).attempt = attempt[c]
        BY DEF ReportOf
      <4>3. QED
        BY <2>1, <4>1, <4>2 DEF StoredBefore
    <3>6. Cardinality(Pending) < Workers
      BY <2>1, RoomToReport
    <3>7. ReportOf(c, ok) \in Report
      BY ReportType
    <3>8. QED
      BY <2>4, <3>4, <3>5, <3>6, <3>7
  <2>5. QED
    BY <2>2, <2>3, <2>4
<1>11. ASSUME ApiRestart \/ UNCHANGED vars
       PROVE  Stays
  BY <1>3, <1>11 DEF ApiRestart, vars
<1>12. ASSUME Expire
       PROVE  latest # NoReport /\ latest' = NoReport /\ UNCHANGED <<Pending, stored>>
  BY <1>3, <1>12 DEF Expire
<1>13. QED
  BY <1>4, <1>5, <1>6, <1>8, <1>9, <1>10, <1>11, <1>12 DEF Next, Worker

(* ValidationTask implements ReportFeed: no report is stored twice, each is published
   only after it was stored, and never are more reports between the two than there are workers. *)
THEOREM ImplementsFeed == Spec => FeedKept
<1>1. Init => Feed!FeedInit
  BY DEF Init, Feed!FeedInit, Pending, Open
<1>2. ASSUME TypeOK, RequestFirst, BusyBounded, StoredBefore, [Next]_vars
      PROVE  [Feed!FeedNext]_(Feed!feedVars)
  <2>1. CASE \E r \in Report : /\ r \notin stored /\ Cardinality(Pending) < Workers
                              /\ latest' = r /\ Pending' = Pending \cup {r}
                              /\ stored' = stored \cup {r}
    <3>1. Feed!Cardinality(Pending) = Cardinality(Pending)
      BY DEF Cardinality, Feed!Cardinality
    <3>2. QED
      BY <2>1, <3>1 DEF Feed!FeedNext, Feed!StoreReport
  <2>2. CASE \E r \in Report : /\ r \in Pending /\ Pending' = Pending \ {r}
                              /\ latest' = latest /\ stored' = stored
    BY <2>2 DEF Feed!FeedNext, Feed!CloseReport
  <2>3. CASE /\ latest # NoReport /\ latest' = NoReport
             /\ Pending' = Pending /\ stored' = stored
    BY <2>3 DEF Feed!FeedNext, Feed!ExpireLatest
  <2>4. CASE UNCHANGED <<latest, Pending, stored>>
    BY <2>4 DEF Feed!feedVars
  <2>5. QED
    BY <1>2, <2>1, <2>2, <2>3, <2>4, FeedStep
<1>3. Spec => [](BusyBounded /\ StoredBefore)
  BY AlwaysTyped, BusyInit, BusyNext, StoredInit, StoredNext, PTL DEF Spec
<1>4. QED
  BY <1>1, <1>2, <1>3, AlwaysTyped, PTL DEF Spec, FeedKept, Feed!FeedSpec
-----------------------------------------------------------------------------
(* Decision flows: what the endpoints answered, what their background tasks
   recorded, and what GET /health tells *)

JobStates == Underway \cup {"none", "ended", "escaped", "killed"}
RequestType == [kind : Kinds \cup {"none"}, flow : FlowIds, answer : Answers]

DataTypeOK ==
    /\ flows \in [FlowIds -> {"absent", "active", "inactive"}]
    /\ records \in [ExecutionIds -> Statuses] /\ fallback \in [ExecutionIds -> Statuses]
    /\ request \in [Requests -> RequestType]
    /\ job \in [Requests -> JobStates]
    /\ troubled \subseteq Requests /\ deleted \subseteq FlowIds

(* The client of a service is connected if the service answered at the start, as
   long as the process serves *)
ConnectedAtStart ==
    /\ phase \in {"starting", "serving"} =>
            connected \cap {"neo4j", "rabbitmq"} = reached \cap {"neo4j", "rabbitmq"}
    /\ asked => health \cap {"neo4j", "rabbitmq"} = reached \cap {"neo4j", "rabbitmq"}
    /\ asked => phase # "starting"

(* Requests and tasks belong to a process that serves, and a task to an execution *)
Served ==
    /\ phase # "serving" => \A r \in Requests : ~Busy(r) /\ r \notin Working
    /\ \A r \in Requests :
            job[r] # "none" => request[r].kind = "execute" /\ request[r].answer # "none"

(* A flow that was stored is one that was created, and answered somehow; who was
   asked to delete a flow was not asked before it was stored *)
FlowOf(r) ==
    /\ request[r].kind \in {"create", "create_steps"} <=> request[r].flow = r
    /\ flows[r] # "absent" => request[r].kind = "create" /\ request[r].answer # "none"
    /\ request[r].answer = "created" =>
        /\ request[r].kind = "create"
        /\ flows[r] # "absent" \/ r \in deleted
    /\ request[r].kind = "delete" =>
        /\ request[r].flow \in deleted
        /\ \/ request[r].flow = Old
           \/ request[request[r].flow].answer # "none"
        /\ request[r].answer = "ok" => flows[request[r].flow] = "absent"
    /\ job[r] # "none" => flows[request[r].flow] # "absent" \/ request[r].flow \in deleted

(* The record of an execution, in Redis and in memory *)
Rec(r) == records[Recorded(r)]
Mem(r) == fallback[Recorded(r)]

Over == restarts > 0 \/ phase = "stopped"

(* Where the record is, at each point of the task *)
RecordOf(r) ==
    /\ job[r] \in {"none", "waiting"} => Rec(r) = "none" /\ Mem(r) = "none"
    /\ job[r] \in {"read", "finish"} /\ "redis" \in connected =>
            Rec(r) = "running" /\ Mem(r) = "none"
    /\ job[r] \in {"read", "finish"} /\ "redis" \notin connected =>
            Rec(r) = "none" /\ Mem(r) = "running"
    /\ job[r] \in {"read_to_fail", "fail"} =>
            /\ "redis" \in connected /\ r \in troubled
            /\ Rec(r) \in {"running", "completed"} /\ Mem(r) = "none"
    /\ job[r] \in {"escaped", "killed"} => r \in troubled
    /\ job[r] = "ended" =>
            \/ Rec(r) = "completed" /\ Mem(r) = "none"
            \/ Rec(r) = "none" /\ Mem(r) = "completed"
            \/ Rec(r) = "none" /\ Mem(r) = "none" /\ Over
            \/ Rec(r) = "failed" /\ Mem(r) = "none" /\ r \in troubled

(* There are fewer clients to close than to start *)
ClosesFour == phase = "closing" => at \in 1..4

-----------------------------------------------------------------------------
(* The process and its clients *)

LEMMA ClientsAre ==
    /\ Services = {"postgres", "neo4j", "rabbitmq", "minio", "redis"}
    /\ \A i \in 1..5 : Opening[i] \in Services
    /\ Len(Opening) = 5 /\ Len(Closing) = 4
<1>1. /\ Opening[1] = "postgres" /\ Opening[2] = "neo4j" /\ Opening[3] = "rabbitmq"
      /\ Opening[4] = "minio" /\ Opening[5] = "redis"
      /\ Len(Opening) = 5 /\ Len(Closing) = 4
  BY DEF Opening, Closing
<1>2. 1..5 = {1, 2, 3, 4, 5}
  OBVIOUS
<1>3. QED
  BY <1>1, <1>2 DEF Services

LEMMA HealthyClients ==
    ASSUME connected \subseteq Services, made \subseteq Services
    PROVE  /\ Healthy \subseteq Services
           /\ Healthy \cap {"neo4j", "rabbitmq"} = connected \cap {"neo4j", "rabbitmq"}
BY DEF Healthy

ProcessInv == PlatformTypeOK /\ ClosesFour /\ ConnectedAtStart

LEMMA PlatformTypes ==
    PlatformTypeOK <=>
        /\ phase \in {"starting", "serving", "closing", "stopped"} /\ at \in 1..5
        /\ made \subseteq Services /\ connected \subseteq Services /\ up \subseteq Services
        /\ health \subseteq Services /\ reached \subseteq Services
        /\ asked \in BOOLEAN /\ outages \in 0..MaxOutages /\ restarts \in 0..MaxRestarts
BY DEF PlatformTypeOK

LEMMA ProcessInit == PlatformInit => ProcessInv
<1> SUFFICES ASSUME PlatformInit
             PROVE  ProcessInv
  OBVIOUS
<1>1. up \subseteq Services /\ outages \in 0..MaxOutages /\ restarts \in 0..MaxRestarts
  BY PlatformAssumption DEF PlatformInit
<1>2. asked \in BOOLEAN
  BY Zenon DEF PlatformInit
<1>3. PlatformTypeOK
  BY <1>1, <1>2, PlatformTypes DEF PlatformInit
<1>4. QED
  BY <1>3 DEF PlatformInit, ProcessInv, ClosesFour, ConnectedAtStart

(* An outage or a recovery leaves the process as it is *)
LEMMA ProcessStands ==
    ASSUME ProcessInv, UNCHANGED process, UNCHANGED restarts,
           \/ UNCHANGED <<up, outages>>
           \/ \E s \in Services : GoesDown(s)
           \/ UNCHANGED outages /\ \E s \in Services : up' = up \cup {s}
    PROVE  ProcessInv'
<1>1. UNCHANGED <<phase, at, made, connected, health, asked, reached, restarts>>
  BY DEF process
<1>2. outages \in 0..MaxOutages /\ MaxOutages \in Nat /\ up \subseteq Services
  BY PlatformAssumption DEF ProcessInv, PlatformTypeOK
<1>3. outages' \in 0..MaxOutages
  BY <1>2 DEF GoesDown
<1>4. up' \subseteq Services
  BY <1>2 DEF GoesDown
<1>5. PlatformTypeOK'
  BY <1>1, <1>3, <1>4 DEF ProcessInv, PlatformTypeOK
<1>6. QED
  BY <1>1, <1>5 DEF ProcessInv, ClosesFour, ConnectedAtStart

LEMMA ProcessStarts ==
    ASSUME ProcessInv, StartClient
    PROVE  ProcessInv' /\ phase = "starting" /\ phase' \in {"starting", "serving"}
<1> USE PlatformTypes DEF ProcessInv
<1> DEFINE s == Opening[at]
<1>1. s \in Services /\ Len(Opening) = 5 /\ at \in 1..5
  BY ClientsAre
<1>2. /\ phase = "starting"
      /\ made' \in {made, made \cup {s}}
      /\ connected' = IF Connects(s) THEN connected \cup {s} ELSE connected
      /\ reached' = reached \cup ({s} \cap up)
      /\ at' = IF at = 5 THEN 1 ELSE at + 1
      /\ phase' \in {"starting", "serving"}
      /\ at # 5 => phase' = "starting"
      /\ UNCHANGED <<up, health, asked, outages, restarts>>
  BY <1>1 DEF StartClient
<1> HIDE DEF s
<1>3. at' \in 1..5
  BY <1>1, <1>2
<1>4. made' \subseteq Services /\ connected' \subseteq Services /\ reached' \subseteq Services
  BY <1>1, <1>2
<1>5. PlatformTypeOK'
  BY <1>2, <1>3, <1>4 DEF PlatformTypeOK
<1>6. s \in {"neo4j", "rabbitmq"} => (Connects(s) <=> s \in up)
  BY DEF Connects
<1>7. connected' \cap {"neo4j", "rabbitmq"} = reached' \cap {"neo4j", "rabbitmq"}
  BY <1>2, <1>6 DEF ConnectedAtStart
<1>8. QED
  BY <1>2, <1>5, <1>7 DEF ClosesFour, ConnectedAtStart

LEMMA ProcessTellsHealth ==
    ASSUME ProcessInv, HealthCheck
    PROVE  ProcessInv' /\ phase' = phase /\ connected' = connected
<1> USE PlatformTypes DEF ProcessInv
<1>1. /\ phase = "serving" /\ health' = Healthy /\ asked' = TRUE
      /\ UNCHANGED <<phase, at, made, connected, reached, up, outages, restarts>>
  BY DEF HealthCheck
<1>2. /\ health' \subseteq Services
      /\ health' \cap {"neo4j", "rabbitmq"} = connected \cap {"neo4j", "rabbitmq"}
  BY <1>1, HealthyClients
<1>3. PlatformTypeOK'
  BY <1>1, <1>2 DEF PlatformTypeOK
<1>4. QED
  BY <1>1, <1>2, <1>3 DEF ClosesFour, ConnectedAtStart

LEMMA ProcessCloses ==
    ASSUME ProcessInv, BeginClosing \/ CloseClient
    PROVE  ProcessInv' /\ phase \in {"serving", "closing"} /\ phase' \in {"closing", "stopped"}
<1> USE PlatformTypes DEF ProcessInv
<1>1. CASE BeginClosing
  <2>1. /\ phase = "serving" /\ phase' = "closing" /\ at' = 1
        /\ UNCHANGED <<made, connected, health, asked, reached, up, outages, restarts>>
    BY <1>1 DEF BeginClosing
  <2>2. QED
    BY <2>1 DEF PlatformTypeOK, ClosesFour, ConnectedAtStart
<1>2. CASE CloseClient
  <2>1. /\ phase = "closing"
        /\ \E s : connected' \in {connected, connected \ {s}}
        /\ at' = IF at = 4 THEN 1 ELSE at + 1
        /\ phase' = IF at = 4 THEN "stopped" ELSE "closing"
        /\ UNCHANGED <<made, health, asked, reached, up, outages, restarts>>
    BY <1>2, ClientsAre DEF CloseClient
  <2>2. at \in 1..4
    BY <2>1 DEF ClosesFour
  <2>3. at' \in 1..5 /\ (phase' = "closing" => at' \in 1..4)
    BY <2>1, <2>2
  <2>4. connected' \subseteq Services
    BY <2>1
  <2>5. phase' \in {"closing", "stopped"}
    BY <2>1
  <2>6. PlatformTypeOK'
    BY <2>1, <2>3, <2>4, <2>5 DEF PlatformTypeOK
  <2>7. QED
    BY <2>1, <2>3, <2>5, <2>6 DEF ClosesFour, ConnectedAtStart
<1>3. QED
  BY <1>1, <1>2

LEMMA ProcessEnds ==
    ASSUME ProcessInv, Kill
    PROVE  ProcessInv' /\ phase' = "stopped" /\ UNCHANGED <<connected, restarts, up>>
<1>1. /\ phase' = "stopped" /\ at' = 1
      /\ UNCHANGED <<made, connected, health, asked, reached, up, outages, restarts>>
  BY DEF Kill
<1>2. PlatformTypeOK'
  BY <1>1, PlatformTypes DEF PlatformTypeOK, ProcessInv
<1>3. QED
  BY <1>1, <1>2 DEF ProcessInv, ClosesFour, ConnectedAtStart

LEMMA ProcessStartsAnew ==
    ASSUME ProcessInv, StartAnew
    PROVE  /\ ProcessInv' /\ phase = "stopped" /\ phase' = "starting"
           /\ restarts \in Nat /\ restarts' = restarts + 1
<1>1. /\ phase = "stopped" /\ restarts < MaxRestarts /\ restarts' = restarts + 1
      /\ phase' = "starting" /\ at' = 1 /\ asked' = FALSE
      /\ made' = {} /\ connected' = {} /\ reached' = {} /\ health' = {}
      /\ UNCHANGED <<up, outages>>
  BY DEF StartAnew
<1>2. restarts' \in 0..MaxRestarts /\ restarts \in Nat
  BY <1>1, PlatformTypes, PlatformAssumption DEF ProcessInv
<1>3. up' \subseteq Services /\ outages' \in 0..MaxOutages
  BY <1>1, PlatformTypes DEF ProcessInv
<1>4. asked' \in BOOLEAN
  BY <1>1, Zenon
<1>5. PlatformTypeOK'
  BY <1>1, <1>2, <1>3, <1>4 DEF PlatformTypeOK
<1>6. QED
  BY <1>1, <1>2, <1>5 DEF ProcessInv, ClosesFour, ConnectedAtStart
-----------------------------------------------------------------------------
(* What the endpoints do with the flows *)

LEMMA FlowsTypes == FlowsTypeOK <=> PlatformTypeOK /\ DataTypeOK
BY DEF FlowsTypeOK, DataTypeOK, RequestType, JobStates

(* The same request, with its answer *)
LEMMA Replied ==
    ASSUME DataTypeOK, NEW r \in Requests, NEW a \in Answers, Reply(r, a)
    PROVE  /\ request' \in [Requests -> RequestType]
           /\ \A q \in Requests : q # r => request'[q] = request[q]
           /\ request'[r].kind = request[r].kind /\ request'[r].flow = request[r].flow
           /\ request'[r].answer = a
<1>1. request \in [Requests -> RequestType] /\ request[r] \in RequestType
  BY DEF DataTypeOK
<1>2. request' = [request EXCEPT ![r].answer = a]
  BY DEF Reply
<1>3. QED
  BY <1>1, <1>2 DEF RequestType

LEMMA CypherAnswers ==
    ASSUME NEW r \in Requests, NEW after, NEW answer \in Answers, Cypher(r, after, answer)
    PROVE  /\ \E a \in {answer, "error"} :
                /\ Reply(r, a)
                /\ flows' \in {flows, after}
                /\ a # "error" => flows' = after
           /\ UNCHANGED <<up, outages>> \/ \E s \in Services : GoesDown(s)
<1>1. "neo4j" \in Services
  BY ClientsAre
<1>2. QED
  BY <1>1 DEF Cypher

(* What a handler answers of what it does: a flow is stored by the request that
   creates it, and goes with one that deletes it *)
Handled(r, a) ==
    /\ Busy(r) /\ phase = "serving"
    /\ Reply(r, a)
    /\ flows' \in [FlowIds -> {"absent", "active", "inactive"}]
    /\ \A f \in FlowIds :
        /\ flows'[f] # "absent" => flows[f] # "absent" \/ (f = r /\ request[r].kind = "create")
        /\ flows[f] # "absent" /\ flows'[f] = "absent" =>
                request[r].kind = "delete" /\ request[r].flow = f
    /\ a = "created" => request[r].kind = "create" /\ flows'[r] # "absent"
    /\ a = "ok" /\ request[r].kind = "delete" => flows'[request[r].flow] = "absent"
    /\ \/ job' = job
       \/ /\ request[r].kind = "execute"
          /\ job' = [job EXCEPT ![r] = "waiting"]
          /\ flows[request[r].flow] # "absent" /\ flows' = flows
    /\ UNCHANGED <<process, restarts, records, fallback, troubled, deleted>>
    /\ UNCHANGED <<up, outages>> \/ \E s \in Services : GoesDown(s)

LEMMA Handling ==
    ASSUME DataTypeOK, NEW r \in Requests, Handle(r)
    PROVE  \E a \in Answers \ {"none"} : Handled(r, a)
<1>0. /\ flows \in [FlowIds -> {"absent", "active", "inactive"}]
      /\ r \in FlowIds /\ request[r].flow \in FlowIds /\ phase = "serving"
      /\ job \in [Requests -> JobStates]
  BY DEF DataTypeOK, RequestType, FlowIds, Handle
<1>1. CASE CreateFlow(r)
  <2> DEFINE after == [flows EXCEPT ![r] = "active"]
  <2>1. /\ Asks(r, "create") /\ Cypher(r, after, "created")
        /\ UNCHANGED <<process, restarts, records, fallback, job, troubled, deleted>>
    BY <1>1 DEF CreateFlow
  <2>2. /\ after \in [FlowIds -> {"absent", "active", "inactive"}]
        /\ after[r] = "active" /\ \A f \in FlowIds : f # r => after[f] = flows[f]
    BY <1>0
  <2> HIDE DEF after
  <2>3. "created" \in Answers
    BY DEF Answers
  <2>4. PICK a \in {"created", "error"} :
            Reply(r, a) /\ flows' \in {flows, after} /\ (a # "error" => flows' = after)
    BY <2>1, <2>3, CypherAnswers
  <2>5. UNCHANGED <<up, outages>> \/ \E s \in Services : GoesDown(s)
    BY <2>1, <2>3, CypherAnswers
  <2>6. Handled(r, a)
    BY <1>0, <2>1, <2>2, <2>4, <2>5 DEF Handled, Asks
  <2>7. QED
    BY <2>6 DEF Answers
<1>2. CASE CreateWithSteps(r)
  <2>1. Handled(r, "error")
    BY <1>0, <1>2 DEF CreateWithSteps, Handled, Asks, platform, stores
  <2>2. QED
    BY <2>1 DEF Answers
<1>3. CASE GetFlow(r) \/ ListFlows(r)
  <2>1. PICK answer \in {"ok", "not_found"} :
            /\ Asks(r, "get") \/ Asks(r, "list")
            /\ Cypher(r, flows, answer)
            /\ UNCHANGED <<process, restarts, records, fallback, job, troubled, deleted>>
    BY <1>3 DEF GetFlow, ListFlows
  <2>2. answer \in Answers
    BY DEF Answers
  <2>3. PICK a \in {answer, "error"} : Reply(r, a) /\ flows' = flows
    BY <2>1, <2>2, CypherAnswers
  <2>4. UNCHANGED <<up, outages>> \/ \E s \in Services : GoesDown(s)
    BY <2>1, <2>2, CypherAnswers
  <2>5. Handled(r, a)
    BY <1>0, <2>1, <2>3, <2>4 DEF Handled, Asks
  <2>6. QED
    BY <2>5 DEF Answers
<1>4. CASE Deactivate(r)
  <2> DEFINE after == [flows EXCEPT ![request[r].flow] = IF Found(r) THEN "inactive" ELSE @]
  <2>1. /\ Asks(r, "deactivate") /\ Cypher(r, after, "ok")
        /\ UNCHANGED <<process, restarts, records, fallback, job, troubled, deleted>>
    BY <1>4 DEF Deactivate
  <2>2. /\ after \in [FlowIds -> {"absent", "active", "inactive"}]
        /\ \A f \in FlowIds : after[f] = "absent" <=> flows[f] = "absent"
    BY <1>0 DEF Found
  <2> HIDE DEF after
  <2>3. "ok" \in Answers
    BY DEF Answers
  <2>4. PICK a \in {"ok", "error"} : Reply(r, a) /\ flows' \in {flows, after}
    BY <2>1, <2>3, CypherAnswers
  <2>5. UNCHANGED <<up, outages>> \/ \E s \in Services : GoesDown(s)
    BY <2>1, <2>3, CypherAnswers
  <2>6. Handled(r, a)
    BY <1>0, <2>1, <2>2, <2>4, <2>5 DEF Handled, Asks
  <2>7. QED
    BY <2>6 DEF Answers
<1>5. CASE DeleteFlow(r)
  <2> DEFINE after == Gone(request[r].flow)
  <2>1. /\ Asks(r, "delete") /\ Cypher(r, after, "ok")
        /\ UNCHANGED <<process, restarts, records, fallback, job, troubled, deleted>>
    BY <1>5 DEF DeleteFlow
  <2>2. /\ after \in [FlowIds -> {"absent", "active", "inactive"}]
        /\ after[request[r].flow] = "absent"
        /\ \A f \in FlowIds : f # request[r].flow => after[f] = flows[f]
    BY <1>0 DEF Gone
  <2> HIDE DEF after
  <2>3. "ok" \in Answers
    BY DEF Answers
  <2>4. PICK a \in {"ok", "error"} :
            Reply(r, a) /\ flows' \in {flows, after} /\ (a # "error" => flows' = after)
    BY <2>1, <2>3, CypherAnswers
  <2>5. UNCHANGED <<up, outages>> \/ \E s \in Services : GoesDown(s)
    BY <2>1, <2>3, CypherAnswers
  <2>6. Handled(r, a)
    BY <1>0, <2>1, <2>2, <2>4, <2>5 DEF Handled, Asks
  <2>7. QED
    BY <2>6 DEF Answers
<1>6. CASE Execute(r)
  <2>1. PICK answer \in {"queued", "not_found"} :
            /\ Asks(r, "execute")
            /\ Cypher(r, flows, answer)
            /\ answer = "queued" => Found(r)
            /\ job' = [job EXCEPT ![r] = IF request'[r].answer = "queued" THEN "waiting" ELSE @]
            /\ UNCHANGED <<process, restarts, records, fallback, troubled, deleted>>
    BY <1>6 DEF Execute
  <2>2. answer \in Answers
    BY DEF Answers
  <2>3. PICK a \in {answer, "error"} : Reply(r, a) /\ flows' = flows
    BY <2>1, <2>2, CypherAnswers
  <2>4. UNCHANGED <<up, outages>> \/ \E s \in Services : GoesDown(s)
    BY <2>1, <2>2, CypherAnswers
  <2>5. a \in Answers \ {"none"}
    BY DEF Answers
  <2>6. request'[r].answer = a
    BY <2>3, <2>5, Replied
  <2>7. IF a = "queued" THEN job' = [job EXCEPT ![r] = "waiting"] ELSE job' = job
    BY <1>0, <2>1, <2>6
  <2>8. a = "queued" => flows[request[r].flow] # "absent"
    BY <2>1 DEF Found
  <2>9. Handled(r, a)
    BY <1>0, <2>1, <2>3, <2>4, <2>7, <2>8 DEF Handled, Asks
  <2>10. QED
    BY <2>5, <2>9
<1>7. CASE Poll(r)
  <2>1. PICK a \in {"ok", "not_found", "error"} : Reply(r, a)
    BY <1>7 DEF Poll
  <2>2. Asks(r, "poll") /\ UNCHANGED <<platform, stores, job, troubled, deleted>>
    BY <1>7 DEF Poll
  <2>3. Handled(r, a)
    BY <1>0, <2>1, <2>2 DEF Handled, Asks, platform, stores
  <2>4. QED
    BY <2>3 DEF Answers
<1>8. QED
  BY <1>1, <1>2, <1>3, <1>4, <1>5, <1>6, <1>7 DEF Handle
-----------------------------------------------------------------------------
(* The flows are as answered, whoever asks *)

FlowsAre == DataTypeOK /\ Served /\ \A r \in Requests : FlowOf(r)

LEMMA FlowsAtFirst == FlowsInit => FlowsAre
<1> SUFFICES ASSUME FlowsInit
             PROVE  FlowsAre
  OBVIOUS
<1>1. DataTypeOK
  BY DEF FlowsInit, DataTypeOK, RequestType, FlowIds, NoRequest, NoRecords, Kinds, Answers,
         Statuses, JobStates
<1>2. \A r \in Requests :
        /\ request[r].kind = "none" /\ request[r].flow = Old /\ r # Old
        /\ request[r].answer = "none" /\ job[r] = "none" /\ flows[r] = "absent"
  BY FlowsAssumption DEF FlowsInit, NoRequest
<1>3. Served
  BY <1>2 DEF Served, Busy, Working, Underway
<1>4. QED
  BY <1>1, <1>2, <1>3 DEF FlowsAre, FlowOf

LEMMA FlowsWhenAsked ==
    ASSUME FlowsAre, NEW r \in Requests, Ask(r)
    PROVE  FlowsAre'
<1> USE DEF FlowsAre
<1>1. PICK kind \in Kinds, flow \in FlowIds :
        /\ kind \in {"create", "create_steps"} <=> flow = r
        /\ kind \in {"deactivate", "delete", "execute"} => flow = Old \/ flows[flow] # "absent"
        /\ request' = [request EXCEPT ![r] = [kind |-> kind, flow |-> flow, answer |-> "none"]]
        /\ deleted' = IF kind = "delete" THEN deleted \cup {flow} ELSE deleted
  BY DEF Ask
<1>2. /\ phase = "serving" /\ request[r] = NoRequest
      /\ UNCHANGED <<phase, flows, records, fallback, job, troubled>>
  BY DEF Ask, stores, platform, process
<1>3. /\ request[r].kind = "none" /\ request[r].answer = "none" /\ request[r].flow = Old
  BY <1>2 DEF NoRequest
<1>4. /\ request'[r].kind = kind /\ request'[r].flow = flow /\ request'[r].answer = "none"
      /\ \A q \in Requests : q # r => request'[q] = request[q]
      /\ request' \in [Requests -> RequestType]
  BY <1>1 DEF DataTypeOK, RequestType, Answers
<1>5. DataTypeOK'
  BY <1>1, <1>2, <1>4 DEF DataTypeOK
<1>6. job[r] = "none" /\ flows[r] = "absent"
  BY <1>3 DEF Served, FlowOf
<1>7. Served'
  BY <1>2, <1>4, <1>6 DEF Served, Busy, Working
<1>8. deleted \subseteq deleted'
  BY <1>1
<1>9. ASSUME NEW q \in Requests
      PROVE  FlowOf(q)'
  <2>1. FlowOf(q)
    BY <1>9
  <2>2. CASE q = r
    <3>1. kind = "delete" => flow \in deleted' /\ flow # r
      BY <1>1
    <3>2. kind = "delete" /\ flow # Old => request'[flow].answer # "none"
      BY <1>1, <1>4, <3>1 DEF FlowOf, FlowIds
    <3>3. QED
      BY <1>1, <1>2, <1>4, <1>6, <2>2, <3>1, <3>2 DEF FlowOf
  <2>3. CASE q # r
    <3>1. request'[q] = request[q]
      BY <1>4, <2>3
    <3>2. request[q].flow \in FlowIds
      BY DEF DataTypeOK, RequestType
    <3>3. request[q].kind = "delete" /\ request[q].flow # Old =>
            request'[request[q].flow].answer # "none"
      BY <1>3, <1>4, <2>1, <3>2 DEF FlowOf, FlowIds
    <3>4. QED
      BY <1>2, <1>8, <2>1, <2>3, <3>1, <3>3 DEF FlowOf
  <2>4. QED
    BY <2>2, <2>3
<1>10. QED
  BY <1>5, <1>7, <1>9

LEMMA FlowsWhenHandled ==
    ASSUME FlowsAre, NEW r \in Requests, NEW a \in Answers \ {"none"}, Handled(r, a)
    PROVE  FlowsAre'
<1> USE DEF FlowsAre
<1>1. /\ request' \in [Requests -> RequestType]
      /\ \A q \in Requests : q # r => request'[q] = request[q]
      /\ request'[r].kind = request[r].kind /\ request'[r].flow = request[r].flow
      /\ request'[r].answer = a
  BY Replied DEF Handled
<1>2. /\ request[r].kind # "none" /\ request[r].answer = "none"
      /\ phase = "serving" /\ UNCHANGED <<phase, records, fallback, troubled, deleted>>
  BY DEF Handled, Busy, process
<1>3. \A q \in Requests : request'[q].kind = request[q].kind /\ request'[q].flow = request[q].flow
  BY <1>1
<1>4. \A q \in Requests : request[q].answer # "none" => request'[q].answer # "none"
  BY <1>1
<1>5. job[r] = "none"
  BY <1>2 DEF Served
<1>6. /\ job' \in [Requests -> JobStates]
      /\ \A q \in Requests : q # r => job'[q] = job[q]
      /\ job'[r] # "none" =>
            /\ request[r].kind = "execute" /\ flows[request[r].flow] # "absent"
            /\ flows' = flows
  BY <1>5 DEF Handled, DataTypeOK, JobStates, Underway
<1>7. DataTypeOK'
  BY <1>1, <1>2, <1>6 DEF DataTypeOK, Handled
<1>8. Served'
  BY <1>1, <1>2, <1>3, <1>6 DEF Served
<1>9. ASSUME NEW f \in FlowIds
      PROVE  /\ flows'[f] # "absent" =>
                  flows[f] # "absent" \/ (f = r /\ request[r].kind = "create")
             /\ flows[f] # "absent" /\ flows'[f] = "absent" => f \in deleted
  BY DEF Handled, FlowOf
<1>10. ASSUME NEW q \in Requests
       PROVE  FlowOf(q)'
  <2>1. FlowOf(q)
    BY <1>10
  <2>2. q \in FlowIds /\ request[q].flow \in FlowIds
    BY DEF FlowIds, DataTypeOK, RequestType
  <2>3. request'[q].kind \in {"create", "create_steps"} <=> request'[q].flow = q
    BY <1>3, <2>1 DEF FlowOf
  <2>4. flows'[q] # "absent" => request'[q].kind = "create" /\ request'[q].answer # "none"
    BY <1>1, <1>3, <1>4, <1>9, <2>1, <2>2 DEF FlowOf
  <2>5. request'[q].answer = "created" =>
            request'[q].kind = "create" /\ (flows'[q] # "absent" \/ q \in deleted')
    <3>1. CASE q = r
      BY <1>1, <3>1 DEF Handled
    <3>2. CASE q # r
      BY <1>1, <1>2, <1>9, <2>1, <2>2, <3>2 DEF FlowOf
    <3>3. QED
      BY <3>1, <3>2
  <2>6. ASSUME request[q].kind = "delete"
        PROVE  /\ request'[q].flow \in deleted'
               /\ request'[q].flow = Old \/ request'[request'[q].flow].answer # "none"
               /\ request'[q].answer = "ok" => flows'[request'[q].flow] = "absent"
    <3>1. /\ request[q].flow \in deleted
          /\ request[q].flow = Old \/ request[request[q].flow].answer # "none"
          /\ request[q].answer = "ok" => flows[request[q].flow] = "absent"
      BY <2>1, <2>6 DEF FlowOf
    <3>2. request'[q].flow = Old \/ request'[request'[q].flow].answer # "none"
      BY <1>3, <1>4, <2>2, <3>1 DEF FlowIds
    <3>3. request[q].flow # r
      BY <1>2, <3>1, FlowsAssumption
    <3>4. request'[q].answer = "ok" => flows'[request'[q].flow] = "absent"
      <4>1. CASE q = r
        BY <1>1, <2>6, <4>1 DEF Handled
      <4>2. CASE q # r
        BY <1>1, <1>9, <2>2, <3>1, <3>3, <4>2
      <4>3. QED
        BY <4>1, <4>2
    <3>5. QED
      BY <1>2, <1>3, <3>1, <3>2, <3>4
  <2>7. job'[q] # "none" => flows'[request'[q].flow] # "absent" \/ request'[q].flow \in deleted'
    <3>1. CASE q = r
      BY <1>3, <1>6, <3>1
    <3>2. CASE q # r
      BY <1>2, <1>3, <1>6, <1>9, <2>1, <2>2, <3>2 DEF FlowOf
    <3>3. QED
      BY <3>1, <3>2
  <2>8. QED
    BY <1>3, <2>3, <2>4, <2>5, <2>6, <2>7 DEF FlowOf
<1>11. QED
  BY <1>7, <1>8, <1>10

LEMMA FlowsWhenKilled ==
    ASSUME FlowsAre, Killed
    PROVE  FlowsAre'
<1> USE DEF FlowsAre
<1>1. /\ phase' = "stopped" /\ UNCHANGED <<flows, records, deleted>>
      /\ fallback' = NoRecords /\ troubled' = troubled \cup Working
      /\ request' = [r \in Requests |-> IF Busy(r) THEN [request[r] EXCEPT !.answer = "lost"]
                                        ELSE request[r]]
      /\ job' = [r \in Requests |-> IF r \in Working THEN "killed" ELSE job[r]]
  BY DEF Killed, Kill, Hurt
<1>2. ASSUME NEW r \in Requests
      PROVE  /\ request'[r] \in RequestType
             /\ request'[r].kind = request[r].kind /\ request'[r].flow = request[r].flow
             /\ request'[r].answer \in {request[r].answer, "lost"}
             /\ request[r].answer # "none" => request'[r].answer = request[r].answer
             /\ Busy(r) => request'[r].answer = "lost"
  <2>1. request[r] \in RequestType
    BY DEF DataTypeOK
  <2>2. CASE Busy(r)
    BY <1>1, <2>1, <2>2 DEF RequestType, Answers, Busy
  <2>3. CASE ~Busy(r)
    BY <1>1, <2>1, <2>3
  <2>4. QED
    BY <2>2, <2>3
<1>3. ASSUME NEW r \in Requests
      PROVE  /\ job'[r] \in JobStates /\ (job'[r] # "none" => job[r] # "none")
             /\ job'[r] \notin Underway
  BY <1>1 DEF DataTypeOK, JobStates, Underway, Working
<1>4. NoRecords \in [ExecutionIds -> Statuses] /\ Working \subseteq Requests
  BY DEF NoRecords, Statuses, Working
<1>5. request' \in [Requests -> RequestType] /\ job' \in [Requests -> JobStates]
  <2>1. /\ request' = [r \in Requests |-> request'[r]]
        /\ job' = [r \in Requests |-> job'[r]]
    BY <1>1
  <2>2. QED
    BY <1>2, <1>3, <2>1
<1>6. DataTypeOK'
  BY <1>1, <1>4, <1>5 DEF DataTypeOK
<1>7. \A r \in Requests : ~Busy(r)'
  BY <1>2 DEF Busy
<1>8. Served'
  BY <1>2, <1>3, <1>7 DEF Served, Working
<1>9. ASSUME NEW q \in Requests
      PROVE  FlowOf(q)'
  <2>1. FlowOf(q) /\ request[q].flow \in FlowIds
    BY DEF DataTypeOK, RequestType
  <2>2. request[q].kind = "delete" /\ request[q].flow # Old =>
            request'[request[q].flow].answer # "none"
    BY <1>2, <2>1 DEF FlowOf, FlowIds
  <2>3. QED
    BY <1>1, <1>2, <1>3, <2>1, <2>2 DEF FlowOf
<1>10. QED
  BY <1>6, <1>8, <1>9

(* A task that goes on, or ends, changes no request and no flow *)
LEMMA FlowsAlike ==
    ASSUME FlowsAre, DataTypeOK', UNCHANGED <<flows, request, deleted>>,
           \A r \in Requests : job'[r] # "none" => job[r] # "none",
           phase' # "serving" => \A r \in Requests : ~Busy(r) /\ job'[r] \notin Underway
    PROVE  FlowsAre'
<1> USE DEF FlowsAre
<1>1. Served'
  BY DEF Served, Busy, Working
<1>2. \A r \in Requests : FlowOf(r)'
  BY DEF FlowOf
<1>3. QED
  BY <1>1, <1>2
-----------------------------------------------------------------------------
(* The record of a task, wherever it is kept *)

RecordsAre == \A r \in Requests : RecordOf(r)

LEMMA RecordsAtFirst == FlowsInit => RecordsAre
<1> SUFFICES ASSUME FlowsInit
             PROVE  RecordsAre
  OBVIOUS
<1>1. \A r \in Requests : job[r] = "none" /\ Rec(r) = "none" /\ Mem(r) = "none"
  BY DEF FlowsInit, NoRecords, Rec, Mem, Recorded, ExecutionIds
<1>2. QED
  BY <1>1 DEF RecordsAre, RecordOf

LEMMA RecordsWritten ==
    ASSUME DataTypeOK, NEW r \in Requests, NEW status \in Statuses,
           NEW table \in [ExecutionIds -> Statuses]
    PROVE  /\ Record(table, r, status) \in [ExecutionIds -> Statuses]
           /\ Record(table, r, status)[Recorded(r)] =
                IF status = "none" THEN table[Recorded(r)] ELSE status
           /\ \A q \in Requests : q # r =>
                Record(table, r, status)[Recorded(q)] = table[Recorded(q)]
<1>1. \A q \in Requests : Recorded(q) \in ExecutionIds /\ (q # r => Recorded(q) # Recorded(r))
  BY DEF Recorded, ExecutionIds
<1>2. QED
  BY <1>1 DEF Record

(* A command of a connected client is executed or raises; one of a client that was
   never connected is one of the memory *)
LEMMA Commands ==
    ASSUME DataTypeOK, NEW r \in Requests, NEW status \in Statuses,
           NEW works \in JobStates, NEW raises \in JobStates,
           Command(r, status, works, raises)
    PROVE  LET written(old) == IF status = "none" THEN old ELSE status IN
           /\ /\ records' \in [ExecutionIds -> Statuses]
              /\ fallback' \in [ExecutionIds -> Statuses]
              /\ job' \in [Requests -> JobStates] /\ troubled' \subseteq Requests
           /\ \A q \in Requests : q # r =>
                job'[q] = job[q] /\ Rec(q)' = Rec(q) /\ Mem(q)' = Mem(q)
           /\ troubled \subseteq troubled'
           /\ UNCHANGED <<up, outages>> \/ \E s \in Services : GoesDown(s)
           /\ \/ /\ "redis" \notin connected /\ job'[r] = works
                 /\ Rec(r)' = Rec(r) /\ Mem(r)' = written(Mem(r))
              \/ /\ "redis" \in connected /\ job'[r] = works
                 /\ Rec(r)' = written(Rec(r)) /\ Mem(r)' = Mem(r)
              \/ /\ "redis" \in connected /\ job'[r] = raises
                 /\ troubled' = Hurt
                 /\ Rec(r)' \in {Rec(r), written(Rec(r))} /\ Mem(r)' = Mem(r)
<1>1. /\ records \in [ExecutionIds -> Statuses] /\ fallback \in [ExecutionIds -> Statuses]
      /\ job \in [Requests -> JobStates] /\ troubled \subseteq Requests
      /\ Hurt \subseteq Requests /\ troubled \subseteq Hurt
  BY DEF DataTypeOK, Hurt, Working
<1>2. "redis" \in Services
  BY ClientsAre
<1>3. /\ records' \in {records, Record(records, r, status)}
      /\ fallback' \in {fallback, Record(fallback, r, status)}
      /\ job' \in {[job EXCEPT ![r] = works], [job EXCEPT ![r] = raises]}
      /\ troubled' \in {troubled, Hurt}
      /\ UNCHANGED <<up, outages>> \/ \E s \in Services : GoesDown(s)
  BY <1>2 DEF Command
<1>4. /\ Record(records, r, status) \in [ExecutionIds -> Statuses]
      /\ \A q \in Requests : q # r =>
            Record(records, r, status)[Recorded(q)] = records[Recorded(q)]
      /\ Record(records, r, status)[Recorded(r)] =
            IF status = "none" THEN records[Recorded(r)] ELSE status
  BY <1>1, RecordsWritten
<1>5. /\ Record(fallback, r, status) \in [ExecutionIds -> Statuses]
      /\ \A q \in Requests : q # r =>
            Record(fallback, r, status)[Recorded(q)] = fallback[Recorded(q)]
      /\ Record(fallback, r, status)[Recorded(r)] =
            IF status = "none" THEN fallback[Recorded(r)] ELSE status
  BY <1>1, RecordsWritten
<1>6. \A q \in Requests : q # r =>
            job'[q] = job[q] /\ Rec(q)' = Rec(q) /\ Mem(q)' = Mem(q)
  BY <1>1, <1>3, <1>4, <1>5 DEF Rec, Mem
<1>7. /\ records' \in [ExecutionIds -> Statuses] /\ fallback' \in [ExecutionIds -> Statuses]
      /\ job' \in [Requests -> JobStates] /\ troubled' \subseteq Requests
      /\ troubled \subseteq troubled'
  BY <1>1, <1>3, <1>4, <1>5
<1>8. \/ /\ "redis" \notin connected /\ job'[r] = works
         /\ Rec(r)' = Rec(r) /\ fallback' = Record(fallback, r, status)
      \/ /\ "redis" \in connected /\ job'[r] = works
         /\ records' = Record(records, r, status) /\ Mem(r)' = Mem(r)
      \/ /\ "redis" \in connected /\ job'[r] = raises
         /\ troubled' = Hurt
         /\ records' \in {records, Record(records, r, status)} /\ Mem(r)' = Mem(r)
  BY <1>1 DEF Command, Rec, Mem
<1>9. QED
  BY <1>3, <1>4, <1>5, <1>6, <1>7, <1>8 DEF Rec, Mem

LEMMA RecordsWhenStepped ==
    ASSUME DataTypeOK, RecordsAre, NEW r \in Requests, JobStep(r)
    PROVE  /\ DataTypeOK' /\ RecordsAre'
           /\ \A q \in Requests : job'[q] # "none" => job[q] # "none"
           /\ UNCHANGED <<up, outages>> \/ \E s \in Services : GoesDown(s)
<1>1. PICK status \in Statuses, works \in JobStates, raises \in JobStates :
        /\ Command(r, status, works, raises)
        /\ \/ /\ job[r] = "waiting" /\ status = "running"
              /\ works = "read" /\ raises = "escaped"
           \/ /\ job[r] = "read" /\ status = "none"
              /\ works = "finish" /\ raises = "read_to_fail"
           \/ /\ job[r] = "finish" /\ status = "completed"
              /\ works = "ended" /\ raises = "read_to_fail"
           \/ /\ job[r] = "read_to_fail" /\ status = "none"
              /\ works = "fail" /\ raises = "escaped"
           \/ /\ job[r] = "fail" /\ status = "failed"
              /\ works = "ended" /\ raises = "escaped"
  <2>1. /\ {"none", "running", "completed", "failed"} \subseteq Statuses
        /\ {"read", "finish", "read_to_fail", "fail", "ended", "escaped"} \subseteq JobStates
    BY DEF Statuses, JobStates, Underway
  <2>2. CASE StartExecution(r)
    BY <2>1, <2>2 DEF StartExecution
  <2>3. CASE ReadRecord(r)
    BY <2>1, <2>3 DEF ReadRecord
  <2>4. CASE FinishExecution(r)
    BY <2>1, <2>4 DEF FinishExecution
  <2>5. CASE ReadToFail(r)
    BY <2>1, <2>5 DEF ReadToFail
  <2>6. CASE FailExecution(r)
    BY <2>1, <2>6 DEF FailExecution
  <2>7. QED
    BY <2>2, <2>3, <2>4, <2>5, <2>6 DEF JobStep
<1>2. /\ UNCHANGED <<flows, request, deleted>>
      /\ UNCHANGED <<phase, connected, restarts>>
  BY DEF JobStep, process
<1>3. /\ records' \in [ExecutionIds -> Statuses] /\ fallback' \in [ExecutionIds -> Statuses]
      /\ job' \in [Requests -> JobStates] /\ troubled' \subseteq Requests
      /\ UNCHANGED <<up, outages>> \/ \E s \in Services : GoesDown(s)
  BY <1>1, Commands
<1>4. DataTypeOK'
  BY <1>2, <1>3 DEF DataTypeOK
<1>5. /\ \A q \in Requests : q # r =>
            job'[q] = job[q] /\ Rec(q)' = Rec(q) /\ Mem(q)' = Mem(q)
      /\ troubled \subseteq troubled'
  BY <1>1, Commands
<1>6. \/ /\ "redis" \notin connected /\ job'[r] = works
         /\ Rec(r)' = Rec(r) /\ Mem(r)' = IF status = "none" THEN Mem(r) ELSE status
      \/ /\ "redis" \in connected /\ job'[r] = works
         /\ Rec(r)' = (IF status = "none" THEN Rec(r) ELSE status) /\ Mem(r)' = Mem(r)
      \/ /\ "redis" \in connected /\ job'[r] = raises
         /\ troubled' = Hurt
         /\ Rec(r)' \in {Rec(r), IF status = "none" THEN Rec(r) ELSE status}
         /\ Mem(r)' = Mem(r)
  BY <1>1, Commands
<1>7. r \in Hurt
  BY <1>1 DEF Hurt, Working, Underway
<1>8. \A q \in Requests : job'[q] # "none" => job[q] # "none"
  BY <1>1, <1>5
<1>9. RecordOf(r)'
  <2>1. RecordOf(r)
    BY DEF RecordsAre
  <2> USE <1>2, <1>5, <1>6, <1>7, <2>1 DEF RecordOf
  <2>2. CASE /\ job[r] = "waiting" /\ status = "running"
             /\ works = "read" /\ raises = "escaped"
    BY <2>2
  <2>3. CASE /\ job[r] = "read" /\ status = "none"
             /\ works = "finish" /\ raises = "read_to_fail"
    BY <2>3
  <2>4. CASE /\ job[r] = "finish" /\ status = "completed"
             /\ works = "ended" /\ raises = "read_to_fail"
    BY <2>4
  <2>5. CASE /\ job[r] = "read_to_fail" /\ status = "none"
             /\ works = "fail" /\ raises = "escaped"
    BY <2>5
  <2>6. CASE /\ job[r] = "fail" /\ status = "failed"
             /\ works = "ended" /\ raises = "escaped"
    BY <2>6
  <2>7. QED
    BY <1>1, <2>2, <2>3, <2>4, <2>5, <2>6
<1>10. ASSUME NEW q \in Requests, q # r
       PROVE  RecordOf(q)'
  BY <1>2, <1>5, <1>10 DEF RecordsAre, RecordOf, Over
<1>11. RecordsAre'
  BY <1>9, <1>10 DEF RecordsAre
<1>12. QED
  BY <1>3, <1>4, <1>8, <1>11

(* Where no record changes, the client of Redis may only while no task is under way *)
LEMMA RecordsAlike ==
    ASSUME RecordsAre, UNCHANGED <<records, fallback>>, troubled \subseteq troubled',
           Over => Over',
           \A r \in Requests : job'[r] = job[r] \/ (job[r] = "none" /\ job'[r] = "waiting"),
           connected' = connected \/ \A r \in Requests : r \notin Working
    PROVE  RecordsAre'
<1>1. ASSUME NEW r \in Requests
      PROVE  RecordOf(r)'
  <2>1. RecordOf(r) /\ Rec(r)' = Rec(r) /\ Mem(r)' = Mem(r)
    BY DEF RecordsAre, Rec, Mem
  <2>2. CASE job[r] = "none" /\ job'[r] = "waiting"
    BY <2>1, <2>2 DEF RecordOf
  <2>3. CASE job'[r] = job[r]
    BY <2>1, <2>3 DEF RecordOf, Working, Underway
  <2>4. QED
    BY <2>2, <2>3
<1>2. QED
  BY <1>1 DEF RecordsAre

(* What was in the memory of a process goes with it *)
LEMMA RecordsForgotten ==
    ASSUME RecordsAre, fallback' = NoRecords, UNCHANGED records, troubled \subseteq troubled',
           Over',
           \A r \in Requests : \/ r \notin Working /\ job'[r] = job[r]
                               \/ job'[r] = "killed" /\ r \in troubled'
    PROVE  RecordsAre'
<1>1. ASSUME NEW r \in Requests
      PROVE  RecordOf(r)'
  <2>1. RecordOf(r) /\ Rec(r)' = Rec(r) /\ Mem(r)' = "none"
    BY DEF RecordsAre, Rec, Mem, NoRecords, Recorded, ExecutionIds
  <2>2. CASE job'[r] = "killed" /\ r \in troubled'
    BY <2>1, <2>2 DEF RecordOf
  <2>3. CASE r \notin Working /\ job'[r] = job[r]
    <3>1. job[r] \notin Underway
      BY <2>3 DEF Working
    <3>2. QED
      BY <2>1, <2>3, <3>1 DEF RecordOf, Underway
  <2>4. QED
    BY <2>2, <2>3
<1>2. QED
  BY <1>1 DEF RecordsAre
-----------------------------------------------------------------------------
FlowsInv == ProcessInv /\ FlowsAre /\ RecordsAre

LEMMA FlowsInvInit == FlowsInit => FlowsInv
BY ProcessInit, FlowsAtFirst, RecordsAtFirst DEF FlowsInit, FlowsInv

LEMMA FlowsInvNext == FlowsInv /\ [FlowsNext]_flowVars => FlowsInv'
<1> SUFFICES ASSUME FlowsInv, [FlowsNext]_flowVars
             PROVE  FlowsInv'
  OBVIOUS
<1> USE DEF FlowsInv
<1>0. DataTypeOK /\ Served
  BY DEF FlowsAre
<1>1. ASSUME NEW r \in Requests, Ask(r)
      PROVE  FlowsInv'
  <2>1. UNCHANGED <<platform, records, fallback, job, troubled>>
    BY <1>1 DEF Ask, stores
  <2>2. UNCHANGED <<process, up, outages, restarts, phase, connected>>
    BY <2>1 DEF platform, process
  <2>3. RecordsAre'
    BY <2>1, <2>2, RecordsAlike DEF Over
  <2>4. QED
    BY <1>1, <2>2, <2>3, ProcessStands, FlowsWhenAsked
<1>2. ASSUME NEW r \in Requests, Handle(r)
      PROVE  FlowsInv'
  <2>1. PICK a \in Answers \ {"none"} : Handled(r, a)
    BY <1>0, <1>2, Handling
  <2>2. /\ UNCHANGED <<process, restarts, records, fallback, troubled>>
        /\ UNCHANGED <<up, outages>> \/ \E s \in Services : GoesDown(s)
    BY <2>1 DEF Handled
  <2>3. UNCHANGED <<phase, connected>>
    BY <2>2 DEF process
  <2>4. job[r] = "none"
    BY <1>0, <2>1 DEF Handled, Busy, Served
  <2>5. \A q \in Requests : job'[q] = job[q] \/ (job[q] = "none" /\ job'[q] = "waiting")
    BY <1>0, <2>1, <2>4 DEF Handled, DataTypeOK
  <2>6. RecordsAre'
    BY <2>2, <2>3, <2>5, RecordsAlike DEF Over
  <2>7. QED
    BY <2>1, <2>2, <2>6, ProcessStands, FlowsWhenHandled
<1>3. ASSUME NEW r \in Requests, JobStep(r)
      PROVE  FlowsInv'
  <2>1. /\ DataTypeOK' /\ RecordsAre'
        /\ \A q \in Requests : job'[q] # "none" => job[q] # "none"
        /\ UNCHANGED <<up, outages>> \/ \E s \in Services : GoesDown(s)
    BY <1>0, <1>3, RecordsWhenStepped
  <2>2. /\ phase = "serving" /\ UNCHANGED <<process, restarts, flows, request, deleted>>
    BY <1>3 DEF JobStep
  <2>3. phase' = "serving"
    BY <2>2 DEF process
  <2>4. QED
    BY <2>1, <2>2, <2>3, ProcessStands, FlowsAlike
<1>4. CASE Killed
  <2>1. /\ Kill /\ fallback' = NoRecords /\ UNCHANGED records /\ troubled' = Hurt
        /\ job' = [r \in Requests |-> IF r \in Working THEN "killed" ELSE job[r]]
    BY <1>4 DEF Killed
  <2>2. \A r \in Requests : \/ r \notin Working /\ job'[r] = job[r]
                            \/ job'[r] = "killed" /\ r \in troubled'
    BY <2>1 DEF Hurt
  <2>3. ProcessInv' /\ phase' = "stopped"
    BY <2>1, ProcessEnds
  <2>4. RecordsAre'
    BY <2>1, <2>2, <2>3, RecordsForgotten DEF Hurt, Over
  <2>5. QED
    BY <1>4, <2>3, <2>4, FlowsWhenKilled
<1>5. CASE Restart
  <2>1. /\ StartAnew /\ fallback' = NoRecords
        /\ UNCHANGED <<flows, records, request, job, troubled, deleted>>
    BY <1>5 DEF Restart
  <2>2. /\ ProcessInv' /\ phase = "stopped" /\ phase' = "starting"
        /\ restarts \in Nat /\ restarts' = restarts + 1
    BY <2>1, ProcessStartsAnew
  <2>3. restarts' > 0
    BY <2>2
  <2>4. \A r \in Requests : ~Busy(r) /\ r \notin Working
    BY <1>0, <2>2 DEF Served
  <2>5. RecordsAre'
    BY <2>1, <2>3, <2>4, RecordsForgotten DEF Over
  <2>6. NoRecords \in [ExecutionIds -> Statuses]
    BY DEF NoRecords, Statuses
  <2>7. DataTypeOK'
    BY <1>0, <2>1, <2>6 DEF DataTypeOK
  <2>8. \A r \in Requests : ~Busy(r) /\ job'[r] \notin Underway
    BY <2>1, <2>4 DEF Working
  <2>9. QED
    BY <2>1, <2>2, <2>5, <2>7, <2>8, FlowsAlike
<1>6. CASE Stopping \/ Elsewhere \/ ServiceLost \/ UNCHANGED flowVars
  <2>1. UNCHANGED <<flows, records, fallback, request, job, deleted>>
    BY <1>6 DEF Stopping, Elsewhere, ServiceLost, flowVars, stores
  <2>2. troubled' \in {troubled, Hurt}
    BY <1>6 DEF Stopping, Elsewhere, ServiceLost, flowVars
  <2>3. DataTypeOK' /\ troubled \subseteq troubled'
    BY <1>0, <2>1, <2>2 DEF DataTypeOK, Hurt, Working
  <2>4. \/ StartClient \/ HealthCheck \/ CloseClient
        \/ UNCHANGED process /\ UNCHANGED restarts
        \/ BeginClosing /\ \A r \in Requests : ~Busy(r) /\ r \notin Working
    BY <1>6 DEF Stopping, Elsewhere, ServiceLost, Recovery, Outage, flowVars, platform
  <2>5. /\ ProcessInv'
        /\ Over => Over'
        /\ phase' # "serving" => \A r \in Requests : ~Busy(r) /\ r \notin Working
        /\ connected' = connected \/ \A r \in Requests : r \notin Working
    <3>1. CASE StartClient
      BY <1>0, <3>1, ProcessStarts DEF Served, Over, StartClient
    <3>2. CASE HealthCheck
      BY <1>0, <3>2, ProcessTellsHealth DEF Served, Over, HealthCheck
    <3>3. CASE CloseClient
      BY <1>0, <3>3, ProcessCloses DEF Served, Over, CloseClient
    <3>4. CASE BeginClosing /\ \A r \in Requests : ~Busy(r) /\ r \notin Working
      BY <1>0, <3>4, ProcessCloses DEF Over, BeginClosing
    <3>5. CASE UNCHANGED process /\ UNCHANGED restarts
      <4>1. phase' = phase /\ connected' = connected
        BY <3>5 DEF process
      <4>2. \/ UNCHANGED <<up, outages>>
            \/ \E s \in Services : GoesDown(s)
            \/ UNCHANGED outages /\ \E s \in Services : up' = up \cup {s}
        <5>1. CASE Stopping
          BY <4>1, <5>1 DEF Stopping, BeginClosing
        <5>2. CASE Elsewhere
          BY <5>2 DEF Elsewhere, StartClient, HealthCheck, CloseClient, Recovery
        <5>3. CASE ServiceLost
          BY <5>3 DEF ServiceLost, Outage
        <5>4. CASE UNCHANGED flowVars
          BY <5>4 DEF flowVars, platform
        <5>5. QED
          BY <1>6, <5>1, <5>2, <5>3, <5>4
      <4>3. QED
        BY <1>0, <3>5, <4>1, <4>2, ProcessStands DEF Served, Over
    <3>6. QED
      BY <2>4, <3>1, <3>2, <3>3, <3>4, <3>5
  <2>6. RecordsAre'
    BY <2>1, <2>3, <2>5, RecordsAlike
  <2>7. \A r \in Requests : job'[r] \in Underway => r \in Working
    BY <2>1 DEF Working
  <2>8. FlowsAre'
    BY <2>1, <2>3, <2>5, <2>7, FlowsAlike
  <2>9. QED
    BY <2>5, <2>6, <2>8
<1>7. QED
  BY <1>1, <1>2, <1>3, <1>4, <1>5, <1>6 DEF FlowsNext

LEMMA FlowsInvHolds == FlowsSpec => []FlowsInv
BY FlowsInvInit, FlowsInvNext, PTL DEF FlowsSpec

LEMMA RecordsAreSettled == FlowsInv => RecordsSettle
<1> SUFFICES ASSUME FlowsInv, NEW r \in Requests
             PROVE  RecordsSettle!(r)
  BY DEF RecordsSettle
<1>1. /\ RecordOf(r) /\ job[r] \in JobStates
      /\ restarts \in Nat
  BY PlatformTypes DEF FlowsInv, FlowsAre, RecordsAre, DataTypeOK, ProcessInv
<1> DEFINE status == {Rec(r), Mem(r)}
<1>2. r \in Working <=> job[r] \in Underway
  BY DEF Working
<1>3. job[r] = "ended" => "running" \notin status
  BY <1>1 DEF RecordOf
<1>4. "failed" \in status => r \in troubled
  BY <1>1 DEF RecordOf, JobStates, Underway
<1>5. "running" \in status => r \in Working \cup troubled
  BY <1>1, <1>2 DEF RecordOf, JobStates, Underway
<1>6. Over => restarts + (IF phase = "stopped" THEN 1 ELSE 0) > 0
  BY <1>1 DEF Over
<1>7. job[r] = "ended" /\ r \notin troubled =>
            "completed" \in status \/ (status = {"none"} /\ Over)
  BY <1>1 DEF RecordOf
<1>8. QED
  BY <1>3, <1>4, <1>5, <1>6, <1>7 DEF RecordsSettle, Rec, Mem

LEMMA FlowsAreAnswered == FlowsInv => FlowsAsAnswered
<1> SUFFICES ASSUME FlowsInv, NEW r \in Requests
             PROVE  FlowsAsAnswered!(r)
  BY DEF FlowsAsAnswered
<1>1. FlowOf(r) /\ request[r].flow \in FlowIds
  BY DEF FlowsInv, FlowsAre, DataTypeOK, RequestType
<1>2. QED
  BY <1>1 DEF FlowOf, FlowsAsAnswered

(* What GET /health told, against the answer of a request *)
Foretold(r) ==
    /\ asked /\ Settles(r) /\ request[r].kind \in NeedsGraph
    /\ "neo4j" \in up' <=> "neo4j" \in reached
    => (request'[r].answer = "error" <=> "neo4j" \notin health)

(* A statement is answered by an error when the client of Neo4j is not connected
   or Neo4j is down, then or when it should answer *)
LEMMA CypherMeets ==
    ASSUME DataTypeOK, NEW r \in Requests, NEW after, NEW answer \in Answers,
           answer # "error", Cypher(r, after, answer)
    PROVE  /\ request'[r].answer = "error" => "neo4j" \notin connected \cap up'
           /\ request'[r].answer # "error" => "neo4j" \in connected
<1>1. \A a \in Answers : Reply(r, a) => request'[r].answer = a
  BY Replied
<1>2. QED
  BY <1>1 DEF Cypher, GoesDown, Answers

(* Only its own handler answers a request; the end of the process is no answer *)
LEMMA OnlyHandlersAnswer ==
    ASSUME DataTypeOK, NEW r \in Requests, Settles(r), [FlowsNext]_flowVars
    PROVE  Handle(r)
<1>1. request[r].answer = "none" /\ request[r].kind # "none" /\ request'[r].answer \notin {"none", "lost"}
  BY DEF Settles, Busy
<1>2. request'[r] # request[r]
  BY <1>1
<1>3. ASSUME NEW q \in Requests, Ask(q)
      PROVE  FALSE
  <2>1. request[q] = NoRequest
    BY <1>3 DEF Ask
  <2>2. r # q
    BY <1>1, <2>1 DEF NoRequest
  <2>3. \A x \in Requests \ {q} : request'[x] = request[x]
    BY <1>3 DEF Ask, DataTypeOK
  <2>4. QED
    BY <1>2, <2>2, <2>3
<1>4. ASSUME NEW q \in Requests, Handle(q), q # r
      PROVE  FALSE
  <2>1. PICK a \in Answers \ {"none"} : Handled(q, a)
    BY <1>4, Handling
  <2>2. request'[r] = request[r]
    BY <1>4, <2>1, Replied DEF Handled
  <2>3. QED
    BY <1>2, <2>2
<1>5. ASSUME NEW q \in Requests, JobStep(q)
      PROVE  FALSE
  BY <1>2, <1>5 DEF JobStep
<1>6. CASE Killed
  <2>1. request'[r] = [request[r] EXCEPT !.answer = "lost"]
    BY <1>2, <1>6 DEF Killed
  <2>2. request[r] \in RequestType
    BY DEF DataTypeOK
  <2>3. QED
    BY <1>1, <2>1, <2>2 DEF RequestType
<1>7. CASE Stopping \/ Restart \/ Elsewhere \/ ServiceLost \/ UNCHANGED flowVars
  BY <1>2, <1>7 DEF Stopping, Restart, Elsewhere, ServiceLost, flowVars
<1>8. QED
  BY <1>3, <1>4, <1>5, <1>6, <1>7 DEF FlowsNext

LEMMA HealthForetold ==
    ASSUME FlowsInv, [FlowsNext]_flowVars
    PROVE  [\A r \in Requests : Foretold(r)]_flowVars
<1> SUFFICES ASSUME NEW r \in Requests, asked, Settles(r), request[r].kind \in NeedsGraph,
                    "neo4j" \in up' <=> "neo4j" \in reached
             PROVE  request'[r].answer = "error" <=> "neo4j" \notin health
  BY DEF Foretold
<1>1. DataTypeOK /\ Handle(r)
  BY OnlyHandlersAnswer DEF FlowsInv, FlowsAre
<1>2. phase = "serving"
  BY <1>1 DEF Handle
<1>3. /\ "neo4j" \in connected <=> "neo4j" \in reached
      /\ "neo4j" \in health <=> "neo4j" \in reached
  BY <1>2 DEF FlowsInv, ProcessInv, ConnectedAtStart
<1>4. ~ CreateWithSteps(r) /\ ~ Poll(r)
  BY DEF CreateWithSteps, Poll, Asks, NeedsGraph
<1>5. \E after, answer : /\ answer \in Answers /\ answer # "error"
                         /\ Cypher(r, after, answer)
  <2>1. CASE CreateFlow(r)
    BY <2>1 DEF CreateFlow, Answers
  <2>2. CASE GetFlow(r)
    BY <2>2 DEF GetFlow, Answers
  <2>3. CASE ListFlows(r)
    BY <2>3 DEF ListFlows, Answers
  <2>4. CASE Deactivate(r)
    BY <2>4 DEF Deactivate, Answers
  <2>5. CASE DeleteFlow(r)
    BY <2>5 DEF DeleteFlow, Answers
  <2>6. CASE Execute(r)
    BY <2>6 DEF Execute, Answers
  <2>7. QED
    BY <1>1, <1>4, <2>1, <2>2, <2>3, <2>4, <2>5, <2>6 DEF Handle
<1>6. /\ request'[r].answer = "error" => "neo4j" \notin connected \cap up'
      /\ request'[r].answer # "error" => "neo4j" \in connected
  BY <1>1, <1>5, CypherMeets
<1>7. QED
  BY <1>3, <1>6

(* What is recorded of an execution, in Redis or in the memory of the process: once
   its task has ended it is completed, or failed if Redis or the process went down
   meanwhile, and never left running without such a cause; only a process that
   ended loses the records of its memory. *)
THEOREM ExecutionsSettle == FlowsSpec => []RecordsSettle
BY FlowsInvHolds, RecordsAreSettled, PTL

(* A flow answered as created is there until its deletion is asked for, a deleted
   one does not come back, one refused for its steps was never stored, and a task
   executes only a flow that was there. *)
THEOREM FlowsStayAsAnswered == FlowsSpec => []FlowsAsAnswered
BY FlowsInvHolds, FlowsAreAnswered, PTL

(* GET /health foretells what the requests for flows meet: an error when it told
   Neo4j to be unhealthy and only then, unless Neo4j is not as it was when the
   process started (main.py:277, neo4j_client.py). *)
THEOREM HealthIsForetold == FlowsSpec => HealthForetells
<1>1. FlowsInv /\ [FlowsNext]_flowVars => [\A r \in Requests : Foretold(r)]_flowVars
  BY HealthForetold
<1>2. [][\A r \in Requests : Foretold(r)]_flowVars => HealthForetells
  BY DEF HealthForetells, Foretold
<1>3. QED
  BY <1>1, <1>2, FlowsInvHolds, PTL DEF FlowsSpec

(* The requests, flows and records of the decision flows keep their types, and so
   does the process with its clients. *)
THEOREM FlowsTypeCorrect == FlowsSpec => []FlowsTypeOK
<1>1. FlowsInv => FlowsTypeOK
  BY FlowsTypes DEF FlowsInv, ProcessInv, FlowsAre
<1>2. QED
  BY <1>1, FlowsInvHolds, PTL
=============================================================================
