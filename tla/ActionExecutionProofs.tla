------------------------- MODULE ActionExecutionProofs -------------------------
(***************************************************************************)
(* What holds of executions for any number of requests, objects and        *)
(* failures: the log tells the truth about the objects, what was answered  *)
(* as stored on an empty object is stored, and no process outlives the     *)
(* answer of an endpoint.                                                  *)
(***************************************************************************)
EXTENDS ActionExecution, TLAPS

(* What a request does in one step *)
Gates(r) == Reject(r) \/ Deny(r) \/ Admit(r)
Reads(r) == ReadObject(r) \/ NoObject(r) \/ Workflow(r) \/ Unbacked(r) \/ SyntaxError(r)
Applies(r) == Modify(r) \/ Misread(r) \/ Touch(r) \/ SyncGraph(r)
Sandboxes(r) == Launch(r) \/ Timeout(r) \/ Exit(r)
Ends(r) == Commit(r) \/ CommitFails(r)
Moves(r) ==
    \/ Open(r) \/ Submit(r)
    \/ Gates(r) \/ Reads(r) \/ Applies(r) \/ Sandboxes(r)
    \/ Linger(r)
    \/ Ends(r)

LEMMA Cases ==
    ASSUME [Next]_vars
    PROVE  (\E r \in Requests : Moves(r)) \/ Restart \/ UNCHANGED vars
BY DEF Next, Step, Moves, Gates, Reads, Applies, Sandboxes, Ends

LEMMA InitTypes == Init => TypeOK
BY ActionAssumption
   DEF Init, TypeOK, Labels, Statuses, Answers, Properties, Empty

LEMMA MoveTypes ==
    ASSUME TypeOK, NEW r \in Requests, Moves(r)
    PROVE  TypeOK'
<1> USE ActionAssumption
<1> USE DEF TypeOK
<1>1. CASE Open(r) \/ Submit(r)
  <2>1. call' \in [Requests -> Calls \cup {NoCall}]
    BY <1>1 DEF Open, Submit
  <2>2. verdict' = verdict /\ pc' \in [Requests -> Labels] /\ told' \in [Requests -> Answers]
    BY <1>1 DEF Open, Submit, Abort, Goto, Tell, Labels, Answers
  <2>3. UNCHANGED <<seen, dirty, database, runtime, faults>>
    BY <1>1 DEF Open, Submit
  <2>4. QED
    BY <2>1, <2>2, <2>3 DEF database, runtime
<1>2. CASE Gates(r)
  <2>1. /\ verdict' \in [Requests -> Statuses]
        /\ pc' \in [Requests -> Labels]
        /\ told' \in [Requests -> Answers]
    BY <1>2 DEF Gates, Reject, Deny, Admit, session, Settle, Ending, Abort, Goto, Tell,
                Labels, Answers, Statuses
  <2>2. UNCHANGED <<call, seen, dirty, database, runtime, faults>>
    BY <1>2 DEF Gates, Reject, Deny, Admit, session
  <2>3. QED
    BY <2>1, <2>2 DEF database, runtime
<1>3. CASE Reads(r)
  <2>1. /\ verdict' \in [Requests -> Statuses]
        /\ pc' \in [Requests -> Labels]
        /\ told' = told
    BY <1>3 DEF Reads, ReadObject, NoObject, Workflow, Unbacked, SyntaxError, Settle, Ending,
                Goto, Labels, Statuses
  <2>2. seen' \in [Requests -> Properties]
    BY <1>3 DEF Reads, ReadObject, NoObject, Workflow, Unbacked, SyntaxError
  <2>3. UNCHANGED <<call, dirty, database, runtime, faults>>
    BY <1>3 DEF Reads, ReadObject, NoObject, Workflow, Unbacked, SyntaxError
  <2>4. QED
    BY <2>1, <2>2, <2>3 DEF database, runtime
<1>4. CASE Applies(r)
  <2>1. /\ verdict' \in [Requests -> Statuses]
        /\ pc' \in [Requests -> Labels]
        /\ told' = told
    BY <1>4 DEF Applies, Modify, Misread, Touch, SyncGraph, session, Settle, Ending, Goto,
                Labels, Statuses
  <2>2. seen' = seen
    BY <1>4 DEF Applies, Modify, Misread, Touch, SyncGraph, session
  <2>3. lock' \in [Objects -> Requests \cup {NoRequest}]
    BY <1>4 DEF Applies, Modify, Misread, Touch, SyncGraph, database
  <2>4. dirty' \subseteq Requests
    BY <1>4 DEF Applies, Modify, Misread, Touch, SyncGraph, session
  <2>5. UNCHANGED <<call, stored, rows, runtime, faults>>
    BY <1>4 DEF Applies, Modify, Misread, Touch, SyncGraph, session, database
  <2>6. QED
    BY <2>1, <2>2, <2>3, <2>4, <2>5 DEF runtime
<1>5. CASE Sandboxes(r)
  <2>1. /\ verdict' \in [Requests -> Statuses]
        /\ pc' \in [Requests -> Labels]
        /\ told' = told
    BY <1>5 DEF Sandboxes, Launch, Timeout, Exit, session, Settle, Ending, Goto, Labels, Statuses
  <2>2. processes' \subseteq Requests /\ loop' \in Requests \cup {NoRequest}
    BY <1>5 DEF Sandboxes, Launch, Timeout, Exit
  <2>3. UNCHANGED <<call, seen, dirty, database, faults>>
    BY <1>5 DEF Sandboxes, Launch, Timeout, Exit, session
  <2>4. QED
    BY <2>1, <2>2, <2>3 DEF database
<1>6. CASE Linger(r)
  BY <1>6 DEF Linger, session, database
<1>7. CASE Ends(r)
  <2>1. lock' \in [Objects -> Requests \cup {NoRequest}]
    BY <1>7 DEF Ends, Commit, CommitFails, Unlocked
  <2>2. pc' \in [Requests -> Labels] /\ told' \in [Requests -> Answers]
    BY <1>7 DEF Ends, Commit, CommitFails, Heard, Goto, Tell, Labels, Answers, Statuses
  <2>3. rows' \in [Requests -> Statuses] /\ stored' \in [Objects -> Properties]
    <3>1. Written(r) \in Properties
      BY DEF Written, Properties
    <3>2. QED
      BY <1>7, <3>1 DEF Ends, Commit, CommitFails
  <2>4. faults' \in 0 .. MaxFaults
    BY <1>7 DEF Ends, Commit, CommitFails, Fault
  <2>5. UNCHANGED <<session, runtime>>
    BY <1>7 DEF Ends, Commit, CommitFails
  <2>6. QED
    BY <2>1, <2>2, <2>3, <2>4, <2>5 DEF session, runtime
<1>8. QED
  BY <1>1, <1>2, <1>3, <1>4, <1>5, <1>6, <1>7 DEF Moves

LEMMA StepTypes ==
    ASSUME TypeOK, [Next]_vars
    PROVE  TypeOK'
<1>1. ASSUME NEW r \in Requests, Moves(r)
      PROVE  TypeOK'
  BY <1>1, MoveTypes
<1>2. CASE Restart
  <2>1. pc' \in [Requests -> Labels] /\ told' \in [Requests -> Answers]
    BY <1>2 DEF TypeOK, Restart, Labels, Answers
  <2>2. lock' \in [Objects -> Requests \cup {NoRequest}] /\ processes' \subseteq Requests
    BY <1>2 DEF TypeOK, Restart
  <2>3. faults' \in 0 .. MaxFaults
    BY <1>2, ActionAssumption DEF TypeOK, Restart, Fault
  <2>4. QED
    BY <1>2, <2>1, <2>2, <2>3 DEF TypeOK, Restart, session
<1>3. CASE UNCHANGED vars
  BY <1>3 DEF TypeOK, vars, session, database, runtime
<1>4. QED
  BY <1>1, <1>2, <1>3, Cases

-----------------------------------------------------------------------------
(***************************************************************************)
(* The log.  What a request is about to commit is decided before: only the *)
(* endpoint's own change of an empty object is flushed, and only with the  *)
(* status success.                                                         *)
(***************************************************************************)
(* Before its end a request has told nobody and shown nothing *)
Unfinished(r) == pc[r] # "done" => told[r] = "none" /\ rows[r] = "none"

(* Whoever runs knows what was asked; only the direct mode reads an object *)
Known(r) ==
    /\ pc[r] # "idle" => call[r] \in Calls
    /\ pc[r] = "apply" => Path(r) # "test" /\ Target(r) \in Objects

(* What waits for its commit *)
Flushed(r) ==
    /\ pc[r] \in Labels \ {"commit", "done"} => r \notin dirty
    /\ pc[r] = "commit" => verdict[r] \in {"success", "failed"}
    /\ pc[r] = "commit" /\ Path(r) = "executor" => verdict[r] = "failed"
    /\ pc[r] = "commit" /\ r \in dirty =>
          /\ Path(r) = "execute" /\ verdict[r] = "success" /\ Target(r) \in Objects
          /\ seen[r] = Empty

(* The first and the third part of AuditIsTrue, of one request *)
LoggedAs(r) ==
    /\ told[r] \in {"success", "failed"} /\ Path(r) = "execute" => rows[r] = told[r]
    /\ rows[r] = "success" => Path(r) = "execute"

Local(r) == Unfinished(r) /\ Known(r) /\ Flushed(r) /\ LoggedAs(r)

StoredLogged ==
    \A o \in Objects, p \in Props :
        stored[o][p] \in Requests => rows[stored[o][p]] = "success"

AuditInv == TypeOK /\ (\A r \in Requests : Local(r)) /\ StoredLogged

LEMMA InitAudit == Init => AuditInv
<1> SUFFICES ASSUME Init
             PROVE  AuditInv
  OBVIOUS
<1>1. \A r \in Requests : Local(r)
  BY DEF Init, Local, Unfinished, Known, Flushed, LoggedAs
<1>2. StoredLogged
  BY ActionAssumption DEF Init, StoredLogged, Empty
<1>3. QED
  BY <1>1, <1>2, InitTypes DEF AuditInv

(* A step is one request's own *)
LEMMA OthersStay ==
    ASSUME TypeOK, NEW q \in Requests, Moves(q), NEW r \in Requests, r # q
    PROVE  /\ call'[r] = call[r] /\ pc'[r] = pc[r] /\ told'[r] = told[r]
           /\ rows'[r] = rows[r] /\ verdict'[r] = verdict[r] /\ seen'[r] = seen[r]
           /\ (r \in dirty') = (r \in dirty)
<1> USE DEF TypeOK
<1>1. CASE Open(q) \/ Submit(q)
  BY <1>1 DEF Open, Submit, Abort, Goto, Tell, database
<1>2. CASE Gates(q)
  BY <1>2 DEF Gates, Reject, Deny, Admit, Settle, Abort, Goto, Tell, session, database
<1>3. CASE Reads(q)
  BY <1>3 DEF Reads, ReadObject, NoObject, Workflow, Unbacked, SyntaxError, Settle, Goto,
              database
<1>4. CASE Applies(q)
  BY <1>4 DEF Applies, Modify, Misread, Touch, SyncGraph, Settle, Goto, session, database
<1>5. CASE Sandboxes(q)
  BY <1>5 DEF Sandboxes, Launch, Timeout, Exit, Settle, Goto, session, database
<1>6. CASE Linger(q)
  BY <1>6 DEF Linger, session, database
<1>7. CASE Ends(q)
  BY <1>7 DEF Ends, Commit, CommitFails, Goto, Tell, session
<1>8. QED
  BY <1>1, <1>2, <1>3, <1>4, <1>5, <1>6, <1>7 DEF Moves

LEMMA OthersLocal ==
    ASSUME TypeOK, NEW q \in Requests, Moves(q), NEW r \in Requests, r # q, Local(r)
    PROVE  Local(r)'
BY OthersStay DEF Local, Unfinished, Known, Flushed, LoggedAs, Path, Target

(* Before the commit nothing is seen *)
LEMMA MoveLocal ==
    ASSUME TypeOK, NEW r \in Requests, Local(r), Moves(r)
    PROVE  Local(r)'
<1> USE DEF TypeOK
<1>1. CASE Open(r) \/ Submit(r)
  <2>1. pc[r] = "idle" /\ call'[r] \in Calls
    BY <1>1 DEF Open, Submit, At
  <2>2. told[r] = "none" /\ rows'[r] = "none" /\ r \notin dirty'
    BY <1>1, <2>1 DEF Open, Submit, Local, Unfinished, Flushed, Labels, database
  <2>3. \/ pc'[r] = "done" /\ told'[r] \in {"not_found", "error"}
        \/ pc'[r] \in {"mode", "gate"} /\ told'[r] = "none"
    BY <1>1, <2>2 DEF Open, Submit, Abort, Goto, Tell
  <2>4. QED
    BY <2>1, <2>2, <2>3 DEF Local, Unfinished, Known, Flushed, LoggedAs
<1>2. CASE Gates(r)
  <2>1. pc[r] = "gate" /\ UNCHANGED <<call, seen, dirty, rows>>
    BY <1>2 DEF Gates, Reject, Deny, Admit, At, session, database
  <2>2. told[r] = "none" /\ rows'[r] = "none" /\ r \notin dirty' /\ call'[r] \in Calls
    BY <2>1 DEF Local, Unfinished, Known, Flushed, Labels
  <2>3. \/ pc'[r] = "done" /\ told'[r] = "error"
        \/ pc'[r] = "mode" /\ told'[r] = "none"
        \/ pc'[r] = "commit" /\ told'[r] = "none" /\ verdict'[r] = "failed"
    BY <1>2, <2>2 DEF Gates, Reject, Deny, Admit, Settle, Ending, Abort, Goto, Tell, session
  <2>4. QED
    BY <2>2, <2>3 DEF Local, Unfinished, Known, Flushed, LoggedAs
<1>3. CASE Reads(r)
  <2>1. pc[r] = "mode" /\ UNCHANGED <<call, dirty, rows, told>>
    BY <1>3 DEF Reads, ReadObject, NoObject, Workflow, Unbacked, SyntaxError, Runs, At,
                Settle, database
  <2>2. told'[r] = "none" /\ rows'[r] = "none" /\ r \notin dirty' /\ call'[r] \in Calls
    BY <2>1 DEF Local, Unfinished, Known, Flushed, Labels
  <2>3. \/ pc'[r] = "apply" /\ Path(r) # "test" /\ Target(r) \in Objects
        \/ /\ pc'[r] = "commit" /\ verdict'[r] \in {"success", "failed"}
           /\ Path(r) = "executor" => verdict'[r] = "failed"
    BY <1>3 DEF Reads, ReadObject, NoObject, Workflow, Unbacked, SyntaxError, Runs,
                Settle, Ending, Goto
  <2>4. QED
    BY <2>1, <2>2, <2>3 DEF Local, Unfinished, Known, Flushed, LoggedAs, Path, Target
<1>4. CASE Applies(r)
  <2>1. pc[r] \in {"apply", "sync"} /\ UNCHANGED <<call, rows, told>>
    BY <1>4 DEF Applies, Modify, Misread, Touch, SyncGraph, At, Settle, session, database
  <2>2. told'[r] = "none" /\ rows'[r] = "none" /\ r \notin dirty /\ call'[r] \in Calls
    BY <2>1 DEF Local, Unfinished, Known, Flushed, Labels
  <2>3. \/ pc'[r] = "sync"
        \/ /\ pc'[r] = "commit" /\ verdict'[r] \in {"success", "failed"}
           /\ Path(r) = "executor" => verdict'[r] = "failed"
    BY <1>4 DEF Applies, Modify, Misread, Touch, SyncGraph, Settle, Ending, Goto
  <2>4. ASSUME r \in dirty'
        PROVE  /\ pc'[r] = "commit" /\ Path(r) = "execute" /\ verdict'[r] = "success"
               /\ Target(r) \in Objects
               /\ seen'[r] = Empty
    <3>1. Modify(r) /\ Stores(r)
      BY <1>4, <2>2, <2>4 DEF Applies, Modify, Misread, Touch, SyncGraph, session
    <3>2. Path(r) = "execute" /\ Target(r) \in Objects
      BY <3>1 DEF Modify, At, Http, Local, Known
    <3>3. pc'[r] = "commit" /\ verdict'[r] = "success"
      BY <3>1, <3>2 DEF Modify, Settle, Ending, Goto
    <3>4. seen'[r] = Empty
      BY <3>1 DEF Modify, Stores
    <3>5. QED
      BY <3>2, <3>3, <3>4
  <2>5. QED
    BY <2>1, <2>2, <2>3, <2>4 DEF Local, Unfinished, Known, Flushed, LoggedAs, Path, Target
<1>5. CASE Sandboxes(r)
  <2>1. pc[r] \in {"mode", "sandbox"} /\ UNCHANGED <<call, dirty, rows, told>>
    BY <1>5 DEF Sandboxes, Launch, Timeout, Exit, Runs, At, Settle, session, database
  <2>2. told'[r] = "none" /\ rows'[r] = "none" /\ r \notin dirty' /\ call'[r] \in Calls
    BY <2>1 DEF Local, Unfinished, Known, Flushed, Labels
  <2>3. \/ pc'[r] = "sandbox"
        \/ /\ pc'[r] = "commit" /\ verdict'[r] \in {"success", "failed"}
           /\ Path(r) = "executor" => verdict'[r] = "failed"
    BY <1>5 DEF Sandboxes, Launch, Timeout, Exit, Settle, Ending, Goto
  <2>4. QED
    BY <2>1, <2>2, <2>3 DEF Local, Unfinished, Known, Flushed, LoggedAs, Path
<1>6. CASE Linger(r)
  BY <1>6 DEF Linger, Local, Unfinished, Known, Flushed, LoggedAs, Path, Target,
              session, database
<1>7. CASE Ends(r)
  <2>1. pc[r] = "commit" /\ pc'[r] = "done" /\ UNCHANGED <<call, verdict, seen, dirty>>
    BY <1>7 DEF Ends, Commit, CommitFails, At, Goto, session
  <2>2. rows[r] = "none" /\ call[r] \in Calls /\ Path(r) \in Paths
    BY <2>1, ActionAssumption DEF Local, Unfinished, Known, Path, Call
  <2>3. CASE CommitFails(r)
    BY <2>1, <2>2, <2>3 DEF CommitFails, Tell, Local, Unfinished, Known, Flushed, LoggedAs, Path
  <2>4. CASE Commit(r)
    BY <2>1, <2>2, <2>4 DEF Commit, Tell, Heard, Http, Paths, Local, Unfinished, Known, Flushed,
        LoggedAs, Path, Labels
  <2>5. QED
    BY <1>7, <2>3, <2>4 DEF Ends
<1>8. QED
  BY <1>1, <1>2, <1>3, <1>4, <1>5, <1>6, <1>7 DEF Moves

(* Only a commit is seen by others *)
LEMMA OnlyCommitShows ==
    ASSUME TypeOK, NEW r \in Requests, Moves(r), ~ Commit(r)
    PROVE  UNCHANGED <<stored, rows>>
<1>1. CASE Open(r) \/ Submit(r)
  BY <1>1 DEF Open, Submit, database
<1>2. CASE Gates(r)
  BY <1>2 DEF Gates, Reject, Deny, Admit, database
<1>3. CASE Reads(r)
  BY <1>3 DEF Reads, ReadObject, NoObject, Workflow, Unbacked, SyntaxError, database
<1>4. CASE Applies(r)
  BY <1>4 DEF Applies, Modify, Misread, Touch, SyncGraph, database
<1>5. CASE Sandboxes(r)
  BY <1>5 DEF Sandboxes, Launch, Timeout, Exit, database
<1>6. CASE Linger(r)
  BY <1>6 DEF Linger, database
<1>7. CASE Ends(r)
  BY <1>7 DEF Ends, CommitFails
<1>8. QED
  BY <1>1, <1>2, <1>3, <1>4, <1>5, <1>6, <1>7 DEF Moves

(* A commit stores the request's own values, with its row *)
LEMMA CommitShows ==
    ASSUME TypeOK, NEW r \in Requests, Local(r), StoredLogged, Commit(r)
    PROVE  StoredLogged'
<1> USE DEF TypeOK
<1>1. pc[r] = "commit" /\ rows[r] = "none"
  BY DEF Commit, At, Local, Unfinished
<1>2. CASE r \notin dirty
  <2>1. stored' = stored
    BY <1>2 DEF Commit
  <2>2. \A q \in Requests : q # r => rows'[q] = rows[q]
    BY DEF Commit
  <2>3. \A o \in Objects, p \in Props : stored[o][p] \in Requests => stored[o][p] # r
    BY <1>1 DEF StoredLogged
  <2>4. QED
    BY <2>1, <2>2, <2>3 DEF StoredLogged
<1>3. CASE r \in dirty
  <2>1. /\ Path(r) = "execute" /\ verdict[r] = "success" /\ Target(r) \in Objects
        /\ seen[r] = Empty
    BY <1>1, <1>3 DEF Local, Flushed
  <2>2. /\ rows' = [rows EXCEPT ![r] = "success"]
        /\ stored' = [stored EXCEPT ![Target(r)] = Written(r)]
    BY <1>3, <2>1 DEF Commit
  <2>3. rows'[r] = "success" /\ \A q \in Requests : rows[q] = "success" => rows'[q] = "success"
    BY <2>2
  <2>4. ASSUME NEW o \in Objects
        PROVE  stored'[o] = IF o = Target(r) THEN Written(r) ELSE stored[o]
    BY <2>1, <2>2
  <2>5. \A p \in Props : Written(r)[p] \in {r, Absent}
    BY <2>1 DEF Written, Empty
  <2>6. QED
    BY <2>3, <2>4, <2>5, ActionAssumption DEF StoredLogged
<1>4. QED
  BY <1>2, <1>3

LEMMA StepAudit ==
    ASSUME AuditInv, [Next]_vars
    PROVE  AuditInv'
<1> USE DEF AuditInv
<1>1. TypeOK'
  BY StepTypes
<1>2. ASSUME NEW q \in Requests, Moves(q)
      PROVE  AuditInv'
  <2>1. \A r \in Requests : Local(r)'
    BY <1>2, OthersLocal, MoveLocal
  <2>2. StoredLogged'
    <3>1. CASE Commit(q)
      BY <3>1, CommitShows
    <3>2. CASE ~ Commit(q)
      <4>1. stored' = stored /\ rows' = rows
        BY <1>2, <3>2, OnlyCommitShows
      <4>2. QED
        BY <4>1 DEF StoredLogged
    <3>3. QED
      BY <3>1, <3>2
  <2>3. QED
    BY <1>1, <2>1, <2>2
<1>3. CASE Restart
  <2>1. UNCHANGED <<call, seen, verdict, dirty, stored, rows>>
    BY <1>3 DEF Restart, session
  <2>2. ASSUME NEW r \in Requests
        PROVE  Local(r)'
    <3>1. Local(r)
      OBVIOUS
    <3>2. CASE Busy(r)
      <4>1. pc'[r] = "done" /\ told'[r] = "lost"
        BY <1>3, <3>2 DEF Restart
      <4>2. pc[r] # "done" /\ pc[r] # "idle"
        BY <3>2 DEF Busy
      <4>3. rows'[r] = "none" /\ call'[r] \in Calls
        BY <2>1, <3>1, <4>2 DEF Local, Unfinished, Known
      <4>4. QED
        BY <4>1, <4>3 DEF Local, Unfinished, Known, Flushed, LoggedAs
    <3>3. CASE ~ Busy(r)
      <4>1. pc'[r] = pc[r] /\ told'[r] = told[r]
        BY <1>3, <3>3 DEF Restart, TypeOK
      <4>2. QED
        BY <2>1, <3>1, <4>1 DEF Local, Unfinished, Known, Flushed, LoggedAs, Path, Target
    <3>4. QED
      BY <3>2, <3>3
  <2>3. StoredLogged'
    BY <2>1 DEF StoredLogged
  <2>4. QED
    BY <1>1, <2>2, <2>3
<1>4. CASE UNCHANGED vars
  <2>1. UNCHANGED <<call, seen, verdict, dirty, stored, rows, pc, told>>
    BY <1>4 DEF vars, session, database
  <2>2. ASSUME NEW r \in Requests
        PROVE  Local(r)'
    BY <2>1 DEF Local, Unfinished, Known, Flushed, LoggedAs, Path, Target
  <2>3. StoredLogged'
    BY <2>1 DEF StoredLogged
  <2>4. QED
    BY <1>1, <2>2, <2>3
<1>5. QED
  BY <1>2, <1>3, <1>4, Cases

LEMMA AuditHolds == AuditInv => AuditIsTrue
<1> SUFFICES ASSUME AuditInv
             PROVE  AuditIsTrue
  OBVIOUS
<1>1. ASSUME NEW r \in Requests
      PROVE  /\ told[r] \in {"success", "failed"} /\ Path(r) = "execute" => rows[r] = told[r]
             /\ rows[r] # "none" => pc[r] = "done"
             /\ rows[r] = "success" => Path(r) = "execute"
  BY DEF AuditInv, Local, LoggedAs, Unfinished
<1>2. StoredLogged
  BY DEF AuditInv
<1>3. QED
  BY <1>1, <1>2 DEF AuditIsTrue, StoredLogged

-----------------------------------------------------------------------------
(***************************************************************************)
(* What is stored.  An execution that succeeds on an object it read empty  *)
(* flushes what it names, and what is stored was named by who stored it.   *)
(***************************************************************************)
Direct(r) == Path(r) = "execute" /\ Type(r).mode = "direct" /\ Target(r) \in Objects

(* How an execution comes to its commit *)
Chosen(r) ==
    /\ r \in dirty => Type(r).modifies # {} /\ seen[r] = Empty
    /\ pc[r] \in {"sandbox", "sync"} => ~ Direct(r)
    /\ pc[r] = "commit" /\ verdict[r] = "success" /\ Direct(r) /\ seen[r] = Empty =>
          Type(r).modifies = {} \/ r \in dirty

StoredNamed ==
    \A o \in Objects, p \in Props :
        stored[o][p] \in Requests => p \in Type(stored[o][p]).modifies

ChangeInv ==
    AuditInv /\ (\A r \in Requests : Chosen(r)) /\ StoredNamed /\ ChangesStored

LEMMA InitChange == Init => ChangeInv
<1> SUFFICES ASSUME Init
             PROVE  ChangeInv
  OBVIOUS
<1>1. \A r \in Requests : Chosen(r)
  BY DEF Init, Chosen
<1>2. StoredNamed
  BY ActionAssumption DEF Init, StoredNamed, Empty
<1>3. ChangesStored
  BY DEF Init, ChangesStored
<1>4. QED
  BY <1>1, <1>2, <1>3, InitAudit DEF ChangeInv

LEMMA OthersChosen ==
    ASSUME TypeOK, NEW q \in Requests, Moves(q), NEW r \in Requests, r # q, Chosen(r)
    PROVE  Chosen(r)'
BY OthersStay DEF Chosen, Direct, Path, Type, Target

LEMMA MoveChosen ==
    ASSUME TypeOK, NEW r \in Requests, Local(r), Chosen(r), Moves(r)
    PROVE  Chosen(r)'
<1> USE DEF TypeOK
<1>1. CASE Open(r) \/ Submit(r)
  <2>1. r \notin dirty'
    BY <1>1 DEF Open, Submit, At, Local, Flushed, Labels
  <2>2. pc'[r] \in {"done", "mode", "gate"}
    BY <1>1 DEF Open, Submit, Abort, Goto
  <2>3. QED
    BY <2>1, <2>2 DEF Chosen
<1>2. CASE Gates(r)
  <2>1. r \notin dirty'
    BY <1>2 DEF Gates, Reject, Deny, Admit, At, session, Local, Flushed, Labels
  <2>2. pc'[r] \in {"done", "mode"} \/ (pc'[r] = "commit" /\ verdict'[r] = "failed")
    BY <1>2 DEF Gates, Reject, Deny, Admit, Settle, Ending, Abort, Goto
  <2>3. QED
    BY <2>1, <2>2 DEF Chosen
<1>3. CASE Reads(r)
  <2>1. r \notin dirty' /\ call' = call
    BY <1>3 DEF Reads, ReadObject, NoObject, Workflow, Unbacked, SyntaxError, Runs, At,
                Local, Flushed, Labels
  <2>2. \/ pc'[r] = "apply"
        \/ pc'[r] = "commit" /\ ~ Direct(r)
    BY <1>3 DEF Reads, ReadObject, NoObject, Workflow, Unbacked, SyntaxError, Runs, Settle,
                Goto, Direct
  <2>3. Direct(r)' = Direct(r)
    BY <2>1 DEF Direct, Path, Type, Target
  <2>4. QED
    BY <2>1, <2>2, <2>3 DEF Chosen
<1>4. CASE Applies(r)
  <2>1. call' = call /\ seen' = seen
    BY <1>4 DEF Applies, Modify, Misread, Touch, SyncGraph, session
  <2>2. r \notin dirty
    BY <1>4 DEF Applies, Modify, Misread, Touch, SyncGraph, At, Local, Flushed, Labels
  <2>3. UNCHANGED <<Direct(r), Type(r)>>
    BY <2>1 DEF Direct, Path, Type, Target
  <2>4. CASE Modify(r)
    <3>1. pc'[r] = "commit" /\ (r \in dirty' <=> Stores(r))
      BY <2>2, <2>4 DEF Modify, Settle, Goto
    <3>2. QED
      BY <2>1, <2>3, <3>1 DEF Chosen, Stores
  <2>5. CASE ~ Modify(r)
    <3>1. r \notin dirty' /\ ~ Direct(r)
      BY <1>4, <2>2, <2>5 DEF Applies, Misread, Touch, SyncGraph, session, Http, At, Chosen,
                              Direct
    <3>2. QED
      BY <2>3, <3>1 DEF Chosen
  <2>6. QED
    BY <2>4, <2>5
<1>5. CASE Sandboxes(r)
  <2>1. r \notin dirty' /\ call' = call
    BY <1>5 DEF Sandboxes, Launch, Timeout, Exit, Runs, At, session, Local, Flushed, Labels
  <2>2. ~ Direct(r)
    BY <1>5 DEF Sandboxes, Launch, Timeout, Exit, Runs, At, Chosen, Direct
  <2>3. Direct(r)' = Direct(r)
    BY <2>1 DEF Direct, Path, Type, Target
  <2>4. QED
    BY <2>1, <2>2, <2>3 DEF Chosen
<1>6. CASE Linger(r)
  BY <1>6 DEF Linger, session, Chosen, Direct, Path, Type, Target
<1>7. CASE Ends(r)
  <2>1. UNCHANGED <<call, seen, dirty>> /\ pc'[r] = "done"
    BY <1>7 DEF Ends, Commit, CommitFails, Goto, session
  <2>2. QED
    BY <2>1 DEF Chosen, Type
<1>8. QED
  BY <1>1, <1>2, <1>3, <1>4, <1>5, <1>6, <1>7 DEF Moves

(* A request that is over stays as it is *)
LEMMA OverStays ==
    ASSUME TypeOK, NEW q \in Requests, Moves(q), NEW r \in Requests, pc[r] = "done"
    PROVE  call'[r] = call[r] /\ seen'[r] = seen[r] /\ told'[r] = told[r]
<1>1. CASE r # q
  BY <1>1, OthersStay
<1>2. CASE r = q
  <2>1. Linger(r)
    BY <1>2 DEF Moves, Open, Submit, Gates, Reject, Deny, Admit, Reads, ReadObject, NoObject,
                Workflow, Unbacked, SyntaxError, Applies, Modify, Misread, Touch, SyncGraph,
                Sandboxes, Launch, Timeout, Exit, Ends, Commit, CommitFails, Runs, At
  <2>2. QED
    BY <2>1 DEF Linger, session
<1>3. QED
  BY <1>1, <1>2

(* Who stored something is over *)
LEMMA AuthorsAreOver ==
    ASSUME AuditInv, NEW o \in Objects, NEW p \in Props, stored[o][p] \in Requests
    PROVE  pc[stored[o][p]] = "done"
BY DEF AuditInv, StoredLogged, Local, Unfinished

(* What a commit puts on the object *)
LEMMA CommitPuts ==
    ASSUME ChangeInv, NEW q \in Requests, Commit(q), q \in dirty
    PROVE  /\ Target(q) \in Objects /\ seen[q] = Empty
           /\ stored' = [stored EXCEPT ![Target(q)] = Written(q)]
           /\ \A p \in Props : Written(q)[p] = IF p \in Type(q).modifies THEN q ELSE Absent
           /\ \E p \in Props : p \in Type(q).modifies
<1>1. Target(q) \in Objects /\ seen[q] = Empty /\ Type(q).modifies # {}
  BY DEF ChangeInv, AuditInv, Local, Flushed, Commit, At, Chosen
<1>2. call[q] \in Calls
  BY DEF ChangeInv, AuditInv, Local, Known, Commit, At
<1>3. Type(q).modifies \subseteq Props
  BY <1>2, ActionAssumption DEF Type, Call, ActionType
<1>4. QED
  BY <1>1, <1>3 DEF Commit, Written, Empty

LEMMA MoveNamed ==
    ASSUME ChangeInv, NEW q \in Requests, Moves(q)
    PROVE  StoredNamed'
<1> USE DEF ChangeInv, AuditInv, TypeOK
<1> SUFFICES ASSUME NEW o \in Objects, NEW p \in Props, stored'[o][p] \in Requests
             PROVE  p \in call'[stored'[o][p]].type.modifies
  BY DEF StoredNamed, Type
<1>1. CASE stored'[o] = stored[o]
  <2>1. p \in Type(stored[o][p]).modifies /\ pc[stored[o][p]] = "done"
    BY <1>1, AuthorsAreOver DEF StoredNamed
  <2>2. call'[stored[o][p]] = call[stored[o][p]]
    BY <1>1, <2>1, OverStays
  <2>3. QED
    BY <1>1, <2>1, <2>2 DEF Type
<1>2. CASE stored'[o] # stored[o]
  <2>1. Commit(q)
    BY <1>2, OnlyCommitShows
  <2>2. q \in dirty
    BY <1>2, <2>1 DEF Commit
  <2>3. o = Target(q) /\ stored'[o][p] = Written(q)[p]
    BY <1>2, <2>1, <2>2, CommitPuts
  <2>4. stored'[o][p] = q /\ p \in Type(q).modifies
    BY <2>1, <2>2, <2>3, CommitPuts, ActionAssumption
  <2>5. call' = call
    BY <2>1 DEF Commit, session
  <2>6. QED
    BY <2>4, <2>5 DEF Type
<1>3. QED
  BY <1>1, <1>2

(* ChangesStored of one request: what it named is there, or what another one
   left that had not seen it *)
Succeeded(r) == told[r] = "success" /\ Direct(r) /\ seen[r] = Empty
There(r) ==
    \A p \in Type(r).modifies :
        /\ stored[Target(r)][p] \in Requests
        /\ p \in Type(stored[Target(r)][p]).modifies
Unseen(r, q) ==
    /\ q \in Requests \ {r} /\ r \notin {seen[q][s] : s \in Props}
    /\ \E p \in Props : stored[Target(r)][p] = q
Kept(r) == Succeeded(r) => There(r) \/ \E q \in Requests : Unseen(r, q)

LEMMA KeptOfEach == ChangesStored <=> \A r \in Requests : Kept(r)
BY DEF ChangesStored, Kept, Succeeded, There, Unseen, Direct

LEMMA MoveKept ==
    ASSUME ChangeInv, NEW q \in Requests, Moves(q), NEW r \in Requests, Kept(r)
    PROVE  Kept(r)'
<1> USE DEF ChangeInv, AuditInv
<1> SUFFICES ASSUME Succeeded(r)'
             PROVE  There(r)' \/ \E a \in Requests : Unseen(r, a)'
  BY DEF Kept
<1>1. StoredNamed'
  BY MoveNamed
<1>2. CASE told[r] # "success"
  <2>1. Commit(r) /\ q = r
    <3>1. q = r
      BY <1>2, OthersStay DEF Succeeded
    <3>2. QED
      BY <1>2, <3>1 DEF Succeeded, TypeOK, Moves, Open, Submit, Gates, Reject, Deny, Admit,
           Reads, ReadObject, NoObject, Workflow, Unbacked, SyntaxError, Applies, Modify,
           Misread, Touch, SyncGraph, Sandboxes, Launch, Timeout, Exit, Linger, Ends,
           CommitFails, Abort, Settle, Tell
  <2>2. call' = call /\ seen' = seen /\ pc[r] = "commit"
    BY <2>1 DEF Commit, session, At
  <2>3. Direct(r) /\ seen[r] = Empty /\ Type(r)' = Type(r) /\ Target(r)' = Target(r)
    BY <2>2 DEF Succeeded, Direct, Path, Type, Target
  <2>4. verdict[r] = "success"
    BY <2>1, <2>3 DEF Succeeded, Commit, Tell, Heard, Http, Direct, TypeOK
  <2>5. CASE Type(r).modifies = {}
    BY <2>3, <2>5 DEF There
  <2>6. CASE r \in dirty
    <3>1. \A p \in Type(r).modifies : stored'[Target(r)][p] = r
      <4>1. Type(r).modifies \subseteq Props
        BY <2>2, ActionAssumption DEF Local, Known, Type, Call, ActionType
      <4>2. stored' = [stored EXCEPT ![Target(r)] = Written(r)] /\ Target(r) \in Objects
        BY <2>1, <2>6, CommitPuts
      <4>3. \A p \in Type(r).modifies : Written(r)[p] = r
        BY <4>1 DEF Written
      <4>4. QED
        BY <4>2, <4>3 DEF TypeOK
    <3>2. QED
      BY <2>3, <3>1 DEF There
  <2>7. QED
    BY <2>2, <2>3, <2>4, <2>5, <2>6 DEF Chosen
<1>3. CASE told[r] = "success"
  <2>1. pc[r] = "done"
    BY <1>3 DEF Local, Unfinished
  <2>2. call'[r] = call[r] /\ seen'[r] = seen[r]
    BY <2>1, OverStays
  <2>3. Succeeded(r) /\ Type(r)' = Type(r) /\ Target(r)' = Target(r) /\ Target(r) \in Objects
    BY <1>3, <2>2 DEF Succeeded, Direct, Path, Type, Target
  <2>4. CASE stored'[Target(r)] = stored[Target(r)]
    <3>1. CASE There(r)
      <4>1. ASSUME NEW p \in Type(r).modifies
            PROVE  stored'[Target(r)][p] \in Requests
        BY <2>4, <3>1 DEF There
      <4>2. Type(r).modifies \subseteq Props
        BY <2>1, ActionAssumption DEF Local, Known, Type, Call, ActionType
      <4>3. QED
        BY <1>1, <2>3, <4>1, <4>2 DEF There, StoredNamed
    <3>2. ASSUME NEW a \in Requests, Unseen(r, a)
          PROVE  Unseen(r, a)'
      <4>1. pc[a] = "done"
        BY <2>3, <3>2, AuthorsAreOver DEF Unseen
      <4>2. seen'[a] = seen[a]
        BY <4>1, OverStays
      <4>3. QED
        BY <2>3, <2>4, <3>2, <4>2 DEF Unseen
    <3>3. QED
      BY <2>3, <3>1, <3>2 DEF Kept
  <2>5. CASE stored'[Target(r)] # stored[Target(r)]
    <3>1. Commit(q) /\ q \in dirty
      <4>1. Commit(q)
        BY <2>5, OnlyCommitShows
      <4>2. QED
        BY <2>5, <4>1 DEF Commit
    <3>2. q # r
      BY <2>1, <3>1 DEF Commit, At
    <3>3. Target(q) = Target(r) /\ seen' = seen
      BY <2>3, <2>5, <3>1, CommitPuts DEF TypeOK, Commit, session
    <3>4. r \notin {seen[q][s] : s \in Props}
      BY <3>1, CommitPuts, ActionAssumption DEF Empty
    <3>5. \E p \in Props : stored'[Target(r)][p] = q
      BY <2>3, <3>1, <3>3, CommitPuts DEF TypeOK
    <3>6. Unseen(r, q)'
      BY <2>3, <3>2, <3>3, <3>4, <3>5 DEF Unseen
    <3>7. QED
      BY <3>6
  <2>6. QED
    BY <2>4, <2>5
<1>4. QED
  BY <1>2, <1>3

LEMMA StepChange ==
    ASSUME ChangeInv, [Next]_vars
    PROVE  ChangeInv'
<1> USE DEF ChangeInv
<1>1. AuditInv'
  BY StepAudit
<1>2. ASSUME NEW q \in Requests, Moves(q)
      PROVE  ChangeInv'
  <2>1. \A r \in Requests : Chosen(r)'
    BY <1>2, MoveChosen, OthersChosen DEF AuditInv
  <2>2. StoredNamed'
    BY <1>2, MoveNamed
  <2>3. \A r \in Requests : Kept(r)'
    BY <1>2, MoveKept, KeptOfEach
  <2>4. ChangesStored'
    BY <2>3 DEF ChangesStored, Kept, Succeeded, There, Unseen, Direct
  <2>5. QED
    BY <1>1, <2>1, <2>2, <2>4
<1>3. CASE Restart
  <2>1. UNCHANGED <<call, seen, verdict, dirty, stored>>
    BY <1>3 DEF Restart, session
  <2>2. ASSUME NEW r \in Requests
        PROVE  /\ pc'[r] = pc[r] \/ pc'[r] = "done"
               /\ told'[r] = "success" => told[r] = "success"
    BY <1>3 DEF Restart, AuditInv, TypeOK
  <2>3. \A r \in Requests : Chosen(r)'
    BY <2>1, <2>2 DEF Chosen, Direct, Path, Type, Target
  <2>4. StoredNamed'
    BY <2>1 DEF StoredNamed, Type
  <2>5. ChangesStored'
    BY <2>1, <2>2 DEF ChangesStored, Path, Type, Target
  <2>6. QED
    BY <1>1, <2>3, <2>4, <2>5
<1>4. CASE UNCHANGED vars
  <2>1. UNCHANGED <<call, seen, verdict, dirty, stored, pc, told>>
    BY <1>4 DEF vars, session, database
  <2>2. \A r \in Requests : Chosen(r)'
    BY <2>1 DEF Chosen, Direct, Path, Type, Target
  <2>3. StoredNamed'
    BY <2>1 DEF StoredNamed, Type
  <2>4. ChangesStored'
    BY <2>1 DEF ChangesStored, Path, Type, Target
  <2>5. QED
    BY <1>1, <2>2, <2>3, <2>4
<1>5. QED
  BY <1>2, <1>3, <1>4, Cases

-----------------------------------------------------------------------------
(***************************************************************************)
(* Processes.  One that runs was launched, so its execution passed the     *)
(* gate; and while one of an endpoint runs nothing else moves.             *)
(***************************************************************************)
Passed(r) == ~ Type(r).rules /\ ~ Denied(r)

Bounded(r) ==
    /\ pc[r] \in {"mode", "sandbox"} /\ Path(r) = "executor" => Passed(r)
    /\ r \in processes =>
          /\ pc[r] \in {"sandbox", "commit", "done"}
          /\ Path(r) = "executor" => Passed(r)
          /\ Http(r) /\ told[r] # "lost" => loop = r /\ pc[r] = "sandbox"

BoundsInv == AuditInv /\ \A r \in Requests : Bounded(r)

LEMMA InitBounds == Init => BoundsInv
BY InitAudit DEF Init, BoundsInv, Bounded

(* Nobody else starts or ends a request's process, or takes the loop from it *)
LEMMA OthersBounded ==
    ASSUME TypeOK, NEW q \in Requests, Moves(q), NEW r \in Requests, r # q, Bounded(r)
    PROVE  Bounded(r)'
<1>1. call'[r] = call[r] /\ pc'[r] = pc[r] /\ told'[r] = told[r]
  BY OthersStay
<1>2. (r \in processes') = (r \in processes)
  <2>1. CASE Sandboxes(q)
    BY <2>1 DEF Sandboxes, Launch, Timeout, Exit, Killed
  <2>2. CASE Linger(q)
    BY <2>2 DEF Linger
  <2>3. CASE ~ Sandboxes(q) /\ ~ Linger(q)
    BY <2>3 DEF Moves, Open, Submit, Gates, Reject, Deny, Admit, Reads, ReadObject, NoObject,
                Workflow, Unbacked, SyntaxError, Applies, Modify, Misread, Touch, SyncGraph,
                Ends, Commit, CommitFails, runtime
  <2>4. QED
    BY <2>1, <2>2, <2>3
<1>3. loop = r => loop' = r
  <2>1. CASE Sandboxes(q)
    <3>1. loop \in {NoRequest, q}
      BY <2>1 DEF Sandboxes, Launch, Timeout, Exit, Runs, At, Free
    <3>2. QED
      BY <3>1, ActionAssumption
  <2>2. CASE Linger(q)
    BY <2>2 DEF Linger
  <2>3. CASE ~ Sandboxes(q) /\ ~ Linger(q)
    BY <2>3 DEF Moves, Open, Submit, Gates, Reject, Deny, Admit, Reads, ReadObject, NoObject,
                Workflow, Unbacked, SyntaxError, Applies, Modify, Misread, Touch, SyncGraph,
                Ends, Commit, CommitFails, runtime
  <2>4. QED
    BY <2>1, <2>2, <2>3
<1>4. Path(r)' = Path(r) /\ Http(r)' = Http(r) /\ Passed(r)' = Passed(r)
  BY <1>1 DEF Path, Http, Passed, Type, Denied, Judgement
<1>5. QED
  BY <1>1, <1>2, <1>3, <1>4 DEF Bounded

LEMMA MoveBounded ==
    ASSUME TypeOK, NEW r \in Requests, Local(r), Bounded(r), Moves(r)
    PROVE  Bounded(r)'
<1> USE DEF TypeOK
<1>1. CASE Open(r) \/ Submit(r)
  <2>1. r \notin processes'
    BY <1>1 DEF Open, Submit, At, Bounded, runtime
  <2>2. pc'[r] \in {"mode", "sandbox"} => Path(r)' # "executor"
    BY <1>1 DEF Open, Submit, Abort, Goto, Path
  <2>3. QED
    BY <2>1, <2>2 DEF Bounded
<1>2. CASE Gates(r)
  <2>1. r \notin processes' /\ call' = call
    BY <1>2 DEF Gates, Reject, Deny, Admit, At, Bounded, runtime, session
  <2>2. pc'[r] \in {"mode", "sandbox"} => Passed(r)
    BY <1>2 DEF Gates, Reject, Deny, Admit, Settle, Abort, Goto, Passed
  <2>3. Passed(r)' = Passed(r)
    BY <2>1 DEF Passed, Type, Denied, Judgement
  <2>4. QED
    BY <2>1, <2>2, <2>3 DEF Bounded
<1>3. CASE Reads(r)
  <2>1. r \notin processes'
    BY <1>3 DEF Reads, ReadObject, NoObject, Workflow, Unbacked, SyntaxError, Runs, At,
                Bounded, runtime
  <2>2. pc'[r] \notin {"mode", "sandbox"}
    BY <1>3 DEF Reads, ReadObject, NoObject, Workflow, Unbacked, SyntaxError, Settle, Goto
  <2>3. QED
    BY <2>1, <2>2 DEF Bounded
<1>4. CASE Applies(r)
  <2>1. r \notin processes'
    BY <1>4 DEF Applies, Modify, Misread, Touch, SyncGraph, At, Bounded, runtime
  <2>2. pc'[r] \notin {"mode", "sandbox"}
    BY <1>4 DEF Applies, Modify, Misread, Touch, SyncGraph, Settle, Goto
  <2>3. QED
    BY <2>1, <2>2 DEF Bounded
<1>5. CASE Sandboxes(r)
  <2>1. pc[r] \in {"mode", "sandbox"} /\ call' = call
    BY <1>5 DEF Sandboxes, Launch, Timeout, Exit, Runs, At, session
  <2>2. /\ Path(r)' = Path(r) /\ Http(r)' = Http(r)
        /\ Passed(r)' = Passed(r) /\ (Path(r) = "executor" => Passed(r))
    BY <2>1 DEF Bounded, Path, Http, Passed, Type, Denied, Judgement
  <2>3. pc'[r] \in {"sandbox", "commit"}
    BY <1>5 DEF Sandboxes, Launch, Timeout, Exit, Settle, Goto
  <2>4. r \in processes' /\ Http(r) => loop' = r /\ pc'[r] = "sandbox"
    BY <1>5 DEF Sandboxes, Launch, Timeout, Exit, Killed, Goto
  <2>5. QED
    BY <2>2, <2>3, <2>4 DEF Bounded
<1>6. CASE Linger(r)
  <2>1. r \notin processes' /\ pc[r] # "sandbox" /\ UNCHANGED <<call, pc>>
    BY <1>6 DEF Linger, session
  <2>2. Passed(r)' = Passed(r) /\ Path(r)' = Path(r)
    BY <2>1 DEF Passed, Type, Path, Denied, Judgement
  <2>3. QED
    BY <2>1, <2>2 DEF Bounded
<1>7. CASE Ends(r)
  <2>1. pc[r] = "commit" /\ pc'[r] = "done" /\ UNCHANGED <<call, processes>>
    BY <1>7 DEF Ends, Commit, CommitFails, At, Goto, session, runtime
  <2>2. /\ Path(r)' = Path(r) /\ Http(r)' = Http(r) /\ Passed(r)' = Passed(r)
    BY <2>1 DEF Path, Http, Passed, Type, Denied, Judgement
  <2>3. told[r] = "none"
    BY <2>1 DEF Local, Unfinished
  <2>4. r \in processes => ~ Http(r)
    BY <2>1, <2>3 DEF Bounded
  <2>5. QED
    BY <2>1, <2>2, <2>4 DEF Bounded
<1>8. QED
  BY <1>1, <1>2, <1>3, <1>4, <1>5, <1>6, <1>7 DEF Moves

LEMMA StepBounds ==
    ASSUME BoundsInv, [Next]_vars
    PROVE  BoundsInv'
<1> USE DEF BoundsInv
<1>1. AuditInv'
  BY StepAudit
<1>2. TypeOK /\ \A r \in Requests : Local(r)
  BY DEF AuditInv
<1>3. ASSUME NEW q \in Requests, Moves(q), NEW r \in Requests
      PROVE  Bounded(r)'
  <2>1. CASE r = q
    BY <1>2, <1>3, <2>1, MoveBounded
  <2>2. CASE r # q
    BY <1>2, <1>3, <2>2, OthersBounded
  <2>3. QED
    BY <2>1, <2>2
<1>4. ASSUME Restart, NEW r \in Requests
      PROVE  Bounded(r)'
  <2>1. /\ call' = call /\ (r \in processes' => r \in processes)
        /\ IF Busy(r) THEN pc'[r] = "done" /\ told'[r] = "lost"
                      ELSE pc'[r] = pc[r] /\ told'[r] = told[r]
    BY <1>2, <1>4 DEF Restart, session, TypeOK
  <2>2. Path(r)' = Path(r) /\ Http(r)' = Http(r) /\ Passed(r)' = Passed(r)
    BY <2>1 DEF Path, Http, Passed, Type, Denied, Judgement
  <2>3. Bounded(r)
    OBVIOUS
  <2>4. CASE Busy(r)
    BY <2>1, <2>2, <2>3, <2>4 DEF Bounded
  <2>5. CASE ~ Busy(r)
    <3>1. pc[r] \in {"idle", "done"}
      BY <2>5 DEF Busy
    <3>2. QED
      BY <2>1, <2>2, <2>3, <2>5, <3>1 DEF Bounded
  <2>6. QED
    BY <2>4, <2>5
<1>5. ASSUME UNCHANGED vars, NEW r \in Requests
      PROVE  Bounded(r)'
  <2>1. UNCHANGED <<call, pc, told, processes, loop>>
    BY <1>5 DEF vars, session, runtime
  <2>2. QED
    BY <2>1 DEF Bounded, Path, Http, Passed, Type, Denied, Judgement
<1>6. QED
  BY <1>1, <1>3, <1>4, <1>5, Cases

LEMMA BoundsHold == BoundsInv => ProcessesInBounds
<1> SUFFICES ASSUME BoundsInv, NEW r \in processes
             PROVE  /\ Path(r) = "executor" => ~ Type(r).rules /\ ~ Denied(r)
                    /\ Http(r) /\ told[r] # "lost" => loop = r /\ pc[r] = "sandbox"
  BY DEF ProcessesInBounds
<1>1. Bounded(r)
  BY DEF BoundsInv, AuditInv, TypeOK
<1>2. QED
  BY <1>1 DEF Bounded, Passed

-----------------------------------------------------------------------------
(* Every variable of the executions has its type, whatever is asked and
   whatever fails (routers/ontology/actions.py, services/action_executor.py). *)
THEOREM TypeCorrect == Spec => []TypeOK
<1>1. TypeOK /\ [Next]_vars => TypeOK'
  BY StepTypes
<1>2. QED
  BY InitTypes, <1>1, PTL DEF Spec

(* The log tells the truth: an execution answered as success or failed has its
   row with that status, and nobody else's values are on an object than those of
   executions logged as successes (execute_action, ActionExecutor.execute). *)
THEOREM AuditTold == Spec => []AuditIsTrue
<1>1. AuditInv /\ [Next]_vars => AuditInv'
  BY StepAudit
<1>2. QED
  BY InitAudit, <1>1, AuditHolds, PTL DEF Spec

(* What an execution changed on an empty object is there, from it or from one that
   names the same, unless an execution that had not seen it came after (execute_action,
   actions.py:234). *)
THEOREM ChangesAreStored == Spec => []ChangesStored
<1>1. ChangeInv /\ [Next]_vars => ChangeInv'
  BY StepChange
<1>2. ChangeInv => ChangesStored
  BY DEF ChangeInv
<1>3. QED
  BY InitChange, <1>1, <1>2, PTL DEF Spec

(* A function's process belongs to an execution that passed rules and policy, and
   the endpoints, which wait for theirs on the event loop, leave none behind
   (actions.py:338, action_executor.py:410). *)
THEOREM ProcessesBounded == Spec => []ProcessesInBounds
<1>1. BoundsInv /\ [Next]_vars => BoundsInv'
  BY StepBounds
<1>2. QED
  BY InitBounds, <1>1, BoundsHold, PTL DEF Spec
=============================================================================
