------------------------- MODULE AgentEngineProofs -------------------------
(***************************************************************************)
(* Proofs about AgentEngine, for any requests, sessions, agents and bounds. *)
(***************************************************************************)
EXTENDS AgentEngine, TLAPS

(* Every walk of a workflow graph stays in it: a node id or None. *)
LEMMA GraphTypes ==
    ASSUME NEW a \in AgentDefinition
    PROVE  /\ \A n : GetNode(a, n) \in Nodes \cup {NoNode}
           /\ \A i : Follow(a, i) \in Nodes \cup {NoNode}
           /\ \A n : NextNode(a, n) \in Nodes \cup {NoNode}
           /\ \A n, passed : Branch(a, n, passed) \in Nodes \cup {NoNode}
           /\ \A s : EntryNode(a, s) \in Nodes \cup {NoNode}
<1>0. \A i \in DOMAIN a.nodes : a.nodes[i].id \in Nodes
  <2>1. a.nodes \in Seq(WorkflowNode)
    BY DEF AgentDefinition
  <2>2. \A i \in DOMAIN a.nodes : a.nodes[i] \in WorkflowNode
    BY <2>1
  <2>3. QED
    BY <2>2 DEF WorkflowNode
<1>1. \A n : GetNode(a, n) \in Nodes \cup {NoNode}
  <2> TAKE n
  <2>1. CASE \E i \in DOMAIN a.nodes : a.nodes[i].id = n
    BY <2>1, <1>0 DEF GetNode
  <2>2. CASE ~ \E i \in DOMAIN a.nodes : a.nodes[i].id = n
    BY <2>2 DEF GetNode
  <2>3. QED
    BY <2>1, <2>2
<1>2. \A i : Follow(a, i) \in Nodes \cup {NoNode}
  BY <1>1 DEF Follow
<1>3. \A n : NextNode(a, n) \in Nodes \cup {NoNode}
  BY <1>2 DEF NextNode
<1>4. \A n, passed : Branch(a, n, passed) \in Nodes \cup {NoNode}
  BY <1>2 DEF Branch
<1>5. ASSUME NEW s
      PROVE  EntryNode(a, s) \in Nodes \cup {NoNode}
  <2>1. CASE ~HasWorkflow(a)
    BY <2>1 DEF EntryNode
  <2>2. CASE HasWorkflow(a) /\ GetNode(a, s.node) # NoNode
    BY <2>2, <1>1 DEF EntryNode, GetNode
  <2>3. CASE HasWorkflow(a) /\ GetNode(a, s.node) = NoNode
    <3>1. 1 \in DOMAIN a.nodes
      BY <2>3 DEF HasWorkflow, AgentDefinition
    <3>2. QED
      BY <2>3, <3>1, <1>0 DEF EntryNode
  <2>4. QED
    BY <2>1, <2>2, <2>3
<1>6. QED
  BY <1>1, <1>2, <1>3, <1>4, <1>5

-----------------------------------------------------------------------------
(* Type correctness *)

(* The loop of the engine is entered, and entered again, only while it may make
   another iteration: without this the count of iterations left could go below
   zero. *)
IterationsLeft == \A r \in Requests : pc[r] = "step" => left[r] > 0

TypeInv == TypeOK /\ IterationsLeft

(* A request that was sent names a session and a registered agent. *)
LEMMA CallTypes ==
    ASSUME TypeInv, NEW r \in Requests, Sent(r)
    PROVE  Sid(r) \in Sessions /\ Agent(r) \in AgentDefinition
BY AgentAssumption DEF TypeInv, TypeOK, Sid, Agent, Call

(* AgentSession.save writes a well-formed state, or counts a fault. *)
LEMMA SaveTypes ==
    ASSUME TypeInv, NEW r \in Requests, Sent(r),
           NEW state \in SessionState, Save(r, state)
    PROVE  /\ store' \in [Sessions -> SessionState]
           /\ disturbed' \subseteq Requests
           /\ faults' \in 0..MaxFaults
<1>1. Sid(r) \in Sessions
  BY CallTypes
<1>2. MaxFaults \in Nat
  BY AgentAssumption
<1>3. QED
  BY <1>1, <1>2 DEF TypeInv, TypeOK, Save, Fault, On

(* AgentSession.load leaves the history variables typed. *)
LEMMA LoadTypes ==
    ASSUME TypeInv, NEW r \in Requests, NEW found \in BOOLEAN, Loads(r, found)
    PROVE  /\ disturbed' \subseteq Requests
           /\ faults' \in 0..MaxFaults
BY AgentAssumption DEF TypeInv, TypeOK, Loads, Fault

(* A new session, and a missing one, are well formed. *)
LEMMA StartTypes ==
    /\ Fresh \in SessionState
    /\ Absent \in SessionState
BY DEF Fresh, Absent, SessionState, Statuses

(* What the end of a request leaves *)
LEMMA LeaveTypes ==
    ASSUME TypeInv, NEW r \in Requests, Sent(r), NEW status \in Replies,
           Leave(r, status) \/ Answer(r, status), UNCHANGED call
    PROVE  /\ pc' \in [Requests -> Labels]
           /\ \A q \in Requests : pc'[q] # "idle" => call'[q] \in Calls[q]
           /\ session' \in [Requests -> SessionState]
           /\ node' \in [Requests -> Nodes \cup {NoNode}]
           /\ left' \in [Requests -> Nat]
           /\ reply' \in [Requests -> Replies]
           /\ IterationsLeft'
BY StartTypes DEF TypeInv, TypeOK, IterationsLeft, Leave, Answer, Goto, Labels, Sent, Replies

(* The server starts typed. *)
LEMMA InitTypes == Init => TypeInv
BY AgentAssumption, StartTypes
   DEF Init, TypeInv, TypeOK, IterationsLeft, Labels, Replies, StepKinds, Sent

(* What the engine saves is well formed, has the status it names, and keeps
   the conversation. *)
LEMMA StateTypes ==
    ASSUME TypeInv, NEW r \in Requests, NEW status \in Statuses
    PROVE  /\ Visit(r) \in SessionState /\ Visit(r).turns = session[r].turns
           /\ \A state \in {[session[r] EXCEPT !.status = status],
                             VisitAs(r, status), As(r, status)} :
                 /\ state \in SessionState
                 /\ state.status = status
                 /\ state.turns = session[r].turns
<1>1. session[r] \in SessionState /\ node[r] \in Nodes \cup {NoNode}
  BY DEF TypeInv, TypeOK
<1>2. Visit(r) \in SessionState /\ Visit(r).turns = session[r].turns
  BY <1>1 DEF Visit, SessionState
<1>3. \A from \in SessionState :
         LET state == [from EXCEPT !.status = status]
         IN  /\ state \in SessionState
             /\ state.status = status
             /\ state.turns = from.turns
  BY DEF SessionState
<1>4. QED
  BY <1>1, <1>2, <1>3 DEF VisitAs, As

(* A step that saves and ends the request *)
LEMMA CloseTypes ==
    ASSUME TypeInv, NEW r \in Requests, Sent(r),
           NEW state \in SessionState, Save(r, state),
           NEW status \in Replies, Leave(r, status) \/ Answer(r, status),
           UNCHANGED call, steps' \in [Requests -> SUBSET StepKinds]
    PROVE  TypeInv'
<1>1. /\ store' \in [Sessions -> SessionState]
      /\ disturbed' \subseteq Requests
      /\ faults' \in 0..MaxFaults
  BY SaveTypes
<1>2. /\ pc' \in [Requests -> Labels]
      /\ \A q \in Requests : pc'[q] # "idle" => call'[q] \in Calls[q]
      /\ session' \in [Requests -> SessionState]
      /\ node' \in [Requests -> Nodes \cup {NoNode}]
      /\ left' \in [Requests -> Nat]
      /\ reply' \in [Requests -> Replies]
      /\ IterationsLeft'
  BY LeaveTypes
<1>3. QED
  BY <1>1, <1>2 DEF TypeInv, TypeOK, Sent

(* A step that saves and goes on to the end of the run *)
LEMMA PauseTypes ==
    ASSUME TypeInv, NEW r \in Requests, Sent(r),
           NEW state \in SessionState, Save(r, state),
           session' = [session EXCEPT ![r] = state],
           NEW l \in {"finish", "fail"}, Goto(r, l),
           UNCHANGED <<call, node, left, reply>>,
           steps' \in [Requests -> SUBSET StepKinds]
    PROVE  TypeInv'
<1>1. /\ store' \in [Sessions -> SessionState]
      /\ disturbed' \subseteq Requests
      /\ faults' \in 0..MaxFaults
  BY SaveTypes
<1>2. QED
  BY <1>1 DEF TypeInv, TypeOK, IterationsLeft, Sent, Goto, Labels

(* One more iteration of the workflow keeps the types: an iteration was left. *)
LEMMA AdvanceTypes ==
    ASSUME TypeInv, NEW r \in Requests, pc[r] = "step",
           NEW n \in Nodes \cup {NoNode}, Advance(r, n),
           steps' \in [Requests -> SUBSET StepKinds]
    PROVE  TypeInv'
<1>1. Visit(r) \in SessionState
  BY StateTypes DEF Statuses
<1>2. left[r] \in Nat \ {0}
  BY DEF TypeInv, TypeOK, IterationsLeft
<1>3. left' \in [Requests -> Nat] /\ IterationsLeft'
  BY <1>2 DEF TypeInv, TypeOK, IterationsLeft, Advance, Goto
<1>4. QED
  BY <1>1, <1>3 DEF TypeInv, TypeOK, Advance, Sent, Goto, Labels

(* Recording steps keeps them step kinds. *)
LEMMA RecordTypes ==
    ASSUME TypeInv, NEW r \in Requests, NEW kinds \in SUBSET StepKinds, Record(r, kinds)
    PROVE  steps' \in [Requests -> SUBSET StepKinds]
BY DEF TypeInv, TypeOK, Record

(* No step breaks the types. *)
LEMMA NextTypes == TypeInv /\ [Next]_vars => TypeInv'
<1> SUFFICES ASSUME TypeInv, [Next]_vars
             PROVE  TypeInv'
  OBVIOUS
<1> USE DEF TypeInv
<1>1. ASSUME NEW r \in Requests, Arrive(r)
      PROVE  TypeInv'
  <2>1. PICK c \in Calls[r] : Arrive(r)!2!(c)
    BY <1>1 DEF Arrive
  <2>2. c \in Call
    BY AgentAssumption
  <2>3. Opening[c.op] \in {"load", "find", "read"}
    BY <2>2 DEF Call, Endpoints, Opening
  <2>4. call' \in [Requests -> Call \cup {NoCall}]
    BY <2>1, <2>2 DEF TypeOK
  <2>5. /\ pc' \in [Requests -> Labels]
        /\ \A q \in Requests : pc'[q] # "idle" => call'[q] \in Calls[q]
        /\ IterationsLeft'
    BY <1>1, <2>1, <2>3 DEF Arrive, TypeOK, IterationsLeft, Sent, Goto, Labels
  <2>6. QED
    BY <1>1, <2>4, <2>5 DEF Arrive, TypeOK, Sent
<1>2. ASSUME NEW r \in Requests, Find(r)
      PROVE  TypeInv'
  <2>1. PICK found \in BOOLEAN : Find(r)!2!(found)
    BY <1>2 DEF Find
  <2>2. Sent(r)
    BY <1>2 DEF Find, Sent
  <2>3. Sid(r) \in Sessions
    BY <2>2, CallTypes
  <2>4. CASE found
    <3>1. session' \in [Requests -> SessionState]
      BY <2>1, <2>3, <2>4 DEF TypeOK
    <3>2. disturbed' \subseteq Requests /\ faults' \in 0..MaxFaults
      BY <2>1, LoadTypes
    <3>3. QED
      BY <1>2, <2>1, <2>2, <2>4, <3>1, <3>2
         DEF Find, TypeOK, IterationsLeft, Sent, Goto, Labels
  <2>5. CASE ~found
    <3>1. disturbed' \subseteq Requests /\ faults' \in 0..MaxFaults
      BY <2>1, LoadTypes
    <3>2. Answer(r, "not_found") /\ UNCHANGED <<store, call, steps>>
      BY <1>2, <2>1, <2>5 DEF Find
    <3>3. /\ pc' \in [Requests -> Labels]
          /\ \A q \in Requests : pc'[q] # "idle" => call'[q] \in Calls[q]
          /\ session' \in [Requests -> SessionState]
          /\ node' \in [Requests -> Nodes \cup {NoNode}]
          /\ left' \in [Requests -> Nat]
          /\ reply' \in [Requests -> Replies]
          /\ IterationsLeft'
      BY <2>2, <3>2, LeaveTypes DEF Replies
    <3>4. QED
      BY <3>1, <3>2, <3>3 DEF TypeOK, Sent
  <2>6. QED
    BY <2>4, <2>5
<1>3. ASSUME NEW r \in Requests, Load(r)
      PROVE  TypeInv'
  <2>1. PICK found \in BOOLEAN : Load(r)!2!(found)
    BY <1>3 DEF Load
  <2>2. Sid(r) \in Sessions
    BY <1>3, CallTypes DEF Load, Sent
  <2>3. store[Sid(r)] \in SessionState /\ session[r] \in SessionState
    BY <2>2 DEF TypeOK
  <2>4. session' \in [Requests -> SessionState]
    BY <2>1, <2>3, ZenonT(60) DEF TypeOK, SessionState, Statuses
  <2>5. QED
    BY <1>3, <2>1, <2>4, LoadTypes DEF Load, TypeOK, IterationsLeft, Sent, Goto, Labels
<1>4. ASSUME NEW r \in Requests, SaveRunning(r)
      PROVE  TypeInv'
  <2>1. Sent(r) /\ session[r] \in SessionState /\ Agent(r) \in AgentDefinition
    BY <1>4, CallTypes DEF SaveRunning, Sent, TypeOK
  <2>2. EntryNode(Agent(r), session[r]) \in Nodes \cup {NoNode}
    BY <2>1, GraphTypes
  <2>3. MaxSteps \in Nat \ {0} /\ Agent(r).max_iterations \in Nat \ {0}
    BY <2>1, AgentAssumption DEF AgentDefinition
  <2>4. left' \in [Requests -> Nat] /\ IterationsLeft'
    BY <1>4, <2>3 DEF SaveRunning, TypeOK, IterationsLeft, Goto
  <2>5. QED
    BY <1>4, <2>1, <2>2, <2>4, SaveTypes DEF SaveRunning, TypeOK, Sent, Goto, Labels
<1>5. ASSUME NEW r \in Requests, InterruptRead(r)
      PROVE  TypeInv'
  <2>1. PICK found \in BOOLEAN : InterruptRead(r)!2!(found)
    BY <1>5 DEF InterruptRead
  <2>2. Sid(r) \in Sessions
    BY <1>5, CallTypes DEF InterruptRead, Sent
  <2>3. session' \in [Requests -> SessionState]
    BY <2>1, <2>2, StartTypes DEF TypeOK
  <2>4. disturbed' \subseteq Requests /\ faults' \in 0..MaxFaults
    BY <2>1, LoadTypes
  <2>5. QED
    BY <1>5, <2>3, <2>4
       DEF InterruptRead, TypeOK, IterationsLeft, Sent, Goto, Labels
<1>6. ASSUME NEW r \in Requests, InterruptMark(r)
      PROVE  TypeInv'
  <2>1. Sent(r) /\ session[r] \in SessionState
    BY <1>6 DEF InterruptMark, Sent, TypeOK
  <2>2. [session[r] EXCEPT !.status = "interrupted"] \in SessionState
    BY <2>1 DEF SessionState, Statuses
  <2>3. steps' \in [Requests -> SUBSET StepKinds]
    BY <1>6 DEF InterruptMark, TypeOK
  <2>4. QED
    BY <1>6, <2>1, <2>2, <2>3, CloseTypes DEF InterruptMark, Replies, Statuses
<1>7. ASSUME NEW r \in Requests, EndNode(r)
      PROVE  TypeInv'
  <2>1. Sent(r)
    BY <1>7 DEF EndNode, Sent, At
  <2>2. steps' \in [Requests -> SUBSET StepKinds]
    BY <1>7 DEF EndNode, TypeOK
  <2>3. QED
    BY <1>7, <2>1, <2>2, StateTypes, CloseTypes DEF EndNode, Statuses, Replies
<1>8. ASSUME NEW r \in Requests, HumanNode(r)
      PROVE  TypeInv'
  <2>1. Sent(r)
    BY <1>8 DEF HumanNode, Sent, At
  <2>2. steps' \in [Requests -> SUBSET StepKinds]
    BY <1>8 DEF HumanNode, TypeOK
  <2>3. QED
    BY <1>8, <2>1, <2>2, StateTypes, CloseTypes DEF HumanNode, Statuses, Replies
<1>9. ASSUME NEW r \in Requests, ConditionNode(r)
      PROVE  TypeInv'
  <2>1. pc[r] = "step" /\ Agent(r) \in AgentDefinition
    BY <1>9, CallTypes DEF ConditionNode, At, Sent
  <2>2. steps' \in [Requests -> SUBSET StepKinds]
    BY <1>9, RecordTypes DEF ConditionNode, StepKinds
  <2>3. QED
    BY <1>9, <2>1, <2>2, GraphTypes, AdvanceTypes DEF ConditionNode
<1>10. ASSUME NEW r \in Requests, ActionNode(r)
      PROVE  TypeInv'
  <2>1. pc[r] = "step" /\ Agent(r) \in AgentDefinition
    BY <1>10, CallTypes DEF ActionNode, At, Sent
  <2>2. steps' \in [Requests -> SUBSET StepKinds]
    BY <1>10, RecordTypes DEF ActionNode, StepKinds
  <2>3. QED
    BY <1>10, <2>1, <2>2, GraphTypes, AdvanceTypes DEF ActionNode
<1>11. ASSUME NEW r \in Requests, SearchNode(r)
      PROVE  TypeInv'
  <2>1. Visit(r) \in SessionState
    BY StateTypes DEF Statuses
  <2>2. QED
    BY <1>11, <2>1 DEF SearchNode, At, TypeOK, IterationsLeft, Sent, Goto, Labels
<1>12. ASSUME NEW r \in Requests, LlmNode(r)
      PROVE  TypeInv'
  <2>1. pc[r] = "step" /\ Agent(r) \in AgentDefinition
    BY <1>12, CallTypes DEF LlmNode, At, Sent
  <2>2. steps' \in [Requests -> SUBSET StepKinds]
    BY <1>12, RecordTypes DEF LlmNode, StepKinds
  <2>3. QED
    BY <1>12, <2>1, <2>2, GraphTypes, AdvanceTypes DEF LlmNode
<1>13. ASSUME NEW r \in Requests, LlmNodePause(r)
      PROVE  TypeInv'
  <2>1. Sent(r)
    BY <1>13 DEF LlmNodePause, At, Sent
  <2>2. steps' \in [Requests -> SUBSET StepKinds]
    BY <1>13, RecordTypes DEF LlmNodePause, StepKinds
  <2>3. QED
    BY <1>13, <2>1, <2>2, StateTypes, PauseTypes DEF LlmNodePause, Statuses
<1>14. ASSUME NEW r \in Requests, LlmNodeError(r)
      PROVE  TypeInv'
  <2>1. Sent(r)
    BY <1>14 DEF LlmNodeError, At, Sent
  <2>2. steps' \in [Requests -> SUBSET StepKinds]
    BY <1>14, RecordTypes DEF LlmNodeError, StepKinds
  <2>3. QED
    BY <1>14, <2>1, <2>2, StateTypes, PauseTypes DEF LlmNodeError, Statuses
<1>15. ASSUME NEW r \in Requests, Finish(r)
      PROVE  TypeInv'
  <2>1. Sent(r)
    BY <1>15 DEF Finish, Sent
  <2>2. steps' \in [Requests -> SUBSET StepKinds]
    BY <1>15 DEF Finish, TypeOK
  <2>3. QED
    BY <1>15, <2>1, <2>2, StateTypes, CloseTypes DEF Finish, Statuses, Replies
<1>16. ASSUME NEW r \in Requests, Fail(r)
      PROVE  TypeInv'
  <2>1. Sent(r)
    BY <1>16 DEF Fail, Sent
  <2>2. steps' \in [Requests -> SUBSET StepKinds]
    BY <1>16 DEF Fail, TypeOK
  <2>3. QED
    BY <1>16, <2>1, <2>2, StateTypes, CloseTypes DEF Fail, Statuses, Replies
<1>17. ASSUME NEW r \in Requests, LoopAnswer(r)
      PROVE  TypeInv'
  <2>1. Sent(r)
    BY <1>17 DEF LoopAnswer, Sent, InLoop
  <2>2. steps' \in [Requests -> SUBSET StepKinds]
    BY <1>17, RecordTypes DEF LoopAnswer, StepKinds
  <2>3. QED
    BY <1>17, <2>1, <2>2, StateTypes, CloseTypes DEF LoopAnswer, Statuses, Replies
<1>18. ASSUME NEW r \in Requests, LoopError(r)
      PROVE  TypeInv'
  <2>1. Sent(r)
    BY <1>18 DEF LoopError, Sent, InLoop
  <2>2. steps' \in [Requests -> SUBSET StepKinds]
    BY <1>18, RecordTypes DEF LoopError, StepKinds
  <2>3. QED
    BY <1>18, <2>1, <2>2, StateTypes, CloseTypes DEF LoopError, Statuses, Replies
<1>19. ASSUME NEW r \in Requests, LoopBadAnswer(r)
      PROVE  TypeInv'
  <2>1. steps' \in [Requests -> SUBSET StepKinds]
    BY <1>19, RecordTypes DEF LoopBadAnswer, StepKinds
  <2>2. QED
    BY <1>19, <2>1 DEF LoopBadAnswer, InLoop, TypeOK, IterationsLeft, Sent, Goto, Labels
<1>20. ASSUME NEW r \in Requests, LoopTools(r)
      PROVE  TypeInv'
  <2>1. left[r] \in Nat \ {0}
    BY <1>20 DEF LoopTools, InLoop, TypeOK, IterationsLeft
  <2>2. left' \in [Requests -> Nat] /\ IterationsLeft'
    BY <1>20, <2>1 DEF LoopTools, TypeOK, IterationsLeft, Goto
  <2>3. steps' \in [Requests -> SUBSET StepKinds]
    BY <1>20, RecordTypes DEF LoopTools, StepKinds
  <2>4. QED
    BY <1>20, <2>2, <2>3 DEF LoopTools, InLoop, TypeOK, Sent, Goto, Labels
<1>21. ASSUME NEW r \in Requests, LoopPause(r)
      PROVE  TypeInv'
  <2>1. Sent(r)
    BY <1>21 DEF LoopPause, Sent, InLoop
  <2>2. steps' \in [Requests -> SUBSET StepKinds]
    BY <1>21, RecordTypes DEF LoopPause, StepKinds
  <2>3. QED
    BY <1>21, <2>1, <2>2, StateTypes, CloseTypes DEF LoopPause, Statuses, Replies
<1>22. ASSUME NEW r \in Requests, Disconnect(r)
      PROVE  TypeInv'
  <2>1. Sent(r) /\ faults' \in 0..MaxFaults
    BY <1>22, AgentAssumption DEF Disconnect, Busy, Sent, Fault, TypeOK
  <2>2. QED
    BY <1>22, <2>1, LeaveTypes DEF Disconnect, TypeOK, Sent, Replies
<1>23. CASE Crash
  BY <1>23, AgentAssumption, StartTypes
     DEF Crash, Fault, Busy, TypeOK, IterationsLeft, Sent, Labels, Replies
<1>24. ASSUME NEW s \in Sessions, Expire(s)
      PROVE  TypeInv'
  BY <1>24, AgentAssumption, StartTypes DEF Expire, Fault, On, TypeOK, IterationsLeft, Sent
<1>25. CASE UNCHANGED vars
  BY <1>25 DEF vars, TypeOK, IterationsLeft, Sent
<1>26. QED
  BY <1>1, <1>2, <1>3, <1>4, <1>5, <1>6, <1>7, <1>8, <1>9, <1>10, <1>11, <1>12, <1>13, <1>14,
     <1>15, <1>16, <1>17, <1>18, <1>19, <1>20, <1>21, <1>22, <1>23, <1>24, <1>25
     DEF Next, Progress, Endpoint, Workflow, Loop

(* The variables keep their types: whatever requests arrive, overlap and fail, the
   sessions Redis holds are well formed and no loop runs over its iterations. *)
THEOREM TypeCorrect == Spec => []TypeOK
<1>1. TypeInv => TypeOK
  BY DEF TypeInv
<1>2. QED
  BY <1>1, InitTypes, NextTypes, PTL DEF Spec

-----------------------------------------------------------------------------
(* The store agrees with the runs and with the answers *)

InRun(r) == pc[r] \in {"save", "step", "finish", "fail", "mark"}

(* A request that will save its copy of the session has seen every user message
   in the store, unless it is disturbed.  This is what makes TurnsKept hold: the
   copies overwrite the store whole. *)
TurnView ==
    \A r \in Requests :
        InRun(r) /\ r \notin disturbed => store[Sid(r)].turns \subseteq session[r].turns

Safe == RunningHasOwner /\ ReplyIsStored /\ TurnView

(* Only request r moves *)
Moves(r) ==
    /\ UNCHANGED call
    /\ \E l \in Labels : Goto(r, l)
    /\ \A q \in Requests \ {r} : session'[q] = session[q] /\ reply'[q] = reply[q]

(* The end of a request concerns that request only. *)
LEMMA LeaveMoves ==
    ASSUME TypeInv, NEW r \in Requests, NEW status,
           Leave(r, status) \/ Answer(r, status), UNCHANGED call
    PROVE  Moves(r) /\ pc'[r] = "done" /\ reply'[r] \in {status, "error"}
BY DEF TypeInv, TypeOK, Leave, Answer, Goto, Moves, Labels

(* One more iteration concerns that request only, and its run goes on. *)
LEMMA AdvanceMoves ==
    ASSUME TypeInv, NEW r \in Requests, pc[r] = "step", NEW n, Advance(r, n)
    PROVE  /\ Working(r) /\ Moves(r) /\ Working(r)'
           /\ session'[r].turns = session[r].turns
BY StateTypes, ZenonT(60) DEF Advance, Working, Moves, Goto, Labels, Statuses, TypeInv, TypeOK

(* A step of the run of r that saves *)
LEMMA SaveSafe ==
    ASSUME TypeInv, Safe, NEW r \in Requests, InRun(r), Moves(r),
           NEW state \in SessionState, Save(r, state),
           Working(r)' \/ state.status # "running",
           pc'[r] = "done" => reply'[r] \in {state.status, "error"},
           InRun(r)' => /\ state.turns = session[r].turns
                        /\ session'[r].turns = session[r].turns
    PROVE  Safe'
<1>1. Sent(r) /\ Sid(r) \in Sessions
  BY CallTypes DEF InRun, Sent
<1>2. RunningHasOwner'
  <2>1. SUFFICES ASSUME faults' = 0, NEW s \in Sessions, store'[s].status = "running"
                 PROVE  \E q \in Requests : Working(q)' /\ Sid(q)' = s
    BY DEF RunningHasOwner
  <2>2. faults = 0 /\ store' = [store EXCEPT ![Sid(r)] = state]
    BY <2>1 DEF Save, Fault, TypeInv, TypeOK
  <2>3. CASE s = Sid(r)
    BY <2>1, <2>2, <2>3, <1>1 DEF Moves, Sid, TypeInv, TypeOK
  <2>4. CASE s # Sid(r)
    <3>1. PICK q \in Requests : Working(q) /\ Sid(q) = s
      BY <2>1, <2>2, <2>4 DEF Safe, RunningHasOwner, TypeInv, TypeOK
    <3>2. QED
      BY <3>1, <2>4 DEF Moves, Goto, Working, Sid, TypeInv, TypeOK
  <2>5. QED
    BY <2>3, <2>4
<1>3. ASSUME NEW q \in Requests, q # r, q \notin disturbed', Sent(q)
      PROVE  q \notin disturbed /\ store'[Sid(q)] = store[Sid(q)]
  BY <1>1, <1>3, CallTypes DEF Save, On, Sid, TypeInv, TypeOK
<1>4. r \notin disturbed' => store'[Sid(r)] = state /\ r \notin disturbed
  BY <1>1 DEF Save, On, TypeInv, TypeOK
<1>5. ReplyIsStored'
  <2>1. SUFFICES ASSUME NEW q \in Requests,
                        pc'[q] = "done", reply'[q] \in Statuses, q \notin disturbed'
                 PROVE  store'[Sid(q)].status = reply'[q]
    BY DEF ReplyIsStored, Moves, Sid
  <2>2. CASE q = r
    BY <2>1, <2>2, <1>4 DEF Statuses
  <2>3. CASE q # r
    BY <2>1, <2>3, <1>3 DEF Moves, Goto, Sent, Safe, ReplyIsStored, TypeInv, TypeOK
  <2>4. QED
    BY <2>2, <2>3
<1>6. TurnView'
  <2>1. SUFFICES ASSUME NEW q \in Requests, InRun(q)', q \notin disturbed'
                 PROVE  store'[Sid(q)].turns \subseteq session'[q].turns
    BY DEF TurnView, Moves, Sid
  <2>2. CASE q = r
    BY <2>1, <2>2, <1>4
  <2>3. CASE q # r
    BY <2>1, <2>3, <1>3 DEF Moves, Goto, Sent, InRun, Safe, TurnView, TypeInv, TypeOK
  <2>4. QED
    BY <2>2, <2>3
<1>7. QED
  BY <1>2, <1>5, <1>6 DEF Safe

(* A step of the run of r that does not *)
LEMMA QuietSafe ==
    ASSUME TypeInv, Safe, NEW r \in Requests, Working(r), Moves(r), Working(r)',
           session'[r].turns = session[r].turns, UNCHANGED <<store, disturbed, faults>>
    PROVE  Safe'
<1>1. RunningHasOwner'
  <2>1. \A q \in Requests : Working(q) => Working(q)'
    BY DEF Moves, Goto, Working, TypeInv, TypeOK
  <2>2. QED
    BY <2>1 DEF RunningHasOwner, Moves, Sid, Safe
<1>2. ReplyIsStored'
  BY DEF ReplyIsStored, Moves, Goto, Working, Sid, Safe, TypeInv, TypeOK
<1>3. TurnView'
  BY DEF TurnView, Moves, Goto, InRun, Working, Sid, Safe, TypeInv, TypeOK
<1>4. QED
  BY <1>1, <1>2, <1>3 DEF Safe

(* A step of r that reads the session *)
LEMMA LookSafe ==
    ASSUME TypeInv, Safe, NEW r \in Requests, Sent(r), ~Working(r), ~Working(r)',
           Moves(r), NEW found \in BOOLEAN, Loads(r, found), UNCHANGED store,
           pc'[r] = "done" => reply'[r] \notin Statuses,
           InRun(r)' /\ r \notin disturbed'
                => store[Sid(r)].turns \subseteq session'[r].turns
    PROVE  Safe'
<1>1. faults' = 0 => faults = 0
  BY DEF Loads, Fault, TypeInv, TypeOK
<1>2. \A q \in Requests \ {r} : /\ q \in disturbed <=> q \in disturbed'
                              /\ pc'[q] = pc[q]
  BY DEF Loads, Moves, Goto, TypeInv, TypeOK
<1>3. RunningHasOwner'
  BY <1>1, <1>2 DEF Safe, RunningHasOwner, Moves, Working, Sid
<1>4. ReplyIsStored'
  BY <1>2 DEF Safe, ReplyIsStored, Moves, Sid
<1>5. TurnView'
  BY <1>2 DEF Safe, TurnView, InRun, Moves, Sid
<1>6. QED
  BY <1>3, <1>4, <1>5 DEF Safe

(* The server starts with no session, so no answer and no copy disagrees. *)
LEMMA InitSafe == Init => Safe
BY DEF Init, Safe, RunningHasOwner, ReplyIsStored, TurnView, InRun, Absent

(* No step breaks the agreement. *)
LEMMA NextSafe == TypeInv /\ Safe /\ [Next]_vars => Safe'
<1> SUFFICES ASSUME TypeInv, Safe, [Next]_vars
             PROVE  Safe'
  OBVIOUS
<1>1. ASSUME NEW r \in Requests, Arrive(r)
      PROVE  Safe'
  <2>1. PICK c \in Calls[r] : Arrive(r)!2!(c)
    BY <1>1 DEF Arrive
  <2>2. c \in Call
    BY AgentAssumption
  <2>3. Opening[c.op] \in {"load", "find", "read"}
    BY <2>2 DEF Call, Endpoints, Opening
  <2>4. /\ ~InRun(r) /\ ~InRun(r)' /\ ~Working(r) /\ pc'[r] # "done"
        /\ \A q \in Requests \ {r} : pc'[q] = pc[q] /\ call'[q] = call[q]
    BY <1>1, <2>1, <2>3 DEF Arrive, Sent, InRun, Working, Goto, TypeInv, TypeOK
  <2>5. UNCHANGED <<store, session, reply, disturbed, faults>>
    BY <1>1 DEF Arrive
  <2>6. RunningHasOwner'
    BY <2>4, <2>5 DEF Safe, RunningHasOwner, Working, Sid
  <2>7. ReplyIsStored' /\ TurnView'
    BY <2>4, <2>5 DEF Safe, ReplyIsStored, TurnView, InRun, Sid
  <2>8. QED
    BY <2>6, <2>7 DEF Safe
<1>2. ASSUME NEW r \in Requests, Find(r)
      PROVE  Safe'
  <2>1. PICK found \in BOOLEAN : Find(r)!2!(found)
    BY <1>2 DEF Find
  <2>2. /\ Moves(r)
        /\ pc'[r] \in {"load", "done"}
        /\ pc'[r] = "done" => reply'[r] \notin Statuses
    <3>1. CASE found
      BY <1>2, <2>1, <3>1 DEF Find, Moves, Goto, Labels, TypeInv, TypeOK
    <3>2. CASE ~found
      BY <1>2, <2>1, <3>2, LeaveMoves DEF Find, Statuses
    <3>3. QED
      BY <3>1, <3>2
  <2>3. QED
    BY <1>2, <2>1, <2>2, LookSafe DEF Find, Sent, Working, InRun
<1>3. ASSUME NEW r \in Requests, Load(r)
      PROVE  Safe'
  <2>1. PICK found \in BOOLEAN : Load(r)!2!(found)
    BY <1>3 DEF Load
  <2>2. Moves(r) /\ pc'[r] = "save"
    BY <1>3, <2>1 DEF Load, Moves, Goto, Labels, TypeInv, TypeOK
  <2>3. Sid(r) \in Sessions
    BY <1>3, CallTypes DEF Load, Sent
  <2>4. r \notin disturbed' => store[Sid(r)].turns \subseteq session'[r].turns
    <3>1. CASE found
      BY <2>1, <2>3, <3>1 DEF TypeInv, TypeOK, SessionState
    <3>2. CASE ~found
      BY <2>1, <3>2 DEF Loads, Absent
    <3>3. QED
      BY <3>1, <3>2
  <2>5. QED
    BY <1>3, <2>1, <2>2, <2>4, LookSafe DEF Load, Sent, Working
<1>4. ASSUME NEW r \in Requests, SaveRunning(r)
      PROVE  Safe'
  <2>1. session[r] \in SessionState
    BY DEF TypeInv, TypeOK
  <2>2. Moves(r) /\ pc'[r] = "step" /\ session' = session /\ InRun(r)
    BY <1>4 DEF SaveRunning, Moves, Goto, Labels, InRun, TypeInv, TypeOK
  <2>3. QED
    BY <1>4, <2>1, <2>2, SaveSafe DEF SaveRunning, Working
<1>5. ASSUME NEW r \in Requests, InterruptRead(r)
      PROVE  Safe'
  <2>1. PICK found \in BOOLEAN : InterruptRead(r)!2!(found)
    BY <1>5 DEF InterruptRead
  <2>2. Moves(r) /\ pc'[r] = "mark"
    BY <1>5, <2>1 DEF InterruptRead, Moves, Goto, Labels, TypeInv, TypeOK
  <2>3. r \notin disturbed' => store[Sid(r)].turns \subseteq session'[r].turns
    <3>1. CASE found
      BY <2>1, <3>1 DEF TypeInv, TypeOK
    <3>2. CASE ~found
      BY <2>1, <3>2 DEF Loads, Absent
    <3>3. QED
      BY <3>1, <3>2
  <2>4. QED
    BY <1>5, <2>1, <2>2, <2>3, LookSafe DEF InterruptRead, Sent, Working
<1>6. ASSUME NEW r \in Requests, InterruptMark(r)
      PROVE  Safe'
  <2>1. InRun(r) /\ Moves(r) /\ pc'[r] = "done" /\ reply'[r] \in {"interrupted", "error"}
    BY <1>6, LeaveMoves DEF InterruptMark, InRun
  <2>2. [session[r] EXCEPT !.status = "interrupted"] \in SessionState
        /\ [session[r] EXCEPT !.status = "interrupted"].status = "interrupted"
    BY StateTypes DEF Statuses
  <2>3. QED
    BY <1>6, <2>1, <2>2, SaveSafe DEF InterruptMark, InRun
<1>7. ASSUME NEW r \in Requests, EndNode(r)
      PROVE  Safe'
  <2>1. InRun(r) /\ Moves(r) /\ pc'[r] = "done" /\ reply'[r] \in {"completed", "error"}
    BY <1>7, LeaveMoves DEF EndNode, At, InRun
  <2>2. VisitAs(r, "completed") \in SessionState
        /\ VisitAs(r, "completed").status = "completed"
    BY StateTypes DEF Statuses
  <2>3. QED
    BY <1>7, <2>1, <2>2, SaveSafe DEF EndNode, InRun
<1>8. ASSUME NEW r \in Requests, HumanNode(r)
      PROVE  Safe'
  <2>1. InRun(r) /\ Moves(r) /\ pc'[r] = "done" /\ reply'[r] \in {"awaiting_input", "error"}
    BY <1>8, LeaveMoves DEF HumanNode, At, InRun
  <2>2. VisitAs(r, "awaiting_input") \in SessionState
        /\ VisitAs(r, "awaiting_input").status = "awaiting_input"
    BY StateTypes DEF Statuses
  <2>3. QED
    BY <1>8, <2>1, <2>2, SaveSafe DEF HumanNode, InRun
<1>9. ASSUME NEW r \in Requests, ConditionNode(r)
      PROVE  Safe'
  <2>1. Working(r) /\ Moves(r) /\ Working(r)' /\ session'[r].turns = session[r].turns
    BY <1>9, AdvanceMoves DEF ConditionNode, At
  <2>2. QED
    BY <1>9, <2>1, QuietSafe DEF ConditionNode, Advance
<1>10. ASSUME NEW r \in Requests, ActionNode(r)
      PROVE  Safe'
  <2>1. Working(r) /\ Moves(r) /\ Working(r)' /\ session'[r].turns = session[r].turns
    BY <1>10, AdvanceMoves DEF ActionNode, At
  <2>2. QED
    BY <1>10, <2>1, QuietSafe DEF ActionNode, Advance
<1>11. ASSUME NEW r \in Requests, SearchNode(r)
      PROVE  Safe'
  <2>1. Working(r) /\ Moves(r) /\ Working(r)' /\ session'[r].turns = session[r].turns
    BY <1>11, StateTypes, ZenonT(60) DEF SearchNode, At, Working, Moves, Goto, Labels, Statuses, TypeInv, TypeOK
  <2>2. QED
    BY <1>11, <2>1, QuietSafe DEF SearchNode
<1>12. ASSUME NEW r \in Requests, LlmNode(r)
      PROVE  Safe'
  <2>1. Working(r) /\ Moves(r) /\ Working(r)' /\ session'[r].turns = session[r].turns
    BY <1>12, AdvanceMoves DEF LlmNode, At
  <2>2. QED
    BY <1>12, <2>1, QuietSafe DEF LlmNode, Advance
<1>13. ASSUME NEW r \in Requests, LlmNodePause(r)
      PROVE  Safe'
  <2>1. InRun(r) /\ Moves(r) /\ Working(r)' /\ pc'[r] # "done"
    BY <1>13 DEF LlmNodePause, At, InRun, Working, Moves, Goto, Labels, TypeInv, TypeOK
  <2> DEFINE state == VisitAs(r, "awaiting_input")
  <2>2. /\ state \in SessionState /\ Save(r, state) /\ state.status = "awaiting_input"
        /\ state.turns = session[r].turns /\ session'[r] = state
    BY <1>13, StateTypes DEF LlmNodePause, Statuses, TypeInv, TypeOK
  <2> HIDE DEF state
  <2>3. QED
    BY <2>1, <2>2, SaveSafe
<1>14. ASSUME NEW r \in Requests, LlmNodeError(r)
      PROVE  Safe'
  <2>1. InRun(r) /\ Moves(r) /\ Working(r)' /\ pc'[r] # "done"
    BY <1>14 DEF LlmNodeError, At, InRun, Working, Moves, Goto, Labels, TypeInv, TypeOK
  <2> DEFINE state == VisitAs(r, "failed")
  <2>2. /\ state \in SessionState /\ Save(r, state) /\ state.status = "failed"
        /\ state.turns = session[r].turns /\ session'[r] = state
    BY <1>14, StateTypes DEF LlmNodeError, Statuses, TypeInv, TypeOK
  <2> HIDE DEF state
  <2>3. QED
    BY <2>1, <2>2, SaveSafe
<1>15. ASSUME NEW r \in Requests, Finish(r)
      PROVE  Safe'
  <2>1. InRun(r) /\ Moves(r) /\ pc'[r] = "done" /\ reply'[r] \in {"completed", "error"}
    BY <1>15, LeaveMoves DEF Finish, InRun
  <2>2. [session[r] EXCEPT !.status = "completed"] \in SessionState
        /\ [session[r] EXCEPT !.status = "completed"].status = "completed"
    BY StateTypes DEF Statuses
  <2>3. QED
    BY <1>15, <2>1, <2>2, SaveSafe DEF Finish, InRun
<1>16. ASSUME NEW r \in Requests, Fail(r)
      PROVE  Safe'
  <2>1. InRun(r) /\ Moves(r) /\ pc'[r] = "done" /\ reply'[r] \in {"failed", "error"}
    BY <1>16, LeaveMoves DEF Fail, InRun
  <2>2. [session[r] EXCEPT !.status = "failed"] \in SessionState
        /\ [session[r] EXCEPT !.status = "failed"].status = "failed"
    BY StateTypes DEF Statuses
  <2>3. QED
    BY <1>16, <2>1, <2>2, SaveSafe DEF Fail, InRun
<1>17. ASSUME NEW r \in Requests, LoopAnswer(r)
      PROVE  Safe'
  <2>1. InRun(r) /\ Moves(r) /\ pc'[r] = "done" /\ reply'[r] \in {"completed", "error"}
    BY <1>17, LeaveMoves DEF LoopAnswer, InLoop, InRun
  <2>2. As(r, "completed") \in SessionState
        /\ As(r, "completed").status = "completed"
    BY StateTypes DEF Statuses
  <2>3. QED
    BY <1>17, <2>1, <2>2, SaveSafe DEF LoopAnswer, InRun
<1>18. ASSUME NEW r \in Requests, LoopError(r)
      PROVE  Safe'
  <2>1. InRun(r) /\ Moves(r) /\ pc'[r] = "done" /\ reply'[r] \in {"failed", "error"}
    BY <1>18, LeaveMoves DEF LoopError, InLoop, InRun
  <2>2. As(r, "failed") \in SessionState
        /\ As(r, "failed").status = "failed"
    BY StateTypes DEF Statuses
  <2>3. QED
    BY <1>18, <2>1, <2>2, SaveSafe DEF LoopError, InRun
<1>19. ASSUME NEW r \in Requests, LoopBadAnswer(r)
      PROVE  Safe'
  <2>1. Working(r) /\ Moves(r) /\ Working(r)' /\ session'[r].turns = session[r].turns
    BY <1>19 DEF LoopBadAnswer, InLoop, Working, Moves, Goto, Labels, TypeInv, TypeOK
  <2>2. QED
    BY <1>19, <2>1, QuietSafe DEF LoopBadAnswer
<1>20. ASSUME NEW r \in Requests, LoopTools(r)
      PROVE  Safe'
  <2>1. Working(r) /\ Moves(r) /\ Working(r)' /\ session'[r].turns = session[r].turns
    BY <1>20 DEF LoopTools, InLoop, Working, Moves, Goto, Labels, TypeInv, TypeOK
  <2>2. QED
    BY <1>20, <2>1, QuietSafe DEF LoopTools
<1>21. ASSUME NEW r \in Requests, LoopPause(r)
      PROVE  Safe'
  <2>1. InRun(r) /\ Moves(r) /\ pc'[r] = "done" /\ reply'[r] \in {"awaiting_input", "error"}
    BY <1>21, LeaveMoves DEF LoopPause, InLoop, InRun
  <2>2. As(r, "awaiting_input") \in SessionState
        /\ As(r, "awaiting_input").status = "awaiting_input"
    BY StateTypes DEF Statuses
  <2>3. QED
    BY <1>21, <2>1, <2>2, SaveSafe DEF LoopPause, InRun
<1>22. ASSUME NEW r \in Requests, Disconnect(r)
      PROVE  Safe'
  <2>1. Moves(r) /\ pc'[r] = "done" /\ reply'[r] \notin Statuses
    BY <1>22, LeaveMoves DEF Disconnect, Statuses
  <2>2. faults' # 0 /\ UNCHANGED <<store, disturbed>>
    BY <1>22 DEF Disconnect, Fault, TypeInv, TypeOK
  <2>3. QED
    BY <2>1, <2>2
       DEF Safe, RunningHasOwner, ReplyIsStored, TurnView, Moves, Goto, InRun, Sid, TypeInv, TypeOK
<1>23. CASE Crash
  <2>1. faults' # 0 /\ UNCHANGED <<store, call, disturbed>>
    BY <1>23 DEF Crash, Fault, TypeInv, TypeOK
  <2>2. ASSUME NEW q \in Requests
        PROVE  /\ pc'[q] \notin {"save", "step", "finish", "fail", "mark"}
               /\ reply'[q] \in Statuses => reply'[q] = reply[q] /\ pc'[q] = pc[q]
    BY <1>23 DEF Crash, Busy, Statuses, TypeInv, TypeOK, Labels
  <2>3. RunningHasOwner'
    BY <2>1 DEF RunningHasOwner
  <2>4. TurnView'
    BY <2>2 DEF TurnView, InRun
  <2>5. ReplyIsStored'
    BY <2>1, <2>2 DEF Safe, ReplyIsStored, Sid
  <2>6. QED
    BY <2>3, <2>4, <2>5 DEF Safe
<1>24. ASSUME NEW s \in Sessions, Expire(s)
      PROVE  Safe'
  <2>1. faults' # 0 /\ UNCHANGED <<call, pc, session, reply>>
    BY <1>24 DEF Expire, Fault, TypeInv, TypeOK
  <2>2. \A q \in Requests :
           Sent(q) /\ q \notin disturbed' => q \notin disturbed /\ store'[Sid(q)] = store[Sid(q)]
    BY <1>24, CallTypes DEF Expire, On, Sid, TypeInv, TypeOK
  <2>3. RunningHasOwner'
    BY <2>1 DEF RunningHasOwner
  <2>4. ReplyIsStored'
    BY <2>1, <2>2 DEF Safe, ReplyIsStored, Sent, Sid
  <2>5. TurnView'
    BY <2>1, <2>2 DEF Safe, TurnView, InRun, Sent, Sid
  <2>6. QED
    BY <2>3, <2>4, <2>5 DEF Safe
<1>25. CASE UNCHANGED vars
  BY <1>25 DEF vars, Safe, RunningHasOwner, ReplyIsStored, TurnView, Working, InRun, Sid
<1>26. QED
  BY <1>1, <1>2, <1>3, <1>4, <1>5, <1>6, <1>7, <1>8, <1>9, <1>10, <1>11, <1>12, <1>13, <1>14,
     <1>15, <1>16, <1>17, <1>18, <1>19, <1>20, <1>21, <1>22, <1>23, <1>24, <1>25
     DEF Next, Progress, Endpoint, Workflow, Loop

(* Both invariants hold throughout. *)
LEMMA AlwaysSafe == Spec => [](TypeInv /\ Safe)
BY InitTypes, NextTypes, InitSafe, NextSafe, PTL DEF Spec

(* A session is saved as running only while some run works on it, and will save
   another status: the status the UI polls does not stick, short of a fault. *)
THEOREM RunningIsOwned == Spec => []RunningHasOwner
<1>1. Safe => RunningHasOwner
  BY DEF Safe
<1>2. QED
  BY <1>1, AlwaysSafe, PTL

(* What a client was answered is what the status endpoint reads, unless another
   request or a fault came between. *)
THEOREM ReplyStored == Spec => []ReplyIsStored
<1>1. Safe => ReplyIsStored
  BY DEF Safe
<1>2. QED
  BY <1>1, AlwaysSafe, PTL

(* A save drops a message only if its request is disturbed, and then it moves. *)
LEMMA SaveKeeps ==
    ASSUME TypeInv, Safe, NEW r \in Requests, InRun(r), pc'[r] # pc[r],
           NEW state \in SessionState, state.turns = session[r].turns, Save(r, state)
    PROVE  KeepsTurns
<1>1. Sid(r) \in Sessions
  BY CallTypes DEF InRun, Sent
<1>2. CASE r \in disturbed
  BY <1>1, <1>2 DEF KeepsTurns, Save, TypeInv, TypeOK
<1>3. CASE r \notin disturbed
  BY <1>1, <1>3 DEF KeepsTurns, Save, Safe, TurnView, TypeInv, TypeOK
<1>4. QED
  BY <1>2, <1>3

(* No step drops a message otherwise. *)
LEMMA NextKeeps == TypeInv /\ Safe /\ [Next]_vars => [KeepsTurns]_vars
<1> SUFFICES ASSUME TypeInv, Safe, Next
             PROVE  KeepsTurns
  OBVIOUS
<1>1. ASSUME UNCHANGED store
      PROVE  KeepsTurns
  BY <1>1 DEF KeepsTurns
<1>2. ASSUME NEW r \in Requests, SaveRunning(r)
      PROVE  KeepsTurns
  <2>1. InRun(r) /\ pc'[r] # pc[r] /\ session[r] \in SessionState
    BY <1>2 DEF SaveRunning, InRun, Goto, TypeInv, TypeOK
  <2>2. QED
    BY <1>2, <2>1, SaveKeeps DEF SaveRunning
<1>3. ASSUME NEW r \in Requests, InterruptMark(r)
      PROVE  KeepsTurns
  <2>1. InRun(r) /\ pc'[r] # pc[r]
    BY <1>3, LeaveMoves DEF InterruptMark, InRun
  <2>2. /\ [session[r] EXCEPT !.status = "interrupted"] \in SessionState
        /\ [session[r] EXCEPT !.status = "interrupted"].turns = session[r].turns
    BY StateTypes DEF Statuses
  <2>3. QED
    BY <1>3, <2>1, <2>2, SaveKeeps DEF InterruptMark
<1>4. ASSUME NEW r \in Requests, EndNode(r)
      PROVE  KeepsTurns
  <2>1. InRun(r) /\ pc'[r] # pc[r]
    BY <1>4, LeaveMoves DEF EndNode, At, InRun
  <2>2. /\ VisitAs(r, "completed") \in SessionState
        /\ VisitAs(r, "completed").turns = session[r].turns
    BY StateTypes DEF Statuses
  <2>3. QED
    BY <1>4, <2>1, <2>2, SaveKeeps DEF EndNode
<1>5. ASSUME NEW r \in Requests, HumanNode(r)
      PROVE  KeepsTurns
  <2>1. InRun(r) /\ pc'[r] # pc[r]
    BY <1>5, LeaveMoves DEF HumanNode, At, InRun
  <2>2. /\ VisitAs(r, "awaiting_input") \in SessionState
        /\ VisitAs(r, "awaiting_input").turns = session[r].turns
    BY StateTypes DEF Statuses
  <2>3. QED
    BY <1>5, <2>1, <2>2, SaveKeeps DEF HumanNode
<1>6. ASSUME NEW r \in Requests, LlmNodePause(r)
      PROVE  KeepsTurns
  <2>1. InRun(r) /\ pc'[r] # pc[r]
    BY <1>6 DEF LlmNodePause, At, InRun, Goto, TypeInv, TypeOK
  <2>2. /\ VisitAs(r, "awaiting_input") \in SessionState
        /\ VisitAs(r, "awaiting_input").turns = session[r].turns
    BY StateTypes DEF Statuses
  <2>3. QED
    BY <1>6, <2>1, <2>2, SaveKeeps DEF LlmNodePause
<1>7. ASSUME NEW r \in Requests, LlmNodeError(r)
      PROVE  KeepsTurns
  <2>1. InRun(r) /\ pc'[r] # pc[r]
    BY <1>7 DEF LlmNodeError, At, InRun, Goto, TypeInv, TypeOK
  <2>2. /\ VisitAs(r, "failed") \in SessionState
        /\ VisitAs(r, "failed").turns = session[r].turns
    BY StateTypes DEF Statuses
  <2>3. QED
    BY <1>7, <2>1, <2>2, SaveKeeps DEF LlmNodeError
<1>8. ASSUME NEW r \in Requests, Finish(r)
      PROVE  KeepsTurns
  <2>1. InRun(r) /\ pc'[r] # pc[r]
    BY <1>8, LeaveMoves DEF Finish, InRun
  <2>2. /\ [session[r] EXCEPT !.status = "completed"] \in SessionState
        /\ [session[r] EXCEPT !.status = "completed"].turns = session[r].turns
    BY StateTypes DEF Statuses
  <2>3. QED
    BY <1>8, <2>1, <2>2, SaveKeeps DEF Finish
<1>9. ASSUME NEW r \in Requests, Fail(r)
      PROVE  KeepsTurns
  <2>1. InRun(r) /\ pc'[r] # pc[r]
    BY <1>9, LeaveMoves DEF Fail, InRun
  <2>2. /\ [session[r] EXCEPT !.status = "failed"] \in SessionState
        /\ [session[r] EXCEPT !.status = "failed"].turns = session[r].turns
    BY StateTypes DEF Statuses
  <2>3. QED
    BY <1>9, <2>1, <2>2, SaveKeeps DEF Fail
<1>10. ASSUME NEW r \in Requests, LoopAnswer(r)
      PROVE  KeepsTurns
  <2>1. InRun(r) /\ pc'[r] # pc[r]
    BY <1>10, LeaveMoves DEF LoopAnswer, InLoop, InRun
  <2>2. /\ As(r, "completed") \in SessionState
        /\ As(r, "completed").turns = session[r].turns
    BY StateTypes DEF Statuses
  <2>3. QED
    BY <1>10, <2>1, <2>2, SaveKeeps DEF LoopAnswer
<1>11. ASSUME NEW r \in Requests, LoopError(r)
      PROVE  KeepsTurns
  <2>1. InRun(r) /\ pc'[r] # pc[r]
    BY <1>11, LeaveMoves DEF LoopError, InLoop, InRun
  <2>2. /\ As(r, "failed") \in SessionState
        /\ As(r, "failed").turns = session[r].turns
    BY StateTypes DEF Statuses
  <2>3. QED
    BY <1>11, <2>1, <2>2, SaveKeeps DEF LoopError
<1>12. ASSUME NEW r \in Requests, LoopPause(r)
      PROVE  KeepsTurns
  <2>1. InRun(r) /\ pc'[r] # pc[r]
    BY <1>12, LeaveMoves DEF LoopPause, InLoop, InRun
  <2>2. /\ As(r, "awaiting_input") \in SessionState
        /\ As(r, "awaiting_input").turns = session[r].turns
    BY StateTypes DEF Statuses
  <2>3. QED
    BY <1>12, <2>1, <2>2, SaveKeeps DEF LoopPause
<1>13. ASSUME NEW s \in Sessions, Expire(s)
      PROVE  KeepsTurns
  BY <1>13 DEF Expire, KeepsTurns, TypeInv, TypeOK
<1>14. QED
  BY <1>1, <1>2, <1>3, <1>4, <1>5, <1>6, <1>7, <1>8, <1>9, <1>10, <1>11, <1>12, <1>13
     DEF Next, Progress, Endpoint, Workflow, Loop, Arrive, Find, Load, InterruptRead,
         ConditionNode, ActionNode, SearchNode, LlmNode, Advance, LoopBadAnswer, LoopTools,
         Disconnect, Crash

(* The message of a user leaves the stored conversation only with the session, or
   because a request that had loaded it before saved its own copy over it. *)
THEOREM TurnsAreKept == Spec => TurnsKept
BY AlwaysSafe, NextKeeps, PTL DEF Spec, TurnsKept
=============================================================================
