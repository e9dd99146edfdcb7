------------------------ MODULE OntologyStoreProofs ------------------------
(***************************************************************************)
(* Proofs about the ontology store, for any requests and any failures.     *)
(***************************************************************************)
EXTENDS OntologyStore, FiniteSetTheorems, TLAPS

(* The last step of a request: its transaction commits, whatever the client
   hears, or it is rolled back *)
Commits(r) == Store(r) /\ \E status \in {"ok", "error"} : Answer(r, status)

Aborts(r) ==
    /\ pc[r] = "write"
    /\ Answer(r, "error")
    /\ UNCHANGED <<call, loaded, types, graph, committed, missed>>

(* A creation is checked *)
Checks(r) == Check(r) \/ CheckActionType(r)

(* The request an action is about, when it is about one *)
Moves(r) == Checks(r) \/ Draw(r) \/ DrawFails(r) \/ Load(r) \/ Commits(r) \/ Aborts(r)

LEMMA Cases ==
    ASSUME [Next]_vars
    PROVE  (\E r \in Requests : Moves(r)) \/ Restart \/ UNCHANGED vars
BY DEF Next, vars, Write, WriteFails, Moves, Checks, Commits, Aborts

(* What is asked is a creation or a change, never both *)
LEMMA Asked ==
    ASSUME TypeOK, NEW r \in Requests, Sent(r)
    PROVE  /\ call[r] \in Creation \cup Change
           /\ call[r].op = "create" => call[r] \in Creation
           /\ call[r].op # "create" => call[r] \in Change /\ call[r].type \in Requests
BY StoreAssumption DEF TypeOK, Creation, Change, Update

LEMMA EditedType ==
    ASSUME TypeOK, NEW r \in Requests, Sent(r), call[r].op # "create"
    PROVE  Edited(r) \in ObjectType
<1>1. call[r] \in Change /\ loaded[r] \in ObjectType
  BY Asked DEF TypeOK
<1>2. CASE call[r].op = "update"
  <2>1. call[r] \in Update
    BY <1>1, <1>2 DEF Change
  <2>2. QED
    BY <1>1, <1>2, <2>1 DEF Edited, ObjectType, Update
<1>3. CASE call[r].op = "archive"
  BY <1>1, <1>3 DEF Edited, ObjectType, Statuses
<1>4. CASE call[r].op \notin {"update", "archive"}
  BY <1>1, <1>4 DEF Edited, ObjectType, Verdict
<1>5. QED
  BY <1>2, <1>3, <1>4

LEMMA MergedType ==
    ASSUME NEW row \in ObjectType, NEW old \in ObjectType, NEW new \in ObjectType
    PROVE  Merged(row, old, new) \in ObjectType
BY DEF Merged, Column, ObjectType

(* What a commit does to the object types *)
LEMMA TypesAfter ==
    ASSUME TypeOK, NEW r \in Requests, Commits(r)
    PROVE  /\ types' \in [Requests -> ObjectType]
           /\ call[r].op = "create" => types' = types
           /\ call[r].op # "create" =>
                /\ types'[call[r].type] =
                     Merged(types[call[r].type], loaded[r], Edited(r))
                /\ \A t \in Requests \ {call[r].type} : types'[t] = types[t]
<1>1. Sent(r)
  BY DEF Commits, Store, Sent
<1>2. CASE call[r].op = "create"
  BY <1>2 DEF Commits, Store, TypeOK
<1>3. CASE call[r].op # "create"
  <2> DEFINE t == call[r].type
             row == Merged(types[t], loaded[r], Edited(r))
  <2>1. t \in Requests /\ Edited(r) \in ObjectType
    BY <1>1, <1>3, Asked, EditedType
  <2>2. row \in ObjectType
    BY <2>1, MergedType DEF TypeOK
  <2>3. types' = [types EXCEPT ![t] = row]
    BY <1>3 DEF Commits, Store
  <2> HIDE DEF t, row
  <2>4. /\ types' \in [Requests -> ObjectType]
        /\ types'[t] = row
        /\ \A u \in Requests \ {t} : types'[u] = types[u]
    BY <2>1, <2>2, <2>3 DEF TypeOK
  <2>5. QED
    BY <1>3, <2>4 DEF t, row
<1>4. QED
  BY <1>2, <1>3

LEMMA NewTypeOK == \A r \in Requests : NewType(r) \in ObjectType
BY DEF NewType, ObjectType, Statuses

LEMMA InitTypes == Init => TypeOK
BY StoreAssumption, NewTypeOK DEF Init, TypeOK, Labels, Replies, Sent

LEMMA StepTypes ==
    ASSUME TypeOK, [Next]_vars
    PROVE  TypeOK'
<1> USE StoreAssumption DEF TypeOK, Sent
<1>1. ASSUME NEW r \in Requests, Checks(r) \/ Load(r)
      PROVE  TypeOK'
  <2>1. \E c \in Calls[r] \cap (Creation \cup Change) : call' = [call EXCEPT ![r] = c]
    BY <1>1 DEF Checks, Check, CheckActionType, Load
  <2>2. \E l \in Labels \ {"idle"} : pc' = [pc EXCEPT ![r] = l]
    BY <1>1 DEF Checks, Check, CheckActionType, Load, Answer, Goto, Labels
  <2>3. reply' \in [Requests -> Replies]
    BY <1>1 DEF Checks, Check, CheckActionType, Load, Answer, Replies
  <2>4. loaded' \in [Requests -> ObjectType]
    <3>1. ASSUME NEW c \in Change, loaded' = [loaded EXCEPT ![r] = types[c.type]]
          PROVE  loaded' \in [Requests -> ObjectType]
      BY <3>1 DEF Change, Update
    <3>2. QED
      BY <1>1, <3>1 DEF Checks, Check, CheckActionType, Load
  <2>5. call' \in [Requests -> Creation \cup Change \cup {NoCall}]
    BY <2>1
  <2>6. \A q \in Requests : pc'[q] # "idle" => call'[q] \in Calls[q]
    BY <2>1, <2>2
  <2>7. committed' \subseteq {q \in Requests : pc'[q] = "done"}
    BY <1>1, <2>2 DEF Checks, Check, CheckActionType, Load
  <2>8. pc' \in [Requests -> Labels]
    BY <2>2
  <2>9. UNCHANGED <<types, graph, missed, faults>>
    BY <1>1 DEF Checks, Check, CheckActionType, Load
  <2>10. QED
    BY <2>3, <2>4, <2>5, <2>6, <2>7, <2>8, <2>9
<1>2. ASSUME NEW r \in Requests, Draw(r) \/ DrawFails(r)
      PROVE  TypeOK'
  <2>1. graph' \subseteq Requests
    BY <1>2 DEF Draw, DrawFails, Drawn
  <2>2. r \notin committed
    BY <1>2 DEF Draw, DrawFails
  <2>3. faults' \in 0..MaxFaults
    BY <1>2 DEF Draw, DrawFails, Fault
  <2>4. QED
    BY <1>2, <2>1, <2>2, <2>3 DEF Draw, DrawFails, Answer, Goto, Labels, Replies
<1>3. ASSUME NEW r \in Requests, Write(r) \/ WriteFails(r)
      PROVE  TypeOK'
  <2>1. faults' \in 0..MaxFaults
    BY <1>3 DEF Write, WriteFails, Fault
  <2>2. CASE Commits(r)
    <3>1. types' \in [Requests -> ObjectType]
      BY <2>2, TypesAfter
    <3>2. missed' \in [Requests -> SUBSET Requests]
      BY <2>2 DEF Commits, Store
    <3>3. /\ pc' = [pc EXCEPT ![r] = "done"]
          /\ reply' \in [Requests -> Replies]
          /\ pc[r] = "write"
      BY <2>2 DEF Commits, Store, Answer, Goto, Replies
    <3>4. committed' \subseteq {q \in Requests : pc'[q] = "done"}
      BY <2>2, <3>3 DEF Commits, Store
    <3>5. QED
      BY <2>1, <2>2, <3>1, <3>2, <3>3, <3>4 DEF Commits, Store, Labels
  <2>3. CASE Aborts(r)
    BY <2>1, <2>3 DEF Aborts, Answer, Goto, Labels, Replies
  <2>4. QED
    BY <1>3, <2>2, <2>3 DEF Write, WriteFails, Commits, Aborts
<1>4. ASSUME Restart
      PROVE  TypeOK'
  BY <1>4 DEF Restart, Fault, Busy, Labels, Replies
<1>5. CASE UNCHANGED vars
  BY <1>5 DEF vars
<1>6. QED
  BY <1>1, <1>2, <1>3, <1>4, <1>5 DEF Next, Checks

(* TypeOK holds in every state of the store. *)
THEOREM TypeCorrect == Spec => []TypeOK
BY InitTypes, StepTypes, PTL DEF Spec

-----------------------------------------------------------------------------
(* What the steps leave alone *)

(* Every step but a commit *)
Quiet ==
    /\ UNCHANGED <<types, committed, missed>>
    /\ \A q \in Requests :
        Sent(q) => Sent(q)' /\ call'[q] = call[q] /\ loaded'[q] = loaded[q]
    /\ \A q \in Requests : pc'[q] = pc[q] \/ ~Busy(q)' \/ ~Sent(q) \/ pc[q] = "graph"

LEMMA QuietSteps ==
    ASSUME TypeOK,
           \/ \E r \in Requests :
                Checks(r) \/ Draw(r) \/ DrawFails(r) \/ Load(r) \/ Aborts(r)
           \/ Restart
           \/ UNCHANGED vars
    PROVE  Quiet
<1> USE DEF Quiet, TypeOK, Sent, Busy
<1>1. ASSUME NEW r \in Requests, Checks(r) \/ Load(r)
      PROVE  Quiet
  <2>1. \E c : call' = [call EXCEPT ![r] = c]
    BY <1>1 DEF Checks, Check, CheckActionType, Load
  <2>2. \E l : pc' = [pc EXCEPT ![r] = l]
    BY <1>1 DEF Checks, Check, CheckActionType, Load, Answer, Goto
  <2>3. QED
    BY <1>1, <2>1, <2>2, ZenonT(60) DEF Checks, Check, CheckActionType, Load
<1>2. ASSUME NEW r \in Requests, Draw(r) \/ DrawFails(r) \/ Aborts(r)
      PROVE  Quiet
  BY <1>2 DEF Draw, DrawFails, Aborts, Answer, Goto
<1>3. CASE Restart
  BY <1>3 DEF Restart
<1>4. CASE UNCHANGED vars
  BY <1>4 DEF vars
<1>5. QED
  BY <1>1, <1>2, <1>3, <1>4

LEMMA QuietRows ==
    ASSUME TypeOK, Quiet
    PROVE  Rows' = Rows /\ \A kind : Of(kind)' = Of(kind)
BY DEF Quiet, Rows, Of, TypeOK, Sent

LEMMA CommitRows ==
    ASSUME TypeOK, NEW r \in Requests, Commits(r)
    PROVE  /\ pc[r] = "write" /\ pc' = [pc EXCEPT ![r] = "done"]
           /\ UNCHANGED <<call, loaded, graph>>
           /\ committed' = committed \cup {r}
           /\ call[r].op = "create" => Rows' = Rows \cup {r}
           /\ call[r].op # "create" => Rows' = Rows
           /\ \A q \in Requests :
                missed'[q] = IF Busy(q) /\ q # r THEN missed[q] \cup {r} ELSE missed[q]
BY DEF Commits, Store, Answer, Goto, Rows

LEMMA StepKinds ==
    ASSUME TypeOK, [Next]_vars
    PROVE  Quiet \/ \E r \in Requests : Commits(r)
BY Cases, QuietSteps DEF Moves

(* A request gets under way by its check or its load *)
LEMMA NewlyBusy ==
    ASSUME TypeOK, [Next]_vars, NEW p \in Requests, ~Busy(p), Busy(p)'
    PROVE  \/ Checks(p) /\ call'[p] \in Creation /\ call'[p].op = "create"
           \/ Load(p) /\ call'[p] \in Change /\ call'[p].op # "create"
<1>1. pc[p] # pc'[p] /\ pc[p] \notin {"graph", "write"}
  BY DEF Busy
<1>2. ~Restart /\ ~UNCHANGED vars
  BY <1>1 DEF Restart, vars, Busy, TypeOK
<1>3. ASSUME NEW r \in Requests, Moves(r)
      PROVE  Checks(p) \/ Load(p)
  <2>1. r = p
    BY <1>1, <1>3 DEF Moves, Checks, Check, CheckActionType, Draw, DrawFails, Load, Commits, Store,
        Aborts, Answer, Goto, TypeOK
  <2>2. QED
    BY <1>1, <1>3, <2>1 DEF Moves, Draw, DrawFails, Commits, Store, Aborts
<1>4. Checks(p) => call'[p] \in Creation /\ call'[p].op = "create"
  BY DEF Checks, Check, CheckActionType, TypeOK, Creation
<1>5. Load(p) => call'[p] \in Change /\ call'[p].op # "create"
  <2>1. \A c \in Change : c.op # "create"
    BY DEF Change, Update
  <2>2. QED
    BY <2>1 DEF Load, TypeOK
<1>6. QED
  BY <1>2, <1>3, <1>4, <1>5, Cases

-----------------------------------------------------------------------------
(***************************************************************************)
(* Unique names.  A creation under way has seen every row it clashes with, *)
(* or that row was committed after its check and stands in missed.         *)
(***************************************************************************)
ClashesSeen ==
    \A p \in Requests : Busy(p) /\ call[p].op = "create" =>
        \A a \in Rows : Clash(call[a], call[p]) => a \in missed[p]

KeysInv == TypeOK /\ ClashesSeen /\ KeysUnique

LEMMA InitKeys == Init => KeysInv
BY InitTypes DEF Init, KeysInv, ClashesSeen, KeysUnique, Rows, Busy

LEMMA StepKeys ==
    ASSUME KeysInv, [Next]_vars
    PROVE  KeysInv'
<1> USE DEF KeysInv
<1>1. TypeOK'
  BY StepTypes
<1>2. CASE Quiet
  <2>1. Rows' = Rows /\ missed' = missed /\ \A a \in Rows : call'[a] = call[a]
    BY <1>2, QuietRows DEF Quiet, Rows, TypeOK, Sent
  <2>2. KeysUnique'
    BY <2>1 DEF KeysUnique, Overlapped, Clash
  <2>3. ASSUME NEW p \in Requests, Busy(p)', call'[p].op = "create",
               NEW a \in Rows', Clash(call[a], call[p])'
        PROVE  a \in missed'[p]
    <3>1. CASE Busy(p)
      <4>1. call'[p] = call[p]
        BY <1>2, <3>1 DEF Quiet, Busy, Sent
      <4>2. QED
        BY <2>1, <2>3, <3>1, <4>1 DEF ClashesSeen, Clash
    <3>2. CASE ~Busy(p)
      <4>1. Checks(p)
        BY <2>3, <3>2, NewlyBusy
      <4>2. PICK c \in Calls[p] \cap Creation :
              /\ call' = [call EXCEPT ![p] = c]
              /\ Taken(c) = {} \/ pc'[p] = "done"
        BY <4>1 DEF Checks, Check, CheckActionType, Answer, Goto, TypeOK
      <4>3. Taken(c) = {} /\ call'[p] = c
        BY <2>3, <4>2 DEF Busy, TypeOK
      <4>4. QED
        BY <2>1, <2>3, <4>3 DEF Taken, Clash
    <3>3. QED
      BY <3>1, <3>2
  <2>4. QED
    BY <1>1, <2>2, <2>3 DEF ClashesSeen
<1>3. ASSUME NEW r \in Requests, Commits(r)
      PROVE  KeysInv'
  <2> USE <1>3, CommitRows
  <2>1. Busy(r)
    BY DEF Busy
  <2>2. ASSUME NEW p \in Requests, Busy(p)', call'[p].op = "create",
               NEW a \in Rows', Clash(call[a], call[p])'
        PROVE  a \in missed'[p]
    <3>1. p # r /\ Busy(p)
      BY <2>2 DEF Busy, TypeOK
    <3>2. a \in Rows \/ a = r
      BY <2>2
    <3>3. Clash(call[a], call[p])
      BY <2>2 DEF Clash
    <3>4. missed'[p] = missed[p] \cup {r}
      BY <3>1
    <3>5. a \in Rows => a \in missed[p]
      BY <2>2, <3>1, <3>3 DEF ClashesSeen
    <3>6. QED
      BY <3>2, <3>4, <3>5
  <2>3. ASSUME NEW a \in Rows', NEW b \in Rows', a # b, Clash(call[a], call[b])'
        PROVE  Overlapped(a, b)'
    <3>1. Clash(call[a], call[b]) /\ Clash(call[b], call[a])
      BY <2>3 DEF Clash
    <3>2. a \in Requests /\ b \in Requests
      BY <1>1, <2>3 DEF Rows, TypeOK
    <3>3. CASE a \in Rows /\ b \in Rows
      <4>1. Overlapped(a, b)
        BY <2>3, <3>1, <3>3 DEF KeysUnique
      <4>2. QED
        BY <3>2, <4>1 DEF Overlapped
    <3>4. CASE a = r \/ b = r
      <4>1. call[r].op = "create"
        BY <2>3, <3>4 DEF Rows
      <4>2. missed'[r] = missed[r]
        BY <3>2, <3>4
      <4>3. r \notin Rows /\ a \in Rows \cup {r} /\ b \in Rows \cup {r}
        BY <2>1, <2>3, <4>1 DEF Rows, TypeOK, Busy
      <4>4. \A d \in Rows : Clash(call[d], call[r]) => d \in missed[r]
        BY <2>1, <3>2, <3>4, <4>1 DEF ClashesSeen
      <4>5. QED
        BY <2>3, <3>1, <3>4, <4>2, <4>3, <4>4 DEF Overlapped
    <3>5. QED
      BY <2>3, <3>3, <3>4
  <2>4. QED
    BY <1>1, <2>2, <2>3 DEF ClashesSeen, KeysUnique
<1>4. QED
  BY <1>2, <1>3, StepKinds

(* Names and keys are unique but for creations that overlapped, whatever the
   clients ask and whatever fails. *)
THEOREM UniqueKeys == Spec => []KeysUnique
<1>1. KeysInv => KeysUnique
  BY DEF KeysInv
<1>2. QED
  BY InitKeys, StepKeys, <1>1, PTL DEF Spec

-----------------------------------------------------------------------------
(***************************************************************************)
(* Neo4j and PostgreSQL.  The rows a creation under way refers to stay, so *)
(* the MATCH of a link finds the nodes of both its ends.                   *)
(***************************************************************************)
GraphKinds == {"object", "link"}

NeedsFound ==
    \A p \in Requests :
        /\ Busy(p) /\ call[p].op = "create" => Found(call[p])
        /\ pc[p] = "graph" => call[p].op = "create" /\ call[p].kind \in GraphKinds

DrawnFirst ==
    /\ \A p \in Requests :
        pc[p] = "write" /\ call[p].op = "create" /\ call[p].kind \in GraphKinds
            => p \in graph
    /\ \A g \in graph : Sent(g) /\ call[g].op = "create"

GraphInv == TypeOK /\ NeedsFound /\ DrawnFirst /\ GraphInStep

LEMMA InitGraph == Init => GraphInv
BY InitTypes DEF Init, GraphInv, NeedsFound, DrawnFirst, GraphInStep, Rows, Of, Busy

LEMMA DrawnGraph ==
    ASSUME GraphInv, NEW r \in Requests, pc[r] = "graph"
    PROVE  Drawn(r) = graph \cup {r}
<1>1. Found(call[r])
  BY DEF GraphInv, NeedsFound, Busy
<1>2. \A n \in call[r].needs : call[n].kind = "object" => n \in Of("object")
  BY <1>1 DEF Found, Of
<1>3. QED
  BY <1>2 DEF Drawn, GraphInv, GraphInStep

LEMMA FoundStays ==
    ASSUME NEW c, Found(c), \A kind : Of(kind) \subseteq Of(kind)'
    PROVE  Found(c)'
BY DEF Found

LEMMA StepGraph ==
    ASSUME GraphInv, [Next]_vars
    PROVE  GraphInv'
<1> USE DEF GraphInv
<1>1. TypeOK'
  BY StepTypes
<1>2. \A kind : Of(kind) \subseteq Of(kind)'
  <2>1. CASE Quiet
    BY <2>1, QuietRows
  <2>2. ASSUME NEW r \in Requests, Commits(r)
        PROVE  \A kind : Of(kind) \subseteq Of(kind)'
    BY <2>2, CommitRows DEF Of
  <2>3. QED
    BY <2>1, <2>2, StepKinds
<1>3. ASSUME NEW r \in Requests, Checks(r) \/ Load(r)
      PROVE  GraphInv'
  <2>1. Quiet
    BY <1>3, QuietSteps
  <2>2. Rows' = Rows /\ Of("object")' = Of("object") /\ Of("link")' = Of("link")
    BY <2>1, QuietRows
  <2>3. pc[r] = "idle" /\ r \notin graph
    BY <1>3 DEF Checks, Check, CheckActionType, Load, DrawnFirst, Sent
  <2>4. /\ graph' = graph
        /\ \A q \in Requests \ {r} :
              call'[q] = call[q] /\ pc'[q] = pc[q] /\ reply'[q] = reply[q]
    BY <1>3 DEF Checks, Check, CheckActionType, Load, Answer, Goto, TypeOK
  <2>5. pc'[r] \in {"graph", "write"} =>
            \/ /\ call'[r].op = "create" /\ Found(call'[r])
               /\ pc'[r] = IF call'[r].kind \in GraphKinds THEN "graph" ELSE "write"
            \/ call'[r].op # "create" /\ pc'[r] = "write"
    <3>1. CASE Checks(r)
      BY <3>1 DEF Checks, Check, CheckActionType, Answer, Goto, GraphKinds, TypeOK, Creation
    <3>2. CASE Load(r)
      BY <3>2 DEF Load, Answer, Goto, TypeOK, Change, Update
    <3>3. QED
      BY <1>3, <3>1, <3>2
  <2>6. NeedsFound'
    <3>1. \A c : Found(c) => Found(c)'
      BY <1>2, FoundStays
    <3>2. QED
      BY <2>4, <2>5, <3>1 DEF NeedsFound, Busy
  <2>7. DrawnFirst'
    BY <2>3, <2>4, <2>5 DEF DrawnFirst, TypeOK, Sent
  <2>8. GraphInStep'
    BY <2>2, <2>3, <2>4 DEF GraphInStep, TypeOK
  <2>9. QED
    BY <1>1, <2>6, <2>7, <2>8
<1>4. ASSUME NEW r \in Requests, Draw(r) \/ DrawFails(r)
      PROVE  GraphInv'
  <2>1. Rows' = Rows /\ Of("object")' = Of("object") /\ Of("link")' = Of("link")
    BY <1>4, QuietSteps, QuietRows
  <2>2. pc[r] = "graph" /\ call' = call /\ Drawn(r) = graph \cup {r}
    BY <1>4, DrawnGraph DEF Draw, DrawFails
  <2>3. \/ graph' = graph \cup {r} /\ pc' = [pc EXCEPT ![r] = "write"] /\ reply' = reply
        \/ /\ graph' \in {graph, graph \cup {r}}
           /\ pc' = [pc EXCEPT ![r] = "done"]
           /\ reply' = [reply EXCEPT ![r] = "error"]
    BY <1>4, <2>2 DEF Draw, DrawFails, Answer, Goto
  <2>4. call[r].op = "create"
    BY <2>2 DEF NeedsFound
  <2>5. NeedsFound'
    <3>1. \A c : Found(c) => Found(c)'
      BY <1>2, FoundStays
    <3>2. QED
      BY <2>2, <2>3, <3>1 DEF NeedsFound, Busy, TypeOK
  <2>6. DrawnFirst'
    BY <2>2, <2>3, <2>4 DEF DrawnFirst, TypeOK, Sent
  <2>7. GraphInStep'
    BY <2>1, <2>2, <2>3 DEF GraphInStep, TypeOK
  <2>8. QED
    BY <1>1, <2>5, <2>6, <2>7
<1>5. ASSUME NEW r \in Requests, Commits(r)
      PROVE  GraphInv'
  <2> USE <1>5, CommitRows
  <2>1. NeedsFound'
    <3>1. \A c : Found(c) => Found(c)'
      BY <1>2, FoundStays
    <3>2. QED
      BY <3>1 DEF NeedsFound, Busy, TypeOK
  <2>2. DrawnFirst'
    BY DEF DrawnFirst, TypeOK, Sent
  <2>3. GraphInStep'
    <3>1. Of("object")' \cup Of("link")' \subseteq graph
      <4>1. ASSUME NEW a \in Rows', call[a].kind \in GraphKinds
            PROVE  a \in graph
        <5>1. CASE a \in Rows
          BY <4>1, <5>1 DEF GraphInStep, Of, GraphKinds
        <5>2. CASE a \notin Rows
          BY <4>1, <5>2 DEF DrawnFirst
        <5>3. QED
          BY <5>1, <5>2
      <4>2. QED
        BY <4>1 DEF Of, GraphKinds
    <3>2. ASSUME NEW g \in graph \ Rows'
          PROVE  pc'[g] = "write" \/ reply'[g] \in {"error", "lost"}
      <4>1. g # r
        BY <3>2 DEF DrawnFirst
      <4>2. g \in Requests /\ g \notin Rows
        BY <3>2 DEF TypeOK
      <4>3. reply'[g] = reply[g] /\ pc'[g] = pc[g]
        <5>1. \E status : reply' = [reply EXCEPT ![r] = status]
          BY DEF Commits, Answer
        <5>2. QED
          BY <4>1, <4>2, <5>1 DEF TypeOK
      <4>4. QED
        BY <3>2, <4>2, <4>3 DEF GraphInStep
    <3>3. QED
      BY <3>1, <3>2 DEF GraphInStep
  <2>4. QED
    BY <1>1, <2>1, <2>2, <2>3
<1>6. CASE Restart \/ \E r \in Requests : Aborts(r)
  <2>1. Rows' = Rows /\ Of("object")' = Of("object") /\ Of("link")' = Of("link")
    BY <1>6, QuietSteps, QuietRows
  <2>2. /\ UNCHANGED <<call, graph>>
        /\ \A q \in Requests :
              \/ pc'[q] = pc[q] /\ reply'[q] = reply[q]
              \/ Busy(q) /\ pc'[q] = "done" /\ reply'[q] \in {"error", "lost"}
    BY <1>6 DEF Restart, Aborts, Answer, Goto, Busy, TypeOK
  <2>3. NeedsFound'
    <3>1. \A c : Found(c) => Found(c)'
      BY <1>2, FoundStays
    <3>2. QED
      BY <2>2, <3>1 DEF NeedsFound, Busy
  <2>4. DrawnFirst'
    BY <2>2 DEF DrawnFirst, TypeOK, Sent
  <2>5. GraphInStep'
    BY <2>1, <2>2 DEF GraphInStep, TypeOK
  <2>6. QED
    BY <1>1, <2>3, <2>4, <2>5
<1>7. CASE UNCHANGED vars
  BY <1>7 DEF vars, TypeOK, NeedsFound, DrawnFirst, GraphInStep, Found, Rows, Of, Busy, Sent
<1>8. QED
  BY <1>3, <1>4, <1>5, <1>6, <1>7, Cases DEF Moves

(* The row of every object and link has its node or relationship in Neo4j, and
   nothing is left there by a request that was answered as if it had not run. *)
THEOREM GraphKeepsStep == Spec => []GraphInStep
<1>1. GraphInv => GraphInStep
  BY DEF GraphInv
<1>2. QED
  BY InitGraph, StepGraph, <1>1, PTL DEF Spec

-----------------------------------------------------------------------------
(***************************************************************************)
(* Changes of object types.  As long as no other change was committed      *)
(* since, the row a change loaded is the row of the table, and writing the *)
(* columns that differ writes the edited row.                              *)
(***************************************************************************)
Count(t) == Cardinality({r \in committed : Updates(r, t)})
Outdated(p, t) == \E m \in missed[p] : Changes(m, t)

CommitsKnown == IsFiniteSet(committed) /\ \A p \in Requests : missed[p] \subseteq committed

LoadedFresh ==
    \A p, t \in Requests : Busy(p) /\ Changes(p, t) =>
        /\ loaded[p] = types[t] \/ Outdated(p, t)
        /\ loaded[p].version <= Count(t) + 1

CompiledAs(row) == row.compile_status \in {"pending", Verdict(row.properties)}

TypesSound ==
    \A t \in Requests :
        /\ CompiledAs(types[t]) \/ Raced(t)
        /\ types[t].version <= Count(t) + 1
        /\ Raced(t) \/ types[t].version = Count(t) + 1

ChangeInv == TypeOK /\ CommitsKnown /\ LoadedFresh /\ TypesSound

LEMMA InitChange == Init => ChangeInv
<1> SUFFICES ASSUME Init PROVE ChangeInv
  OBVIOUS
<1>1. TypeOK
  BY InitTypes
<1>2. \A t : {r \in committed : Updates(r, t)} = {}
  BY DEF Init
<1>3. \A t : Count(t) = 0
  BY <1>2, FS_EmptySet DEF Count
<1>4. CommitsKnown
  BY FS_EmptySet DEF Init, CommitsKnown
<1>5. LoadedFresh
  BY DEF Init, LoadedFresh, Busy
<1>6. TypesSound
  BY <1>3 DEF Init, TypesSound, CompiledAs, NewType
<1>7. QED
  BY <1>1, <1>4, <1>5, <1>6 DEF ChangeInv

LEMMA CountNat ==
    ASSUME CommitsKnown, NEW t
    PROVE  Count(t) \in Nat /\ IsFiniteSet({r \in committed : Updates(r, t)})
<1>1. IsFiniteSet({r \in committed : Updates(r, t)})
  BY FS_Subset DEF CommitsKnown
<1>2. QED
  BY <1>1, FS_CardinalityType DEF Count

LEMMA CountAfter ==
    ASSUME TypeOK, CommitsKnown, NEW r \in Requests, Commits(r), NEW t
    PROVE  Count(t)' = IF Updates(r, t) THEN Count(t) + 1 ELSE Count(t)
<1> DEFINE S == {q \in committed : Updates(q, t)}
<1>1. pc[r] = "write" /\ r \notin committed
  BY CommitRows DEF TypeOK
<1>2. \A q \in committed \cup {r} : Updates(q, t)' <=> Updates(q, t)
  BY <1>1, CommitRows DEF Updates, Changes, Sent, TypeOK
<1>3. {q \in committed : Updates(q, t)}' = IF Updates(r, t) THEN S \cup {r} ELSE S
  BY <1>2, CommitRows
<1>4. Cardinality(S \cup {r}) = Cardinality(S) + 1
  BY <1>1, CountNat, FS_AddElement
<1>5. QED
  BY <1>3, <1>4 DEF Count

LEMMA QuietChanges ==
    ASSUME TypeOK, CommitsKnown, Quiet
    PROVE  /\ \A t : Count(t)' = Count(t) /\ Raced(t)' = Raced(t)
           /\ \A t : \A p \in Requests : Outdated(p, t) => Outdated(p, t)'
<1>1. \A t : \A q \in committed :
        (Changes(q, t)' <=> Changes(q, t)) /\ (Updates(q, t)' <=> Updates(q, t))
  BY DEF Quiet, TypeOK, Sent, Changes, Updates
<1>2. committed' = committed /\ missed' = missed
  BY DEF Quiet
<1>3. \A p \in Requests : missed[p] \subseteq committed
  BY DEF CommitsKnown
<1>4. committed \subseteq Requests
  BY DEF TypeOK
<1>5. ASSUME NEW t
      PROVE  Raced(t)' = Raced(t)
  BY <1>1, <1>2, <1>3, <1>4 DEF Raced
<1>6. ASSUME NEW t
      PROVE  Count(t)' = Count(t)
  <2>1. {q \in committed : Updates(q, t)}' = {q \in committed : Updates(q, t)}
    BY <1>1, <1>2
  <2>2. QED
    BY <2>1 DEF Count
<1>7. \A t : \A p \in Requests : Outdated(p, t) => Outdated(p, t)'
  BY <1>1, <1>2, <1>3 DEF Outdated
<1>8. QED
  BY <1>5, <1>6, <1>7

LEMMA CommitChanges ==
    ASSUME TypeOK, CommitsKnown, NEW r \in Requests, Commits(r), NEW t
    PROVE  /\ Raced(t) => Raced(t)'
           /\ Changes(r, t) /\ Outdated(r, t) => Raced(t)'
           /\ \A p \in Requests : Busy(p)' =>
                /\ p # r /\ Busy(p) /\ (Changes(p, t)' <=> Changes(p, t))
                /\ Outdated(p, t) \/ Changes(r, t) => Outdated(p, t)'
<1>1. \A q \in Requests : Changes(q, t)' <=> Changes(q, t)
  BY CommitRows DEF Changes, Sent, TypeOK
<1>2. /\ committed' = committed \cup {r} /\ committed \subseteq Requests
      /\ r \notin committed /\ \A q \in committed : ~Busy(q)
  BY CommitRows DEF TypeOK, Busy
<1>3. \A q \in committed \cup {r} : missed'[q] = missed[q]
  BY <1>2, CommitRows
<1>4. \A q \in Requests : missed[q] \subseteq Requests
  BY DEF TypeOK
<1>5. Raced(t) => Raced(t)'
  BY <1>1, <1>2, <1>3, <1>4 DEF Raced
<1>6. Changes(r, t) /\ Outdated(r, t) => Raced(t)'
  BY <1>1, <1>2, <1>3, <1>4 DEF Raced, Outdated
<1>7. ASSUME NEW p \in Requests, Busy(p)'
      PROVE  /\ p # r /\ Busy(p)
             /\ Outdated(p, t) \/ Changes(r, t) => Outdated(p, t)'
  <2>1. p # r /\ Busy(p)
    BY <1>7, CommitRows DEF Busy, TypeOK
  <2>2. missed'[p] = missed[p] \cup {r}
    BY <2>1, CommitRows
  <2>3. QED
    BY <1>1, <1>4, <2>1, <2>2 DEF Outdated
<1>8. QED
  BY <1>1, <1>5, <1>6, <1>7

LEMMA MergedSame ==
    ASSUME NEW row \in ObjectType, NEW new \in ObjectType
    PROVE  Merged(row, row, new) = new
BY DEF Merged, Column, ObjectType

(* What the three changes do to the columns the invariant speaks of *)
LEMMA EditedColumns ==
    ASSUME TypeOK, NEW r \in Requests, Sent(r), call[r].op # "create"
    PROVE  /\ Edited(r).version =
                IF call[r].op = "update" THEN loaded[r].version + 1 ELSE loaded[r].version
           /\ CompiledAs(loaded[r]) => CompiledAs(Edited(r))
<1>1. loaded[r] \in ObjectType
  BY DEF TypeOK
<1>2. CASE call[r].op = "update"
  BY <1>1, <1>2 DEF Edited, CompiledAs, ObjectType
<1>3. CASE call[r].op = "archive"
  BY <1>1, <1>3 DEF Edited, CompiledAs, ObjectType
<1>4. CASE call[r].op \notin {"update", "archive"}
  BY <1>1, <1>4 DEF Edited, CompiledAs, ObjectType
<1>5. QED
  BY <1>2, <1>3, <1>4

LEMMA MergedVersion ==
    ASSUME NEW row \in ObjectType, NEW old \in ObjectType, NEW new \in ObjectType
    PROVE  Merged(row, old, new).version \in {row.version, new.version}
           /\ (new.version = old.version => Merged(row, old, new).version = row.version)
BY DEF Merged, Column, ObjectType

LEMMA QuietStep ==
    ASSUME ChangeInv, [Next]_vars, Quiet
    PROVE  LoadedFresh' /\ TypesSound'
<1> USE DEF ChangeInv
<1>1. types' = types /\ \A t : CompiledAs(types[t])' <=> CompiledAs(types[t])
  BY DEF Quiet, CompiledAs
<1>2. TypesSound'
  BY <1>1, QuietChanges DEF TypesSound
<1>3. ASSUME NEW p \in Requests, NEW t \in Requests, Busy(p)', Changes(p, t)'
      PROVE  /\ loaded'[p] = types'[t] \/ Outdated(p, t)'
             /\ loaded'[p].version <= Count(t)' + 1
  <2>1. CASE Busy(p)
    <3>1. loaded'[p] = loaded[p] /\ (Changes(p, t)' <=> Changes(p, t))
      BY <2>1 DEF Quiet, Busy, Sent, Changes
    <3>2. QED
      BY <1>1, <1>3, <2>1, <3>1, QuietChanges DEF LoadedFresh
  <2>2. CASE ~Busy(p)
    <3>1. Load(p)
      BY <1>3, <2>2, NewlyBusy DEF Changes
    <3>2. loaded'[p] = types[t]
      <4>1. pc'[p] \in {"graph", "write"}
        BY <1>3 DEF Busy
      <4>2. loaded' = [loaded EXCEPT ![p] = types[call'[p].type]]
        BY <3>1, <4>1 DEF Load, Answer, Goto, TypeOK
      <4>3. call'[p].type = t
        BY <1>3 DEF Changes
      <4>4. QED
        BY <4>2, <4>3 DEF TypeOK
    <3>3. QED
      BY <1>1, <3>2, QuietChanges DEF TypesSound
  <2>3. QED
    BY <2>1, <2>2
<1>4. QED
  BY <1>2, <1>3 DEF LoadedFresh

LEMMA CommitStep ==
    ASSUME ChangeInv, NEW r \in Requests, Commits(r), NEW t \in Requests
    PROVE  /\ CompiledAs(types[t])' \/ Raced(t)'
           /\ types'[t].version <= Count(t)' + 1
           /\ Raced(t)' \/ types'[t].version = Count(t)' + 1
<1> USE DEF ChangeInv
<1>1. Sent(r) /\ Busy(r)
  BY CommitRows DEF Sent, Busy
<1>2. types[t] \in ObjectType /\ loaded[r] \in ObjectType /\ Count(t) \in Nat
  BY CountNat DEF TypeOK
<1>3. CASE ~Changes(r, t)
  <2>1. types'[t] = types[t]
    BY <1>1, <1>3, TypesAfter DEF Changes
  <2>2. Count(t)' = Count(t)
    BY <1>3, CountAfter DEF Updates
  <2>3. CompiledAs(types[t])' <=> CompiledAs(types[t])
    BY <2>1 DEF CompiledAs
  <2>4. QED
    BY <2>1, <2>2, <2>3, CommitChanges DEF TypesSound
<1>4. CASE Changes(r, t)
  <2> DEFINE new == Edited(r)
  <2>1. call[r].op # "create" /\ call[r].type = t
    BY <1>4 DEF Changes
  <2>2. new \in ObjectType /\ types'[t] = Merged(types[t], loaded[r], new)
    BY <1>1, <2>1, EditedType, TypesAfter
  <2>3. /\ new.version =
              IF call[r].op = "update" THEN loaded[r].version + 1 ELSE loaded[r].version
        /\ CompiledAs(loaded[r]) => CompiledAs(new)
    BY <1>1, <2>1, EditedColumns
  <2>4. Count(t)' = IF call[r].op = "update" THEN Count(t) + 1 ELSE Count(t)
    BY <1>4, CountAfter DEF Updates
  <2>5. loaded[r].version <= Count(t) + 1 /\ types[t].version <= Count(t) + 1
    BY <1>1, <1>4 DEF LoadedFresh, TypesSound
  <2>6. /\ types'[t].version \in {types[t].version, new.version}
        /\ new.version = loaded[r].version => types'[t].version = types[t].version
    BY <1>2, <2>2, MergedVersion
  <2>7. loaded[r].version \in Nat /\ types[t].version \in Nat
    BY <1>2 DEF ObjectType
  <2> HIDE DEF new
  <2>8. types'[t].version <= Count(t)' + 1
    BY <1>2, <2>3, <2>4, <2>5, <2>6, <2>7
  <2>9. CASE Outdated(r, t)
    BY <1>4, <2>8, <2>9, CommitChanges
  <2>10. CASE ~Outdated(r, t)
    <3>1. loaded[r] = types[t]
      BY <1>1, <1>4, <2>10 DEF LoadedFresh
    <3>2. types'[t] = new
      BY <1>2, <2>2, <3>1, MergedSame
    <3>3. Raced(t) => Raced(t)'
      BY CommitChanges
    <3>4. CompiledAs(types[t])' \/ Raced(t)'
      BY <2>3, <3>1, <3>2, <3>3 DEF TypesSound, CompiledAs
    <3>5. Raced(t)' \/ types'[t].version = Count(t)' + 1
      BY <1>2, <2>3, <2>4, <2>7, <3>1, <3>2, <3>3 DEF TypesSound
    <3>6. QED
      BY <2>8, <3>4, <3>5
  <2>11. QED
    BY <2>9, <2>10
<1>5. QED
  BY <1>3, <1>4

LEMMA CommitLoaded ==
    ASSUME ChangeInv, NEW r \in Requests, Commits(r)
    PROVE  LoadedFresh'
<1> USE DEF ChangeInv
<1>1. ASSUME NEW p \in Requests, NEW t \in Requests, Busy(p)', Changes(p, t)'
      PROVE  /\ loaded'[p] = types'[t] \/ Outdated(p, t)'
             /\ loaded'[p].version <= Count(t)' + 1
  <2>1. /\ p # r /\ Busy(p) /\ Changes(p, t)
        /\ Outdated(p, t) \/ Changes(r, t) => Outdated(p, t)'
    BY <1>1, CommitChanges
  <2>2. loaded' = loaded
    BY CommitRows
  <2>3. ~Changes(r, t) => types'[t] = types[t]
    BY TypesAfter, CommitRows DEF Changes, Sent
  <2>4. Count(t)' \in {Count(t), Count(t) + 1} /\ Count(t) \in Nat
    BY CountAfter, CountNat
  <2>5. loaded[p].version \in Nat
    BY DEF TypeOK, ObjectType
  <2>6. QED
    BY <2>1, <2>2, <2>3, <2>4, <2>5 DEF LoadedFresh
<1>2. QED
  BY <1>1 DEF LoadedFresh

LEMMA StepChange ==
    ASSUME ChangeInv, [Next]_vars
    PROVE  ChangeInv'
<1> USE DEF ChangeInv
<1>1. TypeOK'
  BY StepTypes
<1>2. CASE Quiet
  <2>1. CommitsKnown'
    BY <1>2 DEF Quiet, CommitsKnown
  <2>2. QED
    BY <1>1, <1>2, <2>1, QuietStep
<1>3. ASSUME NEW r \in Requests, Commits(r)
      PROVE  ChangeInv'
  <2>1. CommitsKnown'
    <3> /\ committed' = committed \cup {r}
        /\ \A p \in Requests :
            missed'[p] = IF Busy(p) /\ p # r THEN missed[p] \cup {r} ELSE missed[p]
      BY <1>3, CommitRows
    <3>1. IsFiniteSet(committed')
      BY FS_AddElement DEF CommitsKnown
    <3>2. \A p \in Requests : missed'[p] \subseteq committed'
      BY DEF CommitsKnown
    <3>3. QED
      BY <3>1, <3>2 DEF CommitsKnown
  <2>2. TypesSound'
    BY <1>3, CommitStep DEF TypesSound
  <2>3. QED
    BY <1>1, <1>3, <2>1, <2>2, CommitLoaded
<1>4. QED
  BY <1>2, <1>3, StepKinds

LEMMA ObjectTypesAreRequests == TypeOK => Of("object_type") \subseteq Requests
BY DEF TypeOK, Of, Rows

(* compile_status is pending or the verdict on the very properties in the row,
   unless two changes of the type raced. *)
THEOREM CompileStatusMatches == Spec => []CompileMatches
<1>1. ChangeInv => CompileMatches
  BY ObjectTypesAreRequests DEF ChangeInv, TypesSound, CompiledAs, CompileMatches
<1>2. QED
  BY InitChange, StepChange, <1>1, PTL DEF Spec

(* version never passes one more than the number of committed updates, and is
   that number unless two changes of the type raced. *)
THEOREM VersionsCounted == Spec => []VersionCounts
<1>1. ChangeInv => VersionCounts
  BY ObjectTypesAreRequests DEF ChangeInv, TypesSound, Count, VersionCounts
<1>2. QED
  BY InitChange, StepChange, <1>1, PTL DEF Spec

(* Only an update that names a status takes a type out of the archive. *)
THEOREM ArchivedTypesStay == Spec => ArchivedStays
<1> DEFINE A ==
        \A t \in Requests :
            types[t].status = "archived" =>
                \/ types'[t].status = "archived"
                \/ \E r \in committed' \ committed :
                        Updates(r, t) /\ call[r].status # "kept"
<1>1. ASSUME TypeOK, [Next]_vars
      PROVE  A
  <2>1. CASE Quiet
    BY <2>1 DEF Quiet
  <2>2. ASSUME NEW r \in Requests, Commits(r), NEW t \in Requests,
               types[t].status = "archived",
               ~(Updates(r, t) /\ call[r].status # "kept")
        PROVE  types'[t].status = "archived"
    <3>1. Sent(r) /\ loaded[r] \in ObjectType
      BY <1>1, <2>2, CommitRows DEF TypeOK, Sent
    <3>2. CASE ~Changes(r, t)
      BY <1>1, <2>2, <3>1, <3>2, TypesAfter DEF Changes
    <3>3. CASE Changes(r, t)
      <4>1. call[r].op # "create" /\ call[r].type = t
        BY <3>3 DEF Changes
      <4>2. types'[t] = Merged(types[t], loaded[r], Edited(r))
        BY <1>1, <2>2, <4>1, TypesAfter
      <4>3. Edited(r).status \in {loaded[r].status, "archived"}
        BY <2>2, <3>1, <3>3, <4>1 DEF Edited, Updates, ObjectType
      <4>4. QED
        BY <2>2, <4>2, <4>3 DEF Merged, Column
    <3>4. QED
      BY <3>2, <3>3
  <2>3. ASSUME NEW r \in Requests, Commits(r)
        PROVE  A
    <3>1. r \in committed' \ committed
      BY <1>1, <2>3, CommitRows DEF TypeOK
    <3>2. QED
      BY <2>2, <2>3, <3>1
  <2>4. QED
    BY <1>1, <2>1, <2>3, StepKinds
<1>2. TypeOK /\ [Next]_vars => [A]_vars
  BY <1>1
<1>3. QED
  BY InitTypes, StepTypes, <1>2, PTL DEF Spec, ArchivedStays
=============================================================================
