---------------------------- MODULE OntologyStore ----------------------------
(***************************************************************************)
(* The ontology store: the endpoints that create object types, link types, *)
(* functions, action types, objects and links, and those that update,      *)
(* archive and compile an object type.                                     *)
(*                                                                         *)
(* Every request runs in one READ COMMITTED transaction of PostgreSQL that *)
(* get_db commits after the handler returns.  A request reads, then        *)
(* (objects and links) writes to Neo4j, which has no part in that          *)
(* transaction, then writes its row.  Flush and commit are one step: an    *)
(* UPDATE holds the lock of its row until the commit, an INSERT is seen by *)
(* nobody before it, and no unique constraint makes one wait for another.  *)
(*                                                                         *)
(* A row is named by the request that creates it, and so is its node or    *)
(* relationship in Neo4j (node_id and rel_id are fresh random names).      *)
(***************************************************************************)
EXTENDS Naturals, FiniteSets

CONSTANTS
    Requests,   \* the HTTP requests the clients may send
    Names,      \* names of types and functions, keys of objects
    Broken,     \* the requests whose properties no compilation accepts: a
                \* required property that has no validation
    Calls,      \* what each request may ask
    NoCall,     \* of a request not sent yet
    MaxFaults   \* bound on the failures

Statuses == {"draft", "active", "archived"}

(* What a row refers to, by kind; a link is stored beside its link type *)
References == [object_type |-> {}, function |-> {}, link_type |-> {"object_type"},
               action_type |-> {"object_type"},
               object |-> {"object_type"}, link |-> {"link_type", "object"}]
Kinds == DOMAIN References

(* needs: the ids the client sends.  status "kept": the update names none *)
Creation == [op : {"create"}, kind : Kinds, name : Names, needs : SUBSET Requests]
Update == [op : {"update"}, type : Requests, properties : BOOLEAN,
           status : Statuses \cup {"kept"}]
Change == Update \cup [op : {"archive", "compile"}, type : Requests]

ASSUME StoreAssumption ==
    /\ Broken \subseteq Requests
    /\ Calls \in [Requests -> SUBSET (Creation \cup Change)]
    /\ NoCall \notin Creation \cup Change
    /\ MaxFaults \in Nat

VARIABLES
    call,       \* what each request asks
    pc,         \* where each request stands
    loaded,     \* the row of the object type in each request's session
    types,      \* PostgreSQL: the object types, by the request that created them
    graph,      \* Neo4j: the nodes of objects and the relationships of links
    committed,  \* the requests whose transaction committed
    reply,      \* what the client was answered
    missed,     \* history: the requests that committed after each request read
    faults      \* history: how many failures have happened

vars == <<call, pc, loaded, types, graph, committed, reply, missed, faults>>

(* properties: the request that supplied them *)
ObjectType == [properties : Requests, status : Statuses, version : Nat,
               compile_status : {"pending", "compiled", "error"}]

NewType(r) == [properties |-> r, status |-> "draft", version |-> 1,
               compile_status |-> "pending"]

Labels == {"idle", "graph", "write", "done"}
Replies == {"none", "ok", "not_found", "conflict", "error", "lost"}

Sent(r) == pc[r] # "idle"
Busy(r) == pc[r] \in {"graph", "write"}
Creates(r) == Sent(r) /\ call[r].op = "create"
Changes(r, t) == Sent(r) /\ call[r].op # "create" /\ call[r].type = t
Updates(r, t) == Changes(r, t) /\ call[r].op = "update"

Rows == {r \in committed : call[r].op = "create"}
Of(kind) == {r \in Rows : call[r].kind = kind}

Goto(r, l) == pc' = [pc EXCEPT ![r] = l]
Fault == faults < MaxFaults /\ faults' = faults + 1

Answer(r, status) ==
    /\ Goto(r, "done")
    /\ reply' = [reply EXCEPT ![r] = status]

-----------------------------------------------------------------------------
Init ==
    /\ call = [r \in Requests |-> NoCall]
    /\ pc = [r \in Requests |-> "idle"]
    /\ loaded = [r \in Requests |-> NewType(r)]
    /\ types = [r \in Requests |-> NewType(r)]
    /\ graph = {}
    /\ committed = {}
    /\ reply = [r \in Requests |-> "none"]
    /\ missed = [r \in Requests |-> {}]
    /\ faults = 0

(* Every id the client sends names a row of a kind the new row may refer to *)
Found(c) ==
    \A n \in c.needs : \E kind \in References[c.kind] : n \in Of(kind)

(* Names are the tenant's, keys their object type's; links have neither *)
Clash(c, d) ==
    /\ c.kind = d.kind
    /\ c.kind # "link"
    /\ c.name = d.name
    /\ c.kind = "object" => c.needs = d.needs

(* Mutant of Taken: the check looks at rows that are not archived only *)
TakenUnlessArchived(c) == {r \in Rows : Clash(call[r], c) /\ types[r].status # "archived"}

Taken(c) == {r \in Rows : Clash(call[r], c)}

(* The handler of a creation up to its last read; scalar_one_or_none raises
   when it is given two rows *)
Check(r) ==
    /\ pc[r] = "idle"
    /\ \E c \in Calls[r] \cap Creation :
        /\ c.kind # "action_type"
        /\ call' = [call EXCEPT ![r] = c]
        /\ \/ /\ ~Found(c)
              /\ Answer(r, "not_found")
           \/ /\ Found(c)
              /\ Taken(c) # {}
              /\ Answer(r, IF Cardinality(Taken(c)) = 1 THEN "conflict" ELSE "error")
           \/ /\ Found(c)
              /\ Taken(c) = {}
              /\ Goto(r, IF c.kind \in {"object", "link"} THEN "graph" ELSE "write")
              /\ UNCHANGED reply
    /\ UNCHANGED <<loaded, types, graph, committed, missed, faults>>

(* The handler of an action type looks for the name before the target.  A function
   or a flow that it names is left to the foreign keys, see WriteFails *)
CheckActionType(r) ==
    /\ pc[r] = "idle"
    /\ \E c \in Calls[r] \cap Creation :
        /\ c.kind = "action_type"
        /\ call' = [call EXCEPT ![r] = c]
        /\ \/ /\ Taken(c) # {}
              /\ Answer(r, IF Cardinality(Taken(c)) = 1 THEN "conflict" ELSE "error")
           \/ /\ Taken(c) = {}
              /\ ~Found(c)
              /\ Answer(r, "not_found")
           \/ /\ Taken(c) = {}
              /\ Found(c)
              /\ Goto(r, "write")
              /\ UNCHANGED reply
    /\ UNCHANGED <<loaded, types, graph, committed, missed, faults>>

(* CREATE always makes the node; the relationship hangs on a MATCH of both
   ends, and a MATCH that finds nothing is no error *)
Drawn(r) ==
    IF \A n \in call[r].needs : call[n].kind = "object" => n \in graph
    THEN graph \cup {r} ELSE graph

Draw(r) ==
    /\ pc[r] = "graph"
    /\ graph' = Drawn(r)
    /\ Goto(r, "write")
    /\ UNCHANGED <<call, loaded, types, committed, reply, missed, faults>>

(* Mutant of DrawFails: the failure is logged, and the handler goes on *)
DrawFailsQuietly(r) ==
    /\ pc[r] = "graph"
    /\ Fault
    /\ graph' \in {graph, Drawn(r)}
    /\ Goto(r, "write")
    /\ UNCHANGED <<call, loaded, types, committed, reply, missed>>

(* The handler raises; whether Neo4j had run the statement nobody knows *)
DrawFails(r) ==
    /\ pc[r] = "graph"
    /\ Fault
    /\ graph' \in {graph, Drawn(r)}
    /\ Answer(r, "error")
    /\ UNCHANGED <<call, loaded, types, committed, missed>>

-----------------------------------------------------------------------------
(* Updating, archiving and compiling an object type *)

Load(r) ==
    /\ pc[r] = "idle"
    /\ \E c \in Calls[r] \cap Change :
        /\ call' = [call EXCEPT ![r] = c]
        /\ \/ /\ c.type \in Of("object_type")
              /\ loaded' = [loaded EXCEPT ![r] = types[c.type]]
              /\ Goto(r, "write")
              /\ UNCHANGED reply
           \/ /\ c.type \notin Of("object_type")
              /\ Answer(r, "not_found")
              /\ UNCHANGED loaded
    /\ UNCHANGED <<types, graph, committed, missed, faults>>

(* compile_object_type asks each required property for its validation, which is
   None when not given, and the AttributeError is recorded as an error.  No
   validation has a field "unique", so it never reaches Neo4j. *)
Verdict(properties) == IF properties \in Broken THEN "error" ELSE "compiled"

(* Mutant of Edited: an update leaves compile_status as it was *)
EditedKeepsVerdict(r) ==
    LET c == call[r]
        row == loaded[r]
    IN  IF c.op = "update"
        THEN [properties |-> IF c.properties THEN r ELSE row.properties,
              status |-> IF c.status = "kept" THEN row.status ELSE c.status,
              version |-> row.version + 1,
              compile_status |-> row.compile_status]
        ELSE IF c.op = "archive"
        THEN [row EXCEPT !.status = "archived"]
        ELSE [row EXCEPT !.compile_status = Verdict(row.properties)]

(* The row in the session after the handler's assignments *)
Edited(r) ==
    LET c == call[r]
        row == loaded[r]
    IN  IF c.op = "update"
        THEN [properties |-> IF c.properties THEN r ELSE row.properties,
              status |-> IF c.status = "kept" THEN row.status ELSE c.status,
              version |-> row.version + 1,
              compile_status |-> "pending"]
        ELSE IF c.op = "archive"
        THEN [row EXCEPT !.status = "archived"]
        ELSE [row EXCEPT !.compile_status = Verdict(row.properties)]

(* The UPDATE sets the columns that differ from those the session loaded *)
Column(row, old, new) == IF new = old THEN row ELSE new

(* Mutant of Merged: the UPDATE sets every column *)
MergedWhole(row, old, new) == new

Merged(row, old, new) ==
    [properties |-> Column(row.properties, old.properties, new.properties),
     status |-> Column(row.status, old.status, new.status),
     version |-> Column(row.version, old.version, new.version),
     compile_status |-> Column(row.compile_status, old.compile_status, new.compile_status)]

-----------------------------------------------------------------------------
(* The row is written and the transaction commits *)
Store(r) ==
    /\ pc[r] = "write"
    /\ committed' = committed \cup {r}
    /\ types' =
        IF call[r].op = "create" THEN types
        ELSE [types EXCEPT ![call[r].type] = Merged(@, loaded[r], Edited(r))]
    /\ missed' = [q \in Requests |->
                    IF Busy(q) /\ q # r THEN missed[q] \cup {r} ELSE missed[q]]
    /\ UNCHANGED <<call, loaded, graph>>

Write(r) ==
    /\ Store(r)
    /\ Answer(r, "ok")
    /\ UNCHANGED faults

(* PostgreSQL is lost: the transaction is rolled back, or it had committed *)
WriteFails(r) ==
    /\ pc[r] = "write"
    /\ Fault
    /\ Answer(r, "error")
    /\ \/ Store(r)
       \/ UNCHANGED <<call, loaded, types, graph, committed, missed>>

(* The API process dies, and no transaction of its requests commits *)
Restart ==
    /\ Fault
    /\ pc' = [r \in Requests |-> IF Busy(r) THEN "done" ELSE pc[r]]
    /\ reply' = [r \in Requests |-> IF Busy(r) THEN "lost" ELSE reply[r]]
    /\ UNCHANGED <<call, loaded, types, graph, committed, missed>>

Next ==
    \/ \E r \in Requests :
        \/ Check(r) \/ CheckActionType(r) \/ Draw(r) \/ DrawFails(r)
        \/ Load(r) \/ Write(r) \/ WriteFails(r)
    \/ Restart

Spec == Init /\ [][Next]_vars

-----------------------------------------------------------------------------
(* Type correctness: a request not sent asks nothing, and every other asks one
   of the things it may. *)
TypeOK ==
    /\ call \in [Requests -> Creation \cup Change \cup {NoCall}]
    /\ pc \in [Requests -> Labels]
    /\ \A r \in Requests : Sent(r) => call[r] \in Calls[r]
    /\ loaded \in [Requests -> ObjectType]
    /\ types \in [Requests -> ObjectType]
    /\ graph \subseteq Requests
    /\ committed \subseteq {r \in Requests : pc[r] = "done"}
    /\ reply \in [Requests -> Replies]
    /\ missed \in [Requests -> SUBSET Requests]
    /\ faults \in 0..MaxFaults

(* Two requests overlapped: one committed after the other had looked *)
Overlapped(a, b) == a \in missed[b] \/ b \in missed[a]

(* Names of types and functions, and keys within an object type, are unique but
   for creations that overlapped: nothing between the check of the handlers and
   their insert keeps another out. *)
KeysUnique ==
    \A a, b \in Rows : a # b /\ Clash(call[a], call[b]) => Overlapped(a, b)

(* The row of an object has its node and the row of a link its relationship,
   even after failures; what else is in Neo4j belongs to a request still under
   way or one whose client was told that it failed. *)
GraphInStep ==
    /\ Of("object") \cup Of("link") \subseteq graph
    /\ \A r \in graph \ Rows : pc[r] = "write" \/ reply[r] \in {"error", "lost"}

(* A change of an object type was written over one it had not read *)
Raced(t) ==
    \E r \in committed : Changes(r, t) /\ \E m \in missed[r] : Changes(m, t)

(* compile_status speaks of the properties in the row, unless changes raced. *)
CompileMatches ==
    \A t \in Of("object_type") :
        \/ types[t].compile_status \in {"pending", Verdict(types[t].properties)}
        \/ Raced(t)

(* version is one more than the updates that committed: an archiving or a
   compilation never moves it, and only a race loses one. *)
VersionCounts ==
    \A t \in Of("object_type") :
        LET updates == Cardinality({r \in committed : Updates(r, t)}) IN
        /\ types[t].version <= updates + 1
        /\ Raced(t) \/ types[t].version = updates + 1

(* An archived type stays archived unless an update that names a status commits:
   a change that read the type before it was archived does not bring it back. *)
ArchivedStays ==
    [][\A t \in Requests :
        types[t].status = "archived" =>
            \/ types'[t].status = "archived"
            \/ \E r \in committed' \ committed : Updates(r, t) /\ call[r].status # "kept"]_vars
=============================================================================
