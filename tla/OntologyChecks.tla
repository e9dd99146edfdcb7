---------------------------- MODULE OntologyChecks ----------------------------
(* The requests that check the definitions of a tenant as a whole: GET /dag/cycle,
   POST /compile/validate, GET /interfaces/{id}/validate, and the compile order of
   OntologyService.

   Each reads its tables one statement after the other in a READ COMMITTED
   transaction, and definitions may be committed in between.  No handler asks that
   the ids in implemented_interfaces are those of interfaces.  Rows are created and
   changed, but none is ever deleted: archiving is a status. *)
EXTENDS OntologyDag

CONSTANTS
    TypeIds, LinkIds, InterfaceIds,  \* of object types, link types and interfaces
    Names,                           \* of properties
    NoRow,                           \* of an id whose definition is not stored
    Stored,                          \* the definitions there may be at first
    TypeRows, LinkRows, InterfaceRows,  \* what creations and updates may write
    MaxChanges                       \* bound on the commits during the request

(* implements: implemented_interfaces.  flawed: the label or a name is not valid,
   or two properties have one name *)
TypeRow == [implements : SUBSET Ids, properties : SUBSET Names, flawed : BOOLEAN,
            status : {"draft", "active", "archived"}]
LinkRow == [source : TypeIds, target : TypeIds, flawed : BOOLEAN]

(* required: the properties so marked, which is not the default of PropertyDef;
   named: all that are listed; link: whether a link is required *)
InterfaceRow ==
    {row \in [required : SUBSET Names, named : SUBSET Names, link : BOOLEAN] :
        row.required \subseteq row.named}

Tables == [types : [TypeIds -> TypeRow \cup {NoRow}],
           links : [LinkIds -> LinkRow \cup {NoRow}],
           interfaces : [InterfaceIds -> InterfaceRow \cup {NoRow}]]

ASSUME ChecksAssumption ==
    /\ TypeIds \cup LinkIds \cup InterfaceIds \subseteq Ids
    /\ TypeIds \cap LinkIds = {} /\ InterfaceIds \cap (TypeIds \cup LinkIds) = {}
    /\ TypeRows \subseteq TypeRow /\ LinkRows \subseteq LinkRow
    /\ InterfaceRows \subseteq InterfaceRow
    /\ Stored \subseteq Tables /\ MaxChanges \in Nat

VARIABLES
    tables,   \* what is committed
    got,      \* what the request has read
    pc,       \* the table it reads next
    request,  \* what is asked, and of which interface
    report,   \* what was answered
    earlier,  \* history: the tables when the request began
    changes   \* history: the commits since

checkVars == <<tables, got, pc, request, report, earlier, changes>>
vars == <<dagVars, checkVars>>

NoRequest == [kind |-> "none", id |-> NoId]
Requests == [kind : {"cycle", "order", "validate"}, id : {NoId}]
    \cup [kind : {"interface"}, id : InterfaceIds]
Silent == [kind |-> "none", outcome |-> "none", errors |-> {}]
NoTables == [types |-> [x \in TypeIds |-> NoRow], links |-> [x \in LinkIds |-> NoRow],
             interfaces |-> [x \in InterfaceIds |-> NoRow]]

Rows(table) == {x \in DOMAIN table : table[x] # NoRow}

ChecksInit ==
    /\ Init
    /\ tables \in Stored
    /\ earlier = tables
    /\ got = NoTables
    /\ pc = "idle"
    /\ request = NoRequest
    /\ report = Silent
    /\ changes = 0
-----------------------------------------------------------------------------
(* Other requests create and change definitions.  A link type needs its ends, and
   keeps them *)
Change ==
    /\ pc \notin {"idle", "done"}
    /\ changes < MaxChanges
    /\ changes' = changes + 1
    /\ \/ \E x \in TypeIds, row \in TypeRows : tables' = [tables EXCEPT !.types[x] = row]
       \/ \E x \in LinkIds, row \in LinkRows :
            /\ tables.links[x] = NoRow
            /\ {row.source, row.target} \subseteq Rows(tables.types)
            /\ tables' = [tables EXCEPT !.links[x] = row]
       \/ \E x \in InterfaceIds, row \in InterfaceRows :
            tables' = [tables EXCEPT !.interfaces[x] = row]
    /\ UNCHANGED <<dagVars, got, pc, request, report, earlier>>

Open ==
    /\ pc = "idle"
    /\ request' \in Requests
    /\ pc' = IF request'.kind = "interface" THEN "interface" ELSE "types"
    /\ UNCHANGED <<dagVars, tables, got, report, earlier, changes>>

Answer(outcome, errors) ==
    /\ pc' = "done"
    /\ report' = [kind |-> request.kind, outcome |-> outcome, errors |-> errors]

(* list_object_types gives the archived ones too *)
ReadTypes ==
    /\ pc = "types"
    /\ got' = [got EXCEPT !.types = tables.types]
    /\ pc' = "links"
    /\ UNCHANGED <<dagVars, tables, request, report, earlier, changes>>

ReadLinks ==
    /\ pc = "links"
    /\ request.kind # "interface"
    /\ got' = [got EXCEPT !.links = tables.links]
    /\ pc' = "interfaces"
    /\ UNCHANGED <<dagVars, tables, request, report, earlier, changes>>
-----------------------------------------------------------------------------
(* build_dependency_dag adds a node for every row, and an edge to an object type
   from all that it says it implements, and to a link type from its two ends.
   add_edge makes a node of what was not read. *)
BuiltFrom(t, to) ==
    IF to \in Rows(t.types) THEN t.types[to].implements
    ELSE IF to \in Rows(t.links) THEN {t.links[to].source, t.links[to].target}
    ELSE {}

(* Mutant of Build: an interface depends on the types that implement it *)
BuildBackwards(t) ==
    /\ dependents' = [n \in Ids |-> BuiltFrom(t, n)]
    /\ dependencies' = [n \in Ids |-> {m \in Ids : n \in BuiltFrom(t, m)}]
    /\ nodes' = Rows(t.types) \cup Rows(t.links) \cup Rows(t.interfaces)
                \cup UNION {BuiltFrom(t, n) : n \in Ids}

Build(t) ==
    /\ dependencies' = [n \in Ids |-> BuiltFrom(t, n)]
    /\ dependents' = [n \in Ids |-> {m \in Ids : n \in BuiltFrom(t, m)}]
    /\ nodes' = Rows(t.types) \cup Rows(t.links) \cup Rows(t.interfaces)
                \cup UNION {BuiltFrom(t, n) : n \in Ids}

(* After the last read there is no more await: the searches see one graph *)
ReadForGraph ==
    /\ pc = "interfaces"
    /\ request.kind \in {"cycle", "order"}
    /\ got' = [got EXCEPT !.interfaces = tables.interfaces]
    /\ Build(got')
    /\ pc' = "search"
    /\ UNCHANGED <<job, search, answer, tables, request, report, earlier, changes>>

StartSearch ==
    /\ pc = "search"
    /\ IF request.kind = "cycle" THEN FindCycle ELSE Sort
    /\ UNCHANGED checkVars

GoOn ==
    /\ pc = "search"
    /\ SearchStep
    /\ UNCHANGED checkVars

(* has_cycle with its path; get_compile_order raises ValueError for a cycle *)
TellGraph ==
    /\ pc = "search"
    /\ job = "done"
    /\ Answer("ok", IF answer.job # "sort" /\ answer.list # <<>>
                     THEN {<<"cycle", answer.list[1]>>} ELSE {})
    /\ UNCHANGED <<dagVars, tables, got, request, earlier, changes>>
-----------------------------------------------------------------------------
(* StaticValidator *)
ObjectTypeErrors(t) == {<<"flaw", x>> : x \in {y \in Rows(t.types) : t.types[y].flawed}}
LinkTypeErrors(t) == {<<"flaw", x>> : x \in {y \in Rows(t.links) : t.links[y].flawed}}

(* Mutant of Demanded: a property that is not marked as required may be missing *)
DemandedMarked(row) == row.required

(* Every property an interface lists counts, marked as required or not *)
Demanded(row) == row.named

MissingProperties(t) ==
    {<<"missing_property", x>> : x \in {y \in Rows(t.types) :
        \E i \in Rows(t.interfaces) \cap t.types[y].implements :
            ~(Demanded(t.interfaces[i]) \subseteq t.types[y].properties)}}

StaticErrors(t) == ObjectTypeErrors(t) \cup LinkTypeErrors(t) \cup MissingProperties(t)

ReadForValidator ==
    /\ pc = "interfaces"
    /\ request.kind = "validate"
    /\ got' = [got EXCEPT !.interfaces = tables.interfaces]
    /\ Answer("ok", StaticErrors(got'))
    /\ UNCHANGED <<dagVars, tables, request, earlier, changes>>
-----------------------------------------------------------------------------
(* GET /interfaces/{id}/validate *)
ReadInterface ==
    /\ pc = "interface"
    /\ got' = [got EXCEPT !.interfaces = tables.interfaces]
    /\ IF request.id \in Rows(tables.interfaces)
       THEN pc' = "types" /\ UNCHANGED report
       ELSE Answer("not_found", {})
    /\ UNCHANGED <<dagVars, tables, request, earlier, changes>>

(* Mutant of Implementing: every active type is looked at *)
ImplementingAll(t, i) == {x \in Rows(t.types) : t.types[x].status = "active"}

Implementing(t, i) ==
    {x \in Rows(t.types) : t.types[x].status = "active" /\ i \in t.types[x].implements}

Failing(t, i) ==
    {<<"fails", x>> : x \in {y \in Implementing(t, i) :
        \/ ~(t.interfaces[i].required \subseteq t.types[y].properties)
        \/ t.interfaces[i].link}}

(* The link types are selected again for each link that each type must have, and
   what comes back is rows, which have no attribute "name": the handler raises
   unless none is stored.  None is ever deleted, so the last of these reads
   decides. *)
ReadForInterface ==
    /\ pc = "links"
    /\ request.kind = "interface"
    /\ LET i == request.id
           asks == got.interfaces[i].link /\ Implementing(got, i) # {}
       IN  IF asks /\ Rows(tables.links) # {} THEN Answer("error", {})
           ELSE Answer("ok", Failing(got, i))
    /\ got' = [got EXCEPT !.links = tables.links]
    /\ UNCHANGED <<dagVars, tables, request, earlier, changes>>
-----------------------------------------------------------------------------
ChecksNext ==
    \/ Change \/ Open \/ ReadTypes \/ ReadLinks
    \/ ReadForGraph \/ StartSearch \/ GoOn \/ TellGraph
    \/ ReadForValidator
    \/ ReadInterface \/ ReadForInterface

ChecksSpec == ChecksInit /\ [][ChecksNext]_vars
-----------------------------------------------------------------------------
Depends(t, n, on) ==
    \/ n \in Rows(t.types) /\ on \in t.types[n].implements
    \/ n \in Rows(t.links) /\ on \in {t.links[n].source, t.links[n].target}

(* A cycle that is told leads along what the definitions say, and always through an
   object type that claims to implement an object type or a link type: interfaces
   depend on nothing, so a tenant whose types implement interfaces only is never
   told of a cycle. *)
CycleIsMisuse ==
    pc = "search" /\ answer.job \in {"cycle", "sort_cycle"} /\ answer.list # <<>> =>
        LET path == answer.list IN
        /\ \A i \in 1..(Len(path) - 1) : Depends(got, path[i + 1], path[i])
        /\ \E i \in 2..Len(path) :
            path[i] \in TypeIds /\ path[i - 1] \in TypeIds \cup LinkIds

(* Whether something is wrong with the tables *)
Cyclic(t) ==
    \E S \in SUBSET Ids : S # {} /\ \A n \in S : \E m \in S : Depends(t, n, m)

Invalid(t) ==
    \/ \E x \in Rows(t.types) : t.types[x].flawed
    \/ \E x \in Rows(t.links) : t.links[x].flawed
    \/ \E x \in Rows(t.types) : \E i \in Rows(t.interfaces) \cap t.types[x].implements :
            \E p \in t.interfaces[i].named : p \notin t.types[x].properties

(* Although the tables are read one after the other, what is reported was so before
   the request or is so after it, when no more than one definition changed
   meanwhile.  After two it may never have been so. *)
ReportOfAMoment ==
    changes <= 1 =>
        /\ report.kind \in {"cycle", "order"} =>
            (report.errors # {}) \in {Cyclic(earlier), Cyclic(tables)}
        /\ report.kind = "validate" =>
            (report.errors # {}) \in {Invalid(earlier), Invalid(tables)}

(* The two validators agree: a type that fails an interface for its properties is
   one that POST /compile/validate reports, too (not the other way round: a draft,
   or a property that is not marked, fails there only).  And what passes has no
   link to prove. *)
ChecksAgree ==
    report.kind = "interface" /\ report.outcome = "ok" =>
        \A x \in Rows(got.types) :
            LET row == got.types[x]
                i == got.interfaces[request.id]
            IN  IF <<"fails", x>> \in report.errors
                THEN i.link \/ <<"missing_property", x>> \in StaticErrors(got)
                ELSE row.status = "active" /\ request.id \in row.implements =>
                        i.required \subseteq row.properties /\ ~i.link
=============================================================================
