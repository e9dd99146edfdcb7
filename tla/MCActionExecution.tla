------------------------- MODULE MCActionExecution -------------------------
(* Two executions of types of all modes, on an empty and on a filled object *)
EXTENDS ActionExecution

CONSTANTS r1, r2, o1, o2, p1, p2

Of(mode, modifies) == [mode |-> mode, modifies |-> modifies, rules |-> FALSE,
                       backed |-> TRUE, valid |-> TRUE, sensitive |-> FALSE]
Ask(path, type, target) == [path |-> path, type |-> type, found |-> TRUE,
                            target |-> target, parameters |-> 32, user |-> TRUE]

Direct == {Of("direct", {p1}), Of("direct", {p2}), Of("direct", {})}
Function == {[Of("function_backed", {}) EXCEPT !.backed = b, !.valid = v] :
                b \in BOOLEAN, v \in BOOLEAN}

(* The targets matter to direct mode, the gates to the executor *)
Endpoint ==
    {Ask("execute", t, o) : t \in Direct, o \in {o1, o2, "none", "foreign"}}
    \cup {Ask("execute", t, "none") : t \in Function \cup {Of("workflow", {p1})}}
    \cup {Ask("test", t, "none") : t \in {f \in Function : f.backed}}
    \cup {[Ask("execute", Of("direct", {}), "missing") EXCEPT !.found = f] : f \in BOOLEAN}

Executor ==
    {Ask("executor", t, o1) : t \in Direct \cup Function \cup {Of("workflow", {p1})}}
    \cup {Ask("executor", Of("direct", {p1}), o) : o \in {"foreign", "missing"}}
    \cup {[Ask("executor", [Of("function_backed", {}) EXCEPT !.rules = u, !.sensitive = n], o1)
             EXCEPT !.found = f, !.parameters = k] :
             f \in BOOLEAN, k \in {32, 33}, u \in BOOLEAN, n \in BOOLEAN}
    \cup {[Ask("executor", Of("direct", {p1}), o1) EXCEPT !.user = FALSE]}

MCRequests == {r1, r2}
MCCalls == Endpoint \cup Executor
=============================================================================
