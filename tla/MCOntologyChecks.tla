-------------------------- MODULE MCOntologyChecks --------------------------
(* Two object types, a link type and an interface.  The types may implement the
   interface, one another, themselves or the link type.  The rows are those the
   checks tell apart: nothing, the property or a flaw; a listed property that is
   marked as required, or not, or a required link. *)
EXTENDS OntologyChecks

CONSTANTS t1, t2, l1, i1, p

MCTypes == {t1, t2}
MCLinks == {l1}
MCInterfaces == {i1}
MCIds == {t1, t2, l1, i1}
MCNames == {p}

TypeOf(implements, properties, flawed, status) ==
    [implements |-> implements, properties |-> properties, flawed |-> flawed, status |-> status]

MCTypeRows ==
    {TypeOf({i1}, {}, FALSE, "active"), TypeOf({i1}, {p}, FALSE, "active"),
     TypeOf({t2, i1}, {p}, FALSE, "archived"), TypeOf({l1}, {}, FALSE, "active"),
     TypeOf({t1, i1}, {}, TRUE, "draft")}
MCLinkRows ==
    {[source |-> t1, target |-> t2, flawed |-> FALSE],
     [source |-> t2, target |-> t2, flawed |-> TRUE]}
MCInterfaceRows ==
    {[required |-> {}, named |-> {p}, link |-> FALSE],
     [required |-> {p}, named |-> {p}, link |-> FALSE],
     [required |-> {}, named |-> {}, link |-> TRUE]}

(* At first there may be an interface, a link type, and one of two object types *)
MCStored ==
    {t \in [types : [MCTypes -> MCTypeRows \cup {NoRow}],
            links : [MCLinks -> {CHOOSE row \in MCLinkRows : row.flawed, NoRow}],
            interfaces : [MCInterfaces -> MCInterfaceRows \cup {NoRow}]] :
        /\ t.types[t2] \in {NoRow, TypeOf({i1}, {}, FALSE, "active")}
        /\ \A l \in MCLinks : t.links[l] # NoRow => t.types[t.links[l].target] # NoRow}
=============================================================================
