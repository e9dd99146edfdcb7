----------------------------- MODULE MCWorkshop -----------------------------
(* Every graph of up to two edges between three ids, one of which may be no node,
   with a table, a filter or an action drawn in either order; and some larger ones:
   a diamond, a cycle that no root leads to, and a chain to which the order in which
   things are drawn is hostile. *)
EXTENDS Workshop

CONSTANTS a, b, c, d

N(n, t) == [id |-> n, type |-> t]
E(s, t) == [source |-> s, target |-> t]

MCIds == {a, b, c, d}
MCTypes == {"table", "linknav", "filter", "chart", "action", "note"}

NodeLists ==
    {<<N(a, "table"), N(b, "action")>>,
     <<N(c, "filter"), N(a, "table")>>,
     <<N(c, "action"), N(b, "filter"), N(a, "table")>>}

EdgeLists == UNION {[1..k -> [source : {a, b, c}, target : {a, b, c}]] : k \in 0..2}

Small == {[nodes |-> ns, edges |-> es] : ns \in NodeLists, es \in EdgeLists}

Large ==
    {[nodes |-> <<N(d, "chart"), N(c, "filter"), N(b, "filter"), N(a, "linknav")>>,
      edges |-> <<E(c, d), E(b, d), E(a, c), E(a, b), E(a, d)>>],
     [nodes |-> <<N(a, "table"), N(b, "note"), N(c, "chart"), N(d, "action")>>,
      edges |-> <<E(a, b), E(c, d), E(d, c)>>],
     [nodes |-> <<N(d, "action"), N(b, "filter"), N(c, "note"), N(a, "table"), N(b, "table")>>,
      edges |-> <<E(b, d), E(a, b), E(c, d), E(a, b)>>]}

MCGraphs == Small \cup Large
=============================================================================
