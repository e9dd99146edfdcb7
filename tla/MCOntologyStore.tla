-------------------------- MODULE MCOntologyStore --------------------------
(* Five requests about one object type that the first of them creates *)
EXTENDS OntologyStore, TLC

CONSTANTS r1, r2, r3, r4, r5, n1, n2

New(kind, name, needs) ==
    [op |-> "create", kind |-> kind, name |-> name, needs |-> needs]
Set(properties, status) ==
    [op |-> "update", type |-> r1, properties |-> properties, status |-> status]
On(op) == [op |-> op, type |-> r1]

MCRequests == {r1, r2, r3, r4, r5}

(* Two creations of one type name; two updates, one of them with properties no
   compilation accepts, an archiving and two compilations; three objects, two of
   them with one key, a link type and a link between the objects; two action types
   of one name *)
MCCalls ==
    r1 :> {New("object_type", n1, {})}
    @@ r2 :> {New("object_type", n1, {}), Set(TRUE, "kept"), New("object", n1, {r1})}
    @@ r3 :> {Set(TRUE, "active"), On("compile"), New("object", n2, {r1}),
             New("action_type", n1, {r1})}
    @@ r4 :> {On("archive"), Set(FALSE, "active"), New("link_type", n1, {r1}),
             New("action_type", n1, {r2})}
    @@ r5 :> {On("compile"), New("object", n1, {r1}), New("link", n1, {r2, r3, r4})}

MCBroken == {r2}
=============================================================================
