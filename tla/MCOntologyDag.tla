--------------------------- MODULE MCOntologyDag ---------------------------
(* Every graph on four definitions, reached by any sequence of additions and
   removals, and every search over it in every order of iteration. *)
EXTENDS OntologyDag, TLC

CONSTANTS a, b, c, d

MCIds == {a, b, c, d}
MCSymmetry == Permutations(MCIds)
=============================================================================
