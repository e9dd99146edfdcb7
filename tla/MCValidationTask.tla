------------------------- MODULE MCValidationTask -------------------------
(* Constants for checking ValidationTask: two changes that enqueue a task, and
   the archiving of an interface, which does not. *)
EXTENDS ValidationTask

MCChanges == {"create", "update", "archive"}
MCArchives == {"archive"}
=============================================================================
