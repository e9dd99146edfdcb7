------------------------ MODULE MCInterfaceChannel ------------------------
(* Constants for checking InterfaceChannel: two tabs and two reports *)
EXTENDS InterfaceChannel

MCReport == {"r1", "r2"}
=============================================================================
