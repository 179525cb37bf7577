--------------------------- MODULE MCStatusModule ---------------------------
(* Three threads import the module and call C++ functions that return      *)
(* non-OK statuses; the import may fail at every point, any number of      *)
(* times.  One class is all that can be defined; room for a second shows   *)
(* that it is not.                                                         *)
EXTENDS StatusModule
=============================================================================
