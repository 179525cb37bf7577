------------------------- MODULE MCStatusFromPyExc -------------------------
(* Two threads, each through any number of callbacks, imports and calls.   *)
EXTENDS StatusFromPyExc
=============================================================================
