--------------------------- MODULE MCStatusObject ---------------------------
(* Two objects; OK, UNKNOWN, and a raw code outside absl's enumeration     *)
(* (which code() also reports as UNKNOWN); two messages, the URL of the    *)
(* source location mark and another.                                       *)
EXTENDS StatusObject
=============================================================================
