--------------------------- MODULE MCCapsuleTools ---------------------------
(* Three threads, up to three capsules, one of them perhaps a method's own. *)
EXTENDS CapsuleTools
=============================================================================
