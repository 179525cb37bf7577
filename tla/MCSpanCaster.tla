---------------------------- MODULE MCSpanCaster ----------------------------
(* Three casters, so that a caster can be moved or copied into another and *)
(* a third take the place of the first; two vectors at most.               *)
EXTENDS SpanCaster
=============================================================================
