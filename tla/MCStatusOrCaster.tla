-------------------------- MODULE MCStatusOrCaster --------------------------
(* A static variable, which is returned by reference, and another one, of  *)
(* all nine pairs of types; one payload object and two Python Status       *)
(* objects.                                                                *)
EXTENDS StatusOrCaster
=============================================================================
