---------------------------- MODULE SharedOwners ----------------------------
(***************************************************************************)
(* What std::shared_ptr promises of one pointee: an owner comes into being *)
(* only as a copy of another one, one at a time, and the pointee is        *)
(* deleted by the last one to go, and not before.  Once it is deleted      *)
(* nobody owns it again.                                                   *)
(***************************************************************************)
CONSTANT Owners   \* whatever may hold a shared_ptr to the pointee

VARIABLES owners,   \* those that hold one
          pointee   \* "alive" or "deleted"

vars == <<owners, pointee>>

Init == /\ owners \in (SUBSET Owners) \ {{}}
        /\ pointee = "alive"

(* A copy of some owner's shared_ptr. *)
Share(o) == /\ owners # {}
            /\ o \notin owners
            /\ owners' = owners \cup {o}
            /\ UNCHANGED pointee

Drop(o) == /\ o \in owners
           /\ owners' = owners \ {o}
           /\ pointee' = IF owners = {o} THEN "deleted" ELSE pointee

Next == \E o \in Owners : Share(o) \/ Drop(o)

Spec == Init /\ [][Next]_vars
=============================================================================
