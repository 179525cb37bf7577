------------------------------ MODULE LazyCell ------------------------------
(***************************************************************************)
(* What a C++ function-local static that is filled on first use promises   *)
(* when filling it runs Python code, so that the GIL may change hands      *)
(* between the test of the static and the assignment to it.  The promise   *)
(* is weaker than "written once": every thread that saw the cell unset     *)
(* may write it, in any order.  It is a promise all the same: nobody else  *)
(* writes it, and once those threads are through the value is final.       *)
(***************************************************************************)
CONSTANTS Threads,  \* the threads that may use the cell
          Values,   \* what the cell may be filled with
          Unset     \* what it holds before: no member of Values

VARIABLES value,    \* the static
          fillers   \* the threads that saw Unset and have not written yet

vars == <<value, fillers>>

TypeOK == /\ value \in Values \cup {Unset}
          /\ fillers \subseteq Threads

Init == /\ value = Unset
        /\ fillers = {}

(* A thread finds the cell unset and sets out to compute its value. *)
Enter(t) == /\ value = Unset
            /\ t \notin fillers
            /\ fillers' = fillers \cup {t}
            /\ UNCHANGED value

(* It comes back with a value and writes it, whatever is there by now. *)
Fill(t) == /\ t \in fillers
           /\ fillers' = fillers \ {t}
           /\ value' \in Values

Next == \E t \in Threads : Enter(t) \/ Fill(t)

Spec == Init /\ [][Next]_vars
=============================================================================
