--------------------------- MODULE StatusOrCaster ---------------------------
(***************************************************************************)
(* The casters of absl::Status and absl::StatusOr in both directions:      *)
(* status_caster.h, statusor_caster.h, no_throw_status.h.                  *)
(*                                                                         *)
(* C++ variables of type Status, StatusOr<int> and StatusOr<PyObject*>     *)
(* receive what Python callables return or raise and what Python passes as *)
(* arguments, and are returned to Python: by value, after which they are   *)
(* gone, or by reference or pointer.  Where a Python object is kept alive, *)
(* by whom, and which absl::Status a Python Status object stands for are   *)
(* what the model is about.  Everything runs with the GIL held; the status *)
(* module is imported.                                                     *)
(***************************************************************************)
EXTENDS Naturals, FiniteSets

CONSTANTS Vars,          \* C++ variables
          Statics,       \* those that are returned by reference and stay
          None, AnInt,   \* Python's None and an int, whose references do not matter
          Payloads,      \* other Python objects that are no Status
          Slots,         \* Python Status objects that there is room for
          NoObject,
          MaxHeld        \* references to one object that Python code may own

Types == {"Status", "StatusOr<int>", "StatusOr<PyObject*>"}
Counted == Payloads \cup Slots
Objects == Counted \cup {None, AnInt}

(* Statuses, by the error they are: "ABORTED" is what anyone may report,   *)
(* "UNKNOWN" a default StatusOr's, "INVALID" a cast_error's, "MOVED" a     *)
(* moved-from Status's.                                                    *)
NotOk == {"ABORTED", "UNKNOWN", "INVALID", "MOVED"}
Statuses == NotOk \cup {"OK"}

ASSUME VarsAssumption ==
  /\ Statics \subseteq Vars
  /\ IsFiniteSet(Vars)
  /\ Vars \cap (Statuses \cup {"absent"}) = {}
ASSUME ObjectsAssumption ==
  /\ Payloads \cap Slots = {} /\ None # AnInt
  /\ {None, AnInt} \cap Counted = {}
  /\ NoObject \notin Objects
  /\ (Objects \cup {NoObject}) \cap (Statuses \cup {"gone", "cast_error"}) = {}
ASSUME MaxHeldAssumption == MaxHeld \in Nat \ {0}

VARIABLES
  type,    \* of each variable, and never another
  obj,     \* per slot: "absent", the status it owns, or the variable it refers to
  refs,    \* Python reference counts
  held,    \* the references that Python code owns
  cpp,     \* per variable: "gone", a status, AnInt, or the payload object
  owner,   \* variables that own the reference to their payload
  arg,     \* the Python object the variable is the converted argument of
  given,   \* what Python gave the variable, and the status inside it then
  seen     \* what the last step gave Python: a value, or a status

python == <<obj, refs, held>>
vars == <<type, python, cpp, owner, arg, given, seen>>

Gifts == [o : Objects \cup {NoObject}, was : Statuses \cup {"no status"}]
Nothing == [o |-> NoObject, was |-> "no status"]
NothingSeen == [how |-> "nothing", of |-> NoObject, what |-> NoObject]

StatusVars == {v \in Vars : type[v] = "Status"}
IntVars == {v \in Vars : type[v] = "StatusOr<int>"}
ObjectVars == {v \in Vars : type[v] = "StatusOr<PyObject*>"}

TypeOK ==
  /\ type \in [Vars -> Types]
  /\ obj \in [Slots -> Statuses \cup {"absent"} \cup Vars]
  /\ refs \in [Counted -> Nat] /\ held \in [Counted -> Nat]
  /\ cpp \in [Vars -> Statuses \cup {"gone"} \cup Objects]
  /\ owner \subseteq ObjectVars
  /\ arg \in [Vars -> Objects \cup {NoObject}]
  /\ given \in [Vars -> Gifts]
  /\ \/ seen = NothingSeen
     \/ seen \in [how : {"value", "raised", "RuntimeError"},
                  of : Vars, what : Objects \cup Statuses]

Init ==
  /\ type \in [Vars -> Types]
  /\ obj = [w \in Slots |-> "absent"]
  /\ refs = [o \in Counted |-> IF o \in Payloads THEN 1 ELSE 0]
  /\ held = refs
  /\ cpp = [v \in Vars |-> IF v \notin Statics THEN "gone"
                           ELSE IF v \in StatusVars THEN "OK" ELSE "UNKNOWN"]
  /\ owner = {}
  /\ arg = [v \in Vars |-> NoObject]
  /\ given = [v \in Vars |-> Nothing]
  /\ seen = NothingSeen
-----------------------------------------------------------------------------
Exists(o) == o \in Counted => refs[o] > 0

(* The status that a Python object is, if it is one.                       *)
StatusIn(o) ==
  IF o \notin Slots THEN "no status"
  ELSE IF obj[o] \in Vars THEN cpp[obj[o]] ELSE obj[o]

(* Reference counts after one more, and one less, reference to o.          *)
Incremented(o) ==
  IF o \in Counted THEN [refs EXCEPT ![o] = @ + 1] ELSE refs

Decref(o) ==
  /\ refs' = IF o \in Counted THEN [refs EXCEPT ![o] = @ - 1] ELSE refs
  /\ obj' = IF o \in Slots /\ refs[o] = 1 THEN [obj EXCEPT ![o] = "absent"] ELSE obj

MayHold(o) == o \in Counted => held[o] < MaxHeld
Hold(o) == held' = IF o \in Counted THEN [held EXCEPT ![o] = @ + 1] ELSE held

(* A new Python Status object, which Python code owns.                     *)
NewStatusObject(w, content) ==
  /\ obj[w] = "absent"
  /\ obj' = [obj EXCEPT ![w] = content]
  /\ refs' = [refs EXCEPT ![w] = 1]
  /\ held' = [held EXCEPT ![w] = 1]

(* Python code makes Status objects, and lets go of what it holds.         *)
MakeStatus(w, s) ==
  /\ NewStatusObject(w, s)
  /\ seen' = NothingSeen
  /\ UNCHANGED <<cpp, owner, arg, given>>

DropObject(o) ==
  /\ held[o] > 0
  /\ held' = [held EXCEPT ![o] = @ - 1]
  /\ Decref(o)
  /\ seen' = NothingSeen
  /\ UNCHANGED <<cpp, owner, arg, given>>
-----------------------------------------------------------------------------
(* A variable that comes into being, or a static one that is assigned.  Of *)
(* a payload reference that it owns it must have been relieved before.     *)
Assignable(v) == v \notin owner /\ (cpp[v] # "gone" => v \in Statics)

Assign(v, value, gift) ==
  /\ Assignable(v)
  /\ cpp' = [cpp EXCEPT ![v] = value]
  /\ given' = [given EXCEPT ![v] = gift]
  /\ seen' = NothingSeen

(* C++ code makes one itself: with a new reference if with a payload.      *)
CppMakes(v, value) ==
  /\ value = "ABORTED" \/ value = IF v \in StatusVars THEN "OK" ELSE AnInt
  /\ Assign(v, value, Nothing)
  /\ owner' = IF v \in ObjectVars /\ value \in Objects THEN owner \cup {v} ELSE owner
  /\ UNCHANGED <<python, arg>>

(* It is done with one: the payload reference it owns is released.         *)
CppDrops(v) ==
  /\ cpp[v] # "gone" /\ arg[v] = NoObject
  /\ v \in owner \/ v \notin Statics
  /\ cpp' = [cpp EXCEPT ![v] = IF v \in Statics THEN "UNKNOWN" ELSE "gone"]
  /\ owner' = owner \ {v}
  /\ IF v \in owner THEN Decref(cpp[v]) ELSE UNCHANGED <<refs, obj>>
  /\ given' = [given EXCEPT ![v] = Nothing]
  /\ seen' = NothingSeen
  /\ UNCHANGED <<held, arg>>
-----------------------------------------------------------------------------
\* Mutant: the status is tried before the payload.
LoadStatusFirst(v, o) ==
  IF StatusIn(o) \in NotOk THEN StatusIn(o)
  ELSE IF v \in ObjectVars \/ (v \in IntVars /\ o = AnInt) THEN o
  ELSE IF v \in StatusVars /\ (o = None \/ StatusIn(o) = "OK") THEN "OK"
  ELSE "cast_error"

(* What load() makes of a Python object, or "cast_error" if it throws or   *)
(* refuses.  Any object is a PyObject* payload, a Status too; an OK status *)
(* and None are no StatusOr<int>; None is the OK status.                   *)
Load(v, o) ==
  IF v \in ObjectVars THEN o
  ELSE IF v \in IntVars
       THEN IF o = AnInt THEN AnInt
            ELSE IF StatusIn(o) \in NotOk THEN StatusIn(o) ELSE "cast_error"
       ELSE IF o = None THEN "OK"
            ELSE IF StatusIn(o) \in Statuses THEN StatusIn(o) ELSE "cast_error"

\* Mutant: py_result is never released.
ReleasesNever(v) == FALSE

(* py_result.release(): the reference goes to C++ with the payload.        *)
Releases(v) == v \in ObjectVars

(* A callable behind a std::function returns o: a reference to it is       *)
(* py_result's while it is cast.                                           *)
CallbackReturns(v, o) ==
  /\ Exists(o)
  /\ Assign(v, IF Load(v, o) = "cast_error" THEN "INVALID" ELSE Load(v, o),
            [o |-> o, was |-> StatusIn(o)])
  /\ owner' = IF v \in ObjectVars THEN owner \cup {v} ELSE owner
  /\ refs' = IF Releases(v) THEN Incremented(o) ELSE refs
  /\ UNCHANGED <<obj, held, arg>>

(* It raises: see StatusFromPyExc.                                         *)
CallbackRaises(v) ==
  /\ Assign(v, "ABORTED", [o |-> NoObject, was |-> "ABORTED"])
  /\ UNCHANGED <<python, owner, arg>>

(* Python passes o for a parameter: the call's arguments keep it.  What    *)
(* load() refuses is an exception in Python, and nothing else.             *)
BeginCall(v, o) ==
  /\ Exists(o)
  /\ v \notin Statics
  /\ Load(v, o) # "cast_error"
  /\ Assign(v, Load(v, o), [o |-> o, was |-> StatusIn(o)])
  /\ arg' = [arg EXCEPT ![v] = o]
  /\ refs' = Incremented(o)
  /\ UNCHANGED <<obj, held, owner>>

EndCall(v) ==
  /\ arg[v] # NoObject
  /\ Decref(arg[v])
  /\ arg' = [arg EXCEPT ![v] = NoObject]
  /\ cpp' = [cpp EXCEPT ![v] = "gone"]
  /\ given' = [given EXCEPT ![v] = Nothing]
  /\ seen' = NothingSeen
  /\ UNCHANGED <<held, owner>>
-----------------------------------------------------------------------------
Stays(v) == v \in Statics \/ arg[v] # NoObject
Policies == {"take_ownership", "reference", "automatic"}

See(v, how, what) == seen' = [how |-> how, of |-> v, what |-> what]

(* The variable after it was returned: a temporary is gone.                *)
LeaveBehind(v, value) ==
  /\ cpp' = [cpp EXCEPT ![v] = IF Stays(v) THEN value ELSE "gone"]
  /\ given' = IF Stays(v) /\ value = cpp[v] THEN given
              ELSE [given EXCEPT ![v] = Nothing]
  /\ UNCHANGED arg

(* An OK Status is None; an OK StatusOr<int> is the int.                   *)
ReturnOk(v) ==
  /\ cpp[v] \in {"OK", AnInt} /\ v \notin ObjectVars
  /\ See(v, "value", IF v \in StatusVars THEN None ELSE AnInt)
  /\ LeaveBehind(v, cpp[v])
  /\ UNCHANGED <<python, owner>>

(* A PyObject* payload: take_ownership hands over the reference that the   *)
(* variable owns; reference makes one for Python.  Other policies, the     *)
(* default among them, are refused.  It is up to the binding's author not  *)
(* to hand over what is not owned, nor to forget what a temporary owns.    *)
ReturnPayload(v, policy) ==
  /\ cpp[v] \in Objects
  /\ v \in owner \/ (v \in ObjectVars /\ arg[v] # NoObject)
  /\ IF policy = "take_ownership" THEN v \in owner ELSE Stays(v)
  /\ LeaveBehind(v, cpp[v])
  /\ \/ /\ policy # "automatic"
        /\ MayHold(cpp[v]) /\ Hold(cpp[v])
        /\ See(v, "value", cpp[v])
        /\ UNCHANGED obj
        /\ IF policy = "take_ownership"
           THEN owner' = owner \ {v} /\ UNCHANGED refs
           ELSE refs' = Incremented(cpp[v]) /\ UNCHANGED owner
     \/ /\ policy = "automatic"
        /\ See(v, "RuntimeError", cpp[v])
        /\ UNCHANGED <<python, owner>>

(* throw StatusNotOk(std::forward<CType>(src)): the exception owns a copy. *)
ReturnRaises(v, w) ==
  /\ cpp[v] \in NotOk
  /\ NewStatusObject(w, cpp[v])
  /\ See(v, "raised", cpp[v])
  /\ LeaveBehind(v, cpp[v])
  /\ UNCHANGED owner

Registered(v) == {w \in Slots : obj[w] = v}

(* NoThrowStatus<StatusOr>: an error is cast as a Status, with policy      *)
(* move, which pybind11 applies to an lvalue as well.                      *)
ReturnNoThrowOr(v, w) ==
  /\ v \notin StatusVars
  /\ cpp[v] \in NotOk
  /\ NewStatusObject(w, cpp[v])
  /\ See(v, "value", cpp[v])
  /\ LeaveBehind(v, "MOVED")
  /\ UNCHANGED owner

\* Mutant: the value category is not forwarded, and the policy decides.
RefersTo(v, policy) == policy = "reference"

(* Whether the Python object refers to the C++ variable: the policy says   *)
(* so, and it is an lvalue; an rvalue is moved whatever the policy.        *)
Refers(v, policy) == policy = "reference" /\ Stays(v)

(* NoThrowStatus<Status>: the Python object that stands for the variable   *)
(* already, or a new one.                                                  *)
ReturnNoThrow(v, policy, w) ==
  /\ v \in StatusVars
  /\ cpp[v] \in Statuses
  /\ policy = "reference" => arg[v] = NoObject   \* no reference to a parameter
  /\ See(v, "value", cpp[v])
  /\ LeaveBehind(v, cpp[v])
  /\ IF Registered(v) # {}
     THEN /\ w \in Registered(v)
          /\ MayHold(w) /\ Hold(w)
          /\ refs' = Incremented(w)
          /\ UNCHANGED obj
     ELSE NewStatusObject(w, IF Refers(v, policy) THEN v ELSE cpp[v])
  /\ UNCHANGED owner

Return(v) ==
  \/ ReturnOk(v)
  \/ \E policy \in Policies : ReturnPayload(v, policy)
  \/ \E w \in Slots :
       \/ ReturnRaises(v, w) \/ ReturnNoThrowOr(v, w)
       \/ \E policy \in {"reference", "automatic"} : ReturnNoThrow(v, policy, w)

Step ==
  \/ \E w \in Slots, s \in {"ABORTED", "OK"} : MakeStatus(w, s)
  \/ \E o \in Counted : DropObject(o)
  \/ \E v \in Vars :
       \/ CppDrops(v) \/ CallbackRaises(v) \/ EndCall(v) \/ Return(v)
       \/ \E value \in {"ABORTED", "OK", AnInt} : CppMakes(v, value)
       \/ \E o \in Objects : CallbackReturns(v, o) \/ BeginCall(v, o)

Next == Step /\ UNCHANGED type

Spec == Init /\ [][Next]_vars
-----------------------------------------------------------------------------
(* Every reference to a payload or a Status object has one owner: Python   *)
(* code, a StatusOr<PyObject*>, or the arguments of a call.  func_wrapper  *)
(* gives py_result's reference to C++ exactly when the payload keeps it,   *)
(* and no cast makes or swallows one.                                      *)
PayloadRefsExact ==
  \A o \in Counted :
    refs[o] = held[o] + Cardinality({v \in owner : cpp[v] = o})
                      + Cardinality({v \in Vars : arg[v] = o})

(* A Python Status object never refers to a C++ variable that is gone, be  *)
(* the binding's policy `reference` and the status a temporary; and one    *)
(* variable has one Python object.                                         *)
StatusObjectsSound ==
  \A w \in Slots :
    /\ obj[w] = "absent" <=> refs[w] = 0
    /\ obj[w] \in Vars => cpp[obj[w]] # "gone" /\ Registered(obj[w]) = {w}

(* C++ code that returns what it got from Python is transparent: an error, *)
(* raised or returned, comes back as the same error, a PyObject* payload   *)
(* -- a Status among them -- as the same object, and success only where    *)
(* Python gave success.  (Unless an earlier cast has moved the error away: *)
(* `given` is forgotten then.)                                             *)
Transparent ==
  [][\A v \in Vars :
       (seen' # NothingSeen /\ seen'.of = v /\ given[v] # Nothing) =>
         LET g == given[v] IN
         IF v \in ObjectVars /\ g.o # NoObject
         THEN seen'.what = g.o
         ELSE /\ g.was \in NotOk => seen'.what = g.was
              /\ seen'.what \notin NotOk => g.was = "OK" \/ g.o \in {None, AnInt}]_vars
=============================================================================
