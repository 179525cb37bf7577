------------------------- MODULE OkStatusSingleton -------------------------
(***************************************************************************)
(* ok_status_singleton_lib.cc: the process-wide OK absl::Status and its    *)
(* one Python face, which PyOkStatusSingleton() makes on the first call:   *)
(* the Status object registered for the C++ singleton when                 *)
(* pybind11_abseil.status can be imported, a bare PyCapsule otherwise.     *)
(*                                                                         *)
(* Threads hold the GIL except inside PyImport_ImportModule, where the     *)
(* import machinery may hand it over; a call is therefore one step up to   *)
(* the import and one step from the import's return to its own.            *)
(*                                                                         *)
(* Callers: the Python function OkStatusSingleton(), the static method     *)
(* Status.OkStatus(), and a cast of an OK status under _clif_automatic.    *)
(***************************************************************************)
EXTENDS Naturals

CONSTANTS Threads,         \* Python threads
          NoThread,        \* the "maker" of what no call makes
          MaxCalls,        \* bound: calls per thread
          ImportOutcomes   \* what importing the status module may lead to

Entries == {"OkStatusSingleton", "OkStatus", "cast"}

(* "missing": the import fails.  "no_make_fn": the module lacks           *)
(* _make_py_ok_status_singleton.  "make_fails": calling it raises.         *)
AllImportOutcomes == {"missing", "no_make_fn", "make_fails", "usable"}

ASSUME ThreadsAssumption == NoThread \notin Threads
ASSUME MaxCallsAssumption == MaxCalls \in Nat
ASSUME OutcomesAssumption == ImportOutcomes \subseteq AllImportOutcomes

Objects == [kind : {"Status", "capsule"}, maker : Threads \cup {NoThread}]
Null == [kind |-> "NULL", maker |-> NoThread]

VARIABLES
  first_call,     \* static bool first_call
  py_singleton,   \* static PyObject* py_singleton
  pc,             \* "idle", or the caller on whose behalf the thread is
                  \*   inside PyImport_ImportModule
  raised,         \* the exception its last call ended with, or "none"
  calls,          \* calls made per thread
  refs,           \* the reference count of each Python object
  held,           \* the references that Python code owns
  registered,     \* the Status object in pybind11's instance map under the
                  \*   singleton's address, or Null
  module_loaded,  \* pybind11_abseil.status is in sys.modules
  singleton_ok,   \* OkStatusSingleton()->ok()
  loaded_none     \* what C++ last received for a None passed as a Status

statics == <<first_call, py_singleton>>
threads == <<pc, raised, calls>>
objects == <<refs, held, registered>>
vars == <<statics, threads, objects, module_loaded, singleton_ok, loaded_none>>

Capsule(t) == [kind |-> "capsule", maker |-> t]

Made(t) == [kind |-> "Status", maker |-> t]

\* Mutant: return_value_policy::copy.  The instance is registered under the
\* address of its copy, so that none is found at the next call.
MadeObjectByCopy(t) == Made(t)

(* _make_py_ok_status_singleton wraps the singleton by reference: the      *)
(* instance that pybind11 finds registered for that address, or a new one. *)
MadeObject(t) == IF registered = Null THEN Made(t) ELSE registered

Errors == {"none", "MemoryError", "AttributeError", "TypeError", "SystemError"}

TypeOK ==
  /\ first_call \in BOOLEAN
  /\ py_singleton \in Objects \cup {Null}
  /\ pc \in [Threads -> Entries \cup {"idle"}]
  /\ raised \in [Threads -> Errors]
  /\ calls \in [Threads -> 0..MaxCalls]
  /\ refs \in [Objects -> Nat]
  /\ held \in [Objects -> Nat]
  /\ registered \in Objects \cup {Null}
  /\ module_loaded \in BOOLEAN
  /\ singleton_ok \in BOOLEAN
  /\ loaded_none \in {"nothing", "OK", "error"}

Init ==
  /\ first_call = TRUE
  /\ py_singleton = Null
  /\ pc = [t \in Threads |-> "idle"]
  /\ raised = [t \in Threads |-> "none"]
  /\ calls = [t \in Threads |-> 0]
  /\ refs = [o \in Objects |-> 0]
  /\ held = [o \in Objects |-> 0]
  /\ registered = Null
  /\ module_loaded = FALSE
  /\ singleton_ok = TRUE
  /\ loaded_none = "nothing"
-----------------------------------------------------------------------------
\* Mutant: no Py_INCREF.
ReturnedRefsBorrowed(e) == IF e = "OkStatus" THEN 1 ELSE 0

(* Py_INCREF(py_singleton); return py_singleton.  Status.OkStatus() then   *)
(* returns the pointer as a pybind11 handle, which the binding increments  *)
(* once more on its way to Python: the first reference has no owner.       *)
ReturnedRefs(e) == IF e = "OkStatus" THEN 2 ELSE 1

(* `new_refs` counts the references the call itself has created before.    *)
Return(t, e, o, new_refs) ==
  /\ refs' = [refs EXCEPT ![o] = @ + new_refs + ReturnedRefs(e)]
  /\ held' = [held EXCEPT ![o] = @ + 1]
  /\ raised' = [raised EXCEPT ![t] = "none"]

Raise(t, error) ==
  /\ raised' = [raised EXCEPT ![t] = error]
  /\ UNCHANGED objects

\* Mutant: tests py_singleton too, so that a failure is tried again.
MustInitialiseOrRetry == first_call \/ py_singleton = Null

(* The test `if (first_call)`.                                             *)
MustInitialise == first_call

(* Only an OK status takes the clif branch of cast_impl; what is delivered *)
(* is the singleton and not the status tested.  Status.OkStatus() may be   *)
(* called before the import succeeds: the bindings are built under module  *)
(* paths other than the one that is imported here, too.                    *)
Call(t, e) ==
  /\ pc[t] = "idle"
  /\ calls[t] < MaxCalls
  /\ calls' = [calls EXCEPT ![t] = @ + 1]
  /\ \/ /\ MustInitialise
        /\ pc' = [pc EXCEPT ![t] = e]
        /\ raised' = [raised EXCEPT ![t] = "none"]
        /\ UNCHANGED objects
     \/ /\ ~MustInitialise
        /\ py_singleton = Null
        /\ Raise(t, "SystemError")
        /\ UNCHANGED pc
     \/ /\ ~MustInitialise
        /\ py_singleton # Null
        /\ Return(t, e, py_singleton, 0)
        /\ UNCHANGED <<pc, registered>>
  /\ UNCHANGED <<statics, module_loaded, singleton_ok, loaded_none>>

(* A module in sys.modules is found there; otherwise the import is tried.  *)
Imports(outcome) ==
  /\ outcome \in ImportOutcomes
  /\ outcome = "missing" => ~module_loaded
  /\ module_loaded' = (module_loaded \/ outcome # "missing")

\* Mutant: first_call is not cleared.
FinishKeepingFlag(t) ==
  /\ pc[t] # "idle"
  /\ pc' = [pc EXCEPT ![t] = "idle"]
  /\ UNCHANGED <<first_call, calls, singleton_ok, loaded_none>>

(* Every way out of the first call clears first_call.                      *)
Finish(t) ==
  /\ pc[t] # "idle"
  /\ pc' = [pc EXCEPT ![t] = "idle"]
  /\ first_call' = FALSE
  /\ UNCHANGED <<calls, singleton_ok, loaded_none>>

(* The import fails: PyErr_Clear, and a capsule around the C++ pointer.    *)
FinishWithCapsule(t) ==
  /\ Finish(t)
  /\ Imports("missing")
  /\ \/ /\ py_singleton' = Capsule(t)
        /\ Return(t, pc[t], Capsule(t), 1)
        /\ UNCHANGED registered
     \/ /\ py_singleton' = Null
        /\ Raise(t, "MemoryError")

(* Either failure leaves py_singleton alone but clears first_call.         *)
FinishWithoutObject(t) ==
  /\ Finish(t)
  /\ \/ Imports("no_make_fn") /\ Raise(t, "AttributeError")
     \/ Imports("make_fails") /\ Raise(t, "TypeError")
  /\ UNCHANGED py_singleton

(* The make function returns a handle, with a reference of its own whether *)
(* the instance is new or found, and the binding increments it once more:  *)
(* of the two, one belongs to the static, the other has no owner, like one *)
(* that an overwritten py_singleton owned.                                 *)
FinishWithStatus(t) ==
  /\ Finish(t)
  /\ Imports("usable")
  /\ py_singleton' = MadeObject(t)
  /\ registered' = MadeObject(t)
  /\ Return(t, pc[t], MadeObject(t), 2)
-----------------------------------------------------------------------------
\* Mutant: a reference that nobody owns is dropped.
DropUnowned(o) ==
  /\ refs[o] > 0
  /\ held' = [held EXCEPT ![o] = @ - 1]
  /\ refs' = [refs EXCEPT ![o] = @ - 1]
  /\ UNCHANGED <<statics, threads, registered, module_loaded, singleton_ok, loaded_none>>

(* Python code lets a reference go; pybind11 takes an instance that dies   *)
(* out of its map.                                                         *)
Drop(o) ==
  /\ held[o] > 0
  /\ held' = [held EXCEPT ![o] = @ - 1]
  /\ refs' = [refs EXCEPT ![o] = @ - 1]
  /\ registered' = IF refs'[o] = 0 /\ o = registered THEN Null ELSE registered
  /\ UNCHANGED <<statics, threads, module_loaded, singleton_ok, loaded_none>>

(* Status.update(other) on the object handed out, with `other` not OK:     *)
(* absl::Status::Update assigns when *this is OK.  Python sees no const.   *)
Update(o) ==
  /\ held[o] > 0
  /\ o.kind = "Status"
  /\ singleton_ok
  /\ singleton_ok' = FALSE
  /\ UNCHANGED <<statics, threads, objects, module_loaded, loaded_none>>

(* type_caster<absl::Status>::load(None) points at the C++ singleton.      *)
LoadNone ==
  /\ loaded_none' = IF singleton_ok THEN "OK" ELSE "error"
  /\ UNCHANGED <<statics, threads, objects, module_loaded, singleton_ok>>

Next ==
  \/ \E t \in Threads :
       \/ \E e \in Entries : Call(t, e)
       \/ FinishWithCapsule(t)
       \/ FinishWithoutObject(t)
       \/ FinishWithStatus(t)
  \/ \E o \in Objects : Drop(o) \/ Update(o)
  \/ LoadNone

Spec == Init /\ [][Next]_vars
-----------------------------------------------------------------------------
StaticRefs(o) == IF py_singleton = o THEN 1 ELSE 0

(* Every reference somebody owns is counted: the static's and Python's.    *)
(* Were one missing, dropping the others would free the singleton under    *)
(* the static, and the next call would return a dangling pointer.          *)
RefsCoverOwners == \A o \in Objects : refs[o] >= held[o] + StaticRefs(o)

(* However many first calls race and however they end, Python never sees   *)
(* two different Status objects for the OK singleton, so that `is`         *)
(* comparisons against Status.OkStatus() are meaningful: each racing call  *)
(* finds what an earlier one registered, which no user can make go away.   *)
StatusObjectUnique ==
  \A o, p \in Objects :
    (refs[o] > 0 /\ refs[p] > 0 /\ o.kind = "Status" /\ p.kind = "Status")
      => o = p

(* Nobody who calls after initialisation has settled sees the answer       *)
(* change: not from an object to another, not from failure to success.     *)
Settled == ~first_call /\ \A t \in Threads : pc[t] = "idle"
AnswerIsFinal == [][Settled => /\ Settled'
                               /\ py_singleton' = py_singleton]_vars

(* The statics of PyOkStatusSingleton are a lazily filled cell.            *)
NotCalled == [kind |-> "unset", maker |-> NoThread]
Cell == INSTANCE LazyCell WITH
          Values <- Objects \cup {Null},
          Unset <- NotCalled,
          value <- IF first_call THEN NotCalled ELSE py_singleton,
          fillers <- {t \in Threads : pc[t] # "idle"}
ImplementsLazyCell == Cell!Spec
-----------------------------------------------------------------------------
(* What status_example_test.py's test_status_caster_load_none expects:     *)
(* a None passed for an absl::Status is an OK status to C++.               *)
NoneLoadsAsOk == loaded_none # "error"
=============================================================================
