---------------------------- MODULE CapsuleTools ----------------------------
(***************************************************************************)
(* cpp_capsule_tools/: a std::shared_ptr travels through Python inside a   *)
(* PyCapsule that owns a heap copy of it (MakeSharedPtrCapsule), and comes *)
(* back as a shared_ptr (SharedPtrFromCapsule over VoidPtrFromCapsule), or *)
(* is used in place through a raw pointer (RawPtrFromCapsule), either from *)
(* the capsule itself or from an object whose as-capsule method returns    *)
(* one.                                                                    *)
(*                                                                         *)
(* There is one pointee.  Threads take the GIL for everything but dropping *)
(* a C++ shared_ptr; the as-capsule method is Python code and may hand the *)
(* GIL over, and so may a function that uses a raw pointer.  Reading the   *)
(* pointer, copying what it points at and releasing the capsule are        *)
(* separate steps, because other threads drop their shared_ptrs in         *)
(* between.                                                                *)
(***************************************************************************)
EXTENDS Naturals, FiniteSets

CONSTANTS Threads,
          Capsules,    \* capsules that can come into being
          Misnamed,    \* those whose name is not the one a lookup expects
          NoCapsule    \* nullptr

ASSUME FinitenessAssumption == IsFiniteSet(Threads) /\ IsFiniteSet(Capsules)
ASSUME ThreadsAssumption == Threads # {} /\ Threads \cap Capsules = {}
ASSUME CapsulesAssumption == NoCapsule \notin Capsules
ASSUME MisnamedAssumption == Misnamed \subseteq Capsules

VARIABLES
  cap,        \* "none" yet, "live" or "freed"
  heap,       \* its heap copy of the shared_ptr: "none", "owned" or "deleted"
  cap_refs,   \* the capsule's Python reference count
  held,       \* the references that Python code owns
  use_count,  \* the use count of the shared_ptr's control block
  copies,     \* threads whose C++ code owns a shared_ptr to the pointee
  pc,         \* "idle", "method", "extracting", "copying", "releasing", "using"
  from,       \* the capsule the thread reads, with a reference to it
  by_method,  \* threads that got their capsule from a method
  raw,        \* the capsule whose pointer the thread uses
  error       \* threads with a Python error pending

python == <<cap, heap, cap_refs, held>>
reads == <<from, by_method, raw>>
vars == <<python, use_count, copies, pc, reads, error>>

TypeOK ==
  /\ cap \in [Capsules -> {"none", "live", "freed"}]
  /\ heap \in [Capsules -> {"none", "owned", "deleted"}]
  /\ cap_refs \in [Capsules -> Nat] /\ held \in [Capsules -> Nat]
  /\ use_count \in Nat
  /\ copies \subseteq Threads /\ error \subseteq Threads
  /\ pc \in [Threads -> {"idle", "method", "extracting", "copying",
                       "releasing", "using"}]
  /\ from \in [Threads -> Capsules \cup {NoCapsule}]
  /\ by_method \subseteq Threads
  /\ raw \in [Threads -> Capsules \cup {NoCapsule}]

(* Every thread starts with a shared_ptr of its own.                       *)
Init ==
  /\ cap = [c \in Capsules |-> "none"]
  /\ heap = [c \in Capsules |-> "none"]
  /\ cap_refs = [c \in Capsules |-> 0]
  /\ held = [c \in Capsules |-> 0]
  /\ use_count = Cardinality(Threads)
  /\ copies = Threads
  /\ pc = [t \in Threads |-> "idle"]
  /\ from = [t \in Threads |-> NoCapsule]
  /\ by_method = {}
  /\ raw = [t \in Threads |-> NoCapsule]
  /\ error = {}
-----------------------------------------------------------------------------
GilFree == \A t \in Threads : pc[t] \in {"idle", "method", "using"}

\* Mutant: dropped by one that does not own it.
DropSharedPtrAgain(t) ==
  /\ pc[t] = "idle"
  /\ copies' = copies \ {t}
  /\ use_count' = use_count - 1
  /\ UNCHANGED <<python, pc, reads, error>>

(* C++ code drops its shared_ptr: no GIL needed.  (A thread has at most    *)
(* one: the bound on the model.)                                           *)
DropSharedPtr(t) ==
  /\ pc[t] = "idle"
  /\ t \in copies
  /\ copies' = copies \ {t}
  /\ use_count' = use_count - 1
  /\ UNCHANGED <<python, pc, reads, error>>

(* MakeSharedPtrCapsule: the unique_ptr gives the heap copy up only when   *)
(* there is a capsule to own it.                                           *)
Make(t, c) ==
  /\ GilFree /\ pc[t] = "idle" /\ t \notin error
  /\ t \in copies
  /\ cap[c] = "none"
  /\ cap' = [cap EXCEPT ![c] = "live"]
  /\ heap' = [heap EXCEPT ![c] = "owned"]
  /\ cap_refs' = [cap_refs EXCEPT ![c] = 1]
  /\ held' = [held EXCEPT ![c] = 1]
  /\ use_count' = use_count + 1
  /\ UNCHANGED <<copies, pc, reads, error>>

MakeFails(t) ==
  /\ GilFree /\ pc[t] = "idle" /\ t \notin error
  /\ t \in copies
  /\ error' = error \cup {t}
  /\ UNCHANGED <<python, use_count, copies, pc, reads>>

(* Python code handles the exception.                                      *)
HandleError(t) ==
  /\ GilFree /\ pc[t] = "idle"
  /\ t \in error
  /\ error' = error \ {t}
  /\ UNCHANGED <<python, use_count, copies, pc, reads>>

\* Mutant: no PyErr_Fetch first.
DestructorSeesPendingError(t) == t \in error

(* The destructor puts a pending error aside before it asks the capsule    *)
(* for its name and pointer, so that what PyErr_Occurred then reports is   *)
(* their own failure, on which it leaks the copy rather than terminate.    *)
DestructorSeesError(t) == FALSE

(* Py_DECREF of capsule c by thread t.                                     *)
DecRef(t, c) ==
  /\ cap_refs' = [cap_refs EXCEPT ![c] = @ - 1]
  /\ \/ /\ cap_refs[c] > 1
        /\ UNCHANGED <<cap, heap, use_count>>
     \/ /\ cap_refs[c] = 1
        /\ cap' = [cap EXCEPT ![c] = "freed"]
        /\ IF DestructorSeesError(t)
           THEN UNCHANGED <<heap, use_count>>
           ELSE /\ heap' = [heap EXCEPT ![c] = "deleted"]
                /\ use_count' = use_count - 1

(* Python code lets a capsule go, perhaps while an exception unwinds.      *)
DropCapsule(t, c) ==
  /\ GilFree
  /\ held[c] > 0
  /\ held' = [held EXCEPT ![c] = @ - 1]
  /\ DecRef(t, c)
  /\ UNCHANGED <<copies, pc, reads, error>>
-----------------------------------------------------------------------------
(* SharedPtrFromCapsule on a capsule: the caller's arguments keep it.      *)
FromCapsule(t, c) ==
  /\ GilFree /\ pc[t] = "idle" /\ t \notin error
  /\ t \notin copies
  /\ held[c] > 0
  /\ cap_refs' = [cap_refs EXCEPT ![c] = @ + 1]
  /\ from' = [from EXCEPT ![t] = c]
  /\ pc' = [pc EXCEPT ![t] = "extracting"]
  /\ UNCHANGED <<cap, heap, held, use_count, copies, by_method, raw, error>>

(* On anything else: its as-capsule method is called.                      *)
FromMethod(t) ==
  /\ GilFree /\ pc[t] = "idle" /\ t \notin error
  /\ t \notin copies
  /\ pc' = [pc EXCEPT ![t] = "method"]
  /\ UNCHANGED <<python, use_count, copies, reads, error>>

GetByMethod(t, c) ==
  /\ from' = [from EXCEPT ![t] = c]
  /\ by_method' = by_method \cup {t}
  /\ pc' = [pc EXCEPT ![t] = "extracting"]

(* The method returns a capsule that others hold too ...                   *)
MethodReturnsHeld(t, c) ==
  /\ GilFree /\ pc[t] = "method"
  /\ held[c] > 0
  /\ cap_refs' = [cap_refs EXCEPT ![c] = @ + 1]
  /\ GetByMethod(t, c)
  /\ UNCHANGED <<cap, heap, held, use_count, copies, raw, error>>

(* ... or one it has just made from some living shared_ptr, of which the   *)
(* caller has the only reference.                                          *)
MethodReturnsFresh(t, c) ==
  /\ GilFree /\ pc[t] = "method"
  /\ use_count > 0
  /\ cap[c] = "none"
  /\ cap' = [cap EXCEPT ![c] = "live"]
  /\ heap' = [heap EXCEPT ![c] = "owned"]
  /\ cap_refs' = [cap_refs EXCEPT ![c] = 1]
  /\ use_count' = use_count + 1
  /\ GetByMethod(t, c)
  /\ UNCHANGED <<held, copies, raw, error>>

(* It raises or does not exist, or what it returns is no capsule and is    *)
(* released.  The error is fetched, and the indicator left clear.          *)
MethodFails(t) ==
  /\ GilFree /\ pc[t] = "method"
  /\ pc' = [pc EXCEPT ![t] = "idle"]
  /\ UNCHANGED <<python, use_count, copies, reads, error>>

\* Mutant: no Py_XDECREF.
ReleaseForgotten(t) ==
  /\ from' = [from EXCEPT ![t] = NoCapsule]
  /\ UNCHANGED <<cap, heap, cap_refs, use_count>>

(* Py_XDECREF of the method's capsule, or the caller's arguments going.    *)
Release(t) ==
  /\ DecRef(t, from[t])
  /\ from' = [from EXCEPT ![t] = NoCapsule]

\* Mutant: the method's capsule is released before it is read.
ExtractAndRelease(t) ==
  /\ pc[t] = "extracting"
  /\ from[t] \notin Misnamed
  /\ DecRef(t, from[t])
  /\ pc' = [pc EXCEPT ![t] = "copying"]
  /\ UNCHANGED <<held, copies, reads, error>>

(* PyCapsule_GetPointer: a capsule of another name is let go, and the      *)
(* error cleared first.                                                    *)
Extract(t) ==
  /\ pc[t] = "extracting"
  /\ from[t] \notin Misnamed
  /\ pc' = [pc EXCEPT ![t] = "copying"]
  /\ UNCHANGED <<python, use_count, copies, reads, error>>

Leave(t) ==
  /\ pc' = [pc EXCEPT ![t] = "idle"]
  /\ by_method' = by_method \ {t}

RejectName(t) ==
  /\ pc[t] = "extracting"
  /\ from[t] \in Misnamed
  /\ Release(t)
  /\ Leave(t)
  /\ UNCHANGED <<held, copies, raw, error>>

\* Mutant: makes a shared_ptr from the raw pointer, with a count of its own.
CopyUncounted(t) ==
  /\ pc[t] = "copying"
  /\ copies' = copies \cup {t}
  /\ pc' = [pc EXCEPT ![t] = "releasing"]
  /\ UNCHANGED <<python, use_count, reads, error>>

(* auto sp = *static_cast<std::shared_ptr<T>*>(void_ptr): reads the heap   *)
(* copy that the capsule owns.                                             *)
Copy(t) ==
  /\ pc[t] = "copying"
  /\ copies' = copies \cup {t}
  /\ use_count' = use_count + 1
  /\ pc' = [pc EXCEPT ![t] = "releasing"]
  /\ UNCHANGED <<python, reads, error>>

Finish(t) ==
  /\ pc[t] = "releasing"
  /\ Release(t)
  /\ Leave(t)
  /\ UNCHANGED <<held, copies, raw, error>>

\* Mutant: a reference is released for a capsule argument as well.
RawReleasesAlways(t) == TRUE

(* Py_XDECREF in RawPtrFromCapsule: nullptr stands for the caller's        *)
(* capsule.                                                                *)
RawReleases(t) == t \in by_method

(* RawPtrFromCapsule: the method's capsule is released and the pointer     *)
(* used, for the duration of a function call.                              *)
ExtractRaw(t) ==
  /\ pc[t] = "extracting"
  /\ from[t] \notin Misnamed
  /\ raw' = [raw EXCEPT ![t] = from[t]]
  /\ pc' = [pc EXCEPT ![t] = "using"]
  /\ IF RawReleases(t) THEN Release(t)
     ELSE UNCHANGED <<cap, heap, cap_refs, use_count, from>>
  /\ UNCHANGED <<held, copies, by_method, error>>

EndUse(t) ==
  /\ GilFree /\ pc[t] = "using"
  /\ raw' = [raw EXCEPT ![t] = NoCapsule]
  /\ IF from[t] # NoCapsule THEN Release(t)
     ELSE UNCHANGED <<cap, heap, cap_refs, use_count, from>>
  /\ Leave(t)
  /\ UNCHANGED <<held, copies, error>>

Next ==
  \E t \in Threads :
    \/ DropSharedPtr(t) \/ MakeFails(t) \/ HandleError(t)
    \/ FromMethod(t) \/ MethodFails(t)
    \/ Extract(t) \/ RejectName(t) \/ Copy(t) \/ Finish(t)
    \/ ExtractRaw(t) \/ EndUse(t)
    \/ \E c \in Capsules :
         \/ Make(t, c) \/ DropCapsule(t, c) \/ FromCapsule(t, c)
         \/ MethodReturnsHeld(t, c) \/ MethodReturnsFresh(t, c)

Spec == Init /\ [][Next]_vars
-----------------------------------------------------------------------------
Readers(c) == {t \in Threads : from[t] = c}

(* Every Python reference to a capsule has exactly one owner: Python code  *)
(* or a lookup in progress.  No path leaks one and none gives one away     *)
(* twice.                                                                  *)
CapsuleRefsExact ==
  \A c \in Capsules : cap_refs[c] = held[c] + Cardinality(Readers(c))

(* The use count is the number of C++ owners plus the heap copies, and a   *)
(* capsule takes its copy with it exactly once -- also when it goes while  *)
(* an exception is pending.  Hence the pointee is deleted when, and only   *)
(* when, its last owner goes.                                              *)
UseCountExact ==
  /\ use_count = Cardinality(copies)
                   + Cardinality({c \in Capsules : heap[c] = "owned"})
  /\ \A c \in Capsules : heap[c] = "owned" <=> cap[c] = "live"

(* The copy in SharedPtrFromCapsule never reads a freed heap copy, even of *)
(* a capsule that nobody but the lookup holds.                             *)
CopyReadsLiveCapsule ==
  \A t \in Threads : pc[t] = "copying" =>
    from[t] # NoCapsule /\ cap[from[t]] = "live" /\ use_count > 0

(* A raw pointer from a capsule argument is good until the function that   *)
(* was called with it returns, whatever other threads let go meanwhile.    *)
(* (One from a method's capsule is only as good as what keeps that capsule *)
(* alive: the CAUTION above RawPtrFromCapsule.)                            *)
RawPtrIsLive ==
  \A t \in Threads : (pc[t] = "using" /\ t \notin by_method) =>
    cap[raw[t]] = "live" /\ heap[raw[t]] = "owned" /\ use_count > 0

(* Whichever way a shared_ptr travels, through C++ code, a capsule's heap  *)
(* copy or a method's short-lived capsule, it is shared ownership of one   *)
(* pointee: no step makes an owner out of nothing, or drops one that       *)
(* another thread has dropped already, and the use count reaches 0 when    *)
(* the last owner of either kind goes, never to leave it.                  *)
Shared == INSTANCE SharedOwners WITH
  Owners <- Threads \cup Capsules,
  owners <- copies \cup {c \in Capsules : heap[c] = "owned"},
  pointee <- IF use_count = 0 THEN "deleted" ELSE "alive"

ImplementsSharedOwners == Shared!Spec
=============================================================================
