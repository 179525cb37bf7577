------------------------ MODULE CapsuleTools_proofs ------------------------
(***************************************************************************)
(* Proofs about CapsuleTools, for any number of threads and capsules.  The *)
(* argument is a count on either side: a capsule lives exactly as long as  *)
(* somebody refers to it, and owns its heap copy exactly as long as it     *)
(* lives; the rest follows from where a lookup keeps its reference.        *)
(***************************************************************************)
EXTENDS CapsuleTools, FiniteSetTheorems, TLAPS

Heaps == {c \in Capsules : heap[c] = "owned"}

(* The reference count decides whether a capsule is there.                 *)
MemInv == UseCountExact /\ \A c \in Capsules : cap[c] = "live" <=> cap_refs[c] > 0

(* When a thread has a reference to the capsule it reads, when it may be   *)
(* about to get a shared_ptr, and where the raw pointer that it uses       *)
(* points.                                                                 *)
PcInv ==
  /\ \A t \in Threads :
       from[t] # NoCapsule <=>
         \/ pc[t] \in {"extracting", "copying", "releasing"}
         \/ pc[t] = "using" /\ t \notin by_method
  /\ \A t \in by_method : pc[t] \in {"extracting", "copying", "releasing", "using"}
  /\ \A t \in Threads : pc[t] \in {"method", "extracting", "copying"} => t \notin copies
  /\ \A t \in Threads : pc[t] = "using" /\ t \notin by_method => raw[t] = from[t]

IInv == TypeOK /\ MemInv /\ CapsuleRefsExact /\ PcInv

MemTypes ==
  /\ cap \in [Capsules -> {"none", "live", "freed"}]
  /\ heap \in [Capsules -> {"none", "owned", "deleted"}]
  /\ cap_refs \in [Capsules -> Nat]
  /\ use_count \in Nat

(* Sets whose members are counted.                                         *)
LEMMA CountedSets ==
  ASSUME TypeOK
  PROVE  /\ IsFiniteSet(copies) /\ Cardinality(copies) \in Nat
         /\ IsFiniteSet(Heaps) /\ Cardinality(Heaps) \in Nat
         /\ \A c \in Capsules : IsFiniteSet(Readers(c)) /\ Cardinality(Readers(c)) \in Nat
<1>1. copies \in SUBSET Threads /\ Heaps \in SUBSET Capsules
        /\ \A c \in Capsules : Readers(c) \in SUBSET Threads
  BY DEF TypeOK, Heaps, Readers
<1>2. IsFiniteSet(copies) /\ IsFiniteSet(Heaps)
  BY <1>1, FinitenessAssumption, FS_Subset
<1>3. \A c \in Capsules : IsFiniteSet(Readers(c))
  BY <1>1, FinitenessAssumption, FS_Subset
<1> QED BY <1>2, <1>3, FS_CardinalityType

LEMMA OneMore ==
  ASSUME NEW S, IsFiniteSet(S), NEW x, x \notin S
  PROVE  Cardinality(S \cup {x}) = Cardinality(S) + 1
BY FS_AddElement

LEMMA OneLess ==
  ASSUME NEW S, IsFiniteSet(S), NEW x, x \in S
  PROVE  /\ Cardinality(S \ {x}) = Cardinality(S) - 1
         /\ Cardinality(S) > 0
<1>1. Cardinality(S) \in Nat /\ Cardinality(S) # 0
  BY FS_CardinalityType, FS_EmptySet
<1> QED BY <1>1, FS_RemoveElement

-----------------------------------------------------------------------------
(* Memory.  A reference goes, and perhaps the capsule and its copy.        *)
LEMMA DecRefMem ==
  ASSUME TypeOK, MemInv, NEW t \in Threads, NEW c \in Capsules,
         cap_refs[c] > 0, DecRef(t, c), copies' = copies
  PROVE  MemInv' /\ MemTypes'
<1>1. cap_refs' = [cap_refs EXCEPT ![c] = @ - 1] /\ cap_refs[c] \in Nat
        /\ cap[c] = "live" /\ heap[c] = "owned"
  BY DEF DecRef, TypeOK, MemInv, UseCountExact
<1>2. CASE cap_refs[c] > 1 /\ UNCHANGED <<cap, heap, use_count>>
  BY <1>1, <1>2 DEF TypeOK, MemInv, UseCountExact, MemTypes
<1>3. CASE /\ cap_refs[c] = 1
           /\ cap' = [cap EXCEPT ![c] = "freed"]
           /\ heap' = [heap EXCEPT ![c] = "deleted"]
           /\ use_count' = use_count - 1
  <2>1. Heaps' = Heaps \ {c} /\ c \in Heaps
    BY <1>1, <1>3 DEF Heaps, TypeOK
  <2>2. Cardinality(Heaps') = Cardinality(Heaps) - 1 /\ Cardinality(Heaps) > 0
    BY <2>1, CountedSets, OneLess
  <2>3. use_count = Cardinality(copies) + Cardinality(Heaps)
    BY DEF MemInv, UseCountExact, Heaps
  <2>4. use_count' = Cardinality(copies') + Cardinality(Heaps') /\ use_count' \in Nat
    BY <1>3, <2>2, <2>3, CountedSets
  <2>5. MemTypes'
    BY <1>1, <1>3, <2>4 DEF TypeOK, MemTypes
  <2>6. \A d \in Capsules : (heap'[d] = "owned" <=> cap'[d] = "live")
                              /\ (cap'[d] = "live" <=> cap_refs'[d] > 0)
    BY <1>1, <1>3 DEF TypeOK, MemInv, UseCountExact
  <2> QED BY <2>4, <2>5, <2>6 DEF MemInv, UseCountExact, Heaps
<1> QED BY <1>2, <1>3 DEF DecRef, DestructorSeesError

(* A capsule comes into being with its copy.                               *)
LEMMA NewMem ==
  ASSUME TypeOK, MemInv, NEW c \in Capsules, cap[c] = "none",
         cap' = [cap EXCEPT ![c] = "live"], heap' = [heap EXCEPT ![c] = "owned"],
         cap_refs' = [cap_refs EXCEPT ![c] = 1], use_count' = use_count + 1,
         copies' = copies
  PROVE  MemInv' /\ MemTypes' /\ cap_refs[c] = 0
<1>1. heap[c] # "owned" /\ cap_refs[c] = 0
  BY DEF TypeOK, MemInv, UseCountExact
<1>2. Heaps' = Heaps \cup {c} /\ c \notin Heaps
  BY <1>1 DEF Heaps, TypeOK
<1>3. Cardinality(Heaps') = Cardinality(Heaps) + 1
  BY <1>2, CountedSets, OneMore
<1>4. use_count = Cardinality(copies) + Cardinality(Heaps)
  BY DEF MemInv, UseCountExact, Heaps
<1>5. use_count' = Cardinality(copies') + Cardinality(Heaps') /\ use_count' \in Nat
  BY <1>3, <1>4, CountedSets
<1>6. MemTypes'
  BY <1>5 DEF TypeOK, MemTypes
<1>7. \A d \in Capsules : (heap'[d] = "owned" <=> cap'[d] = "live")
                            /\ (cap'[d] = "live" <=> cap_refs'[d] > 0)
  BY DEF TypeOK, MemInv, UseCountExact
<1> QED BY <1>1, <1>5, <1>6, <1>7 DEF MemInv, UseCountExact, Heaps

LEMMA IncRefMem ==
  ASSUME TypeOK, MemInv, NEW c \in Capsules, cap_refs[c] > 0,
         cap_refs' = [cap_refs EXCEPT ![c] = @ + 1],
         UNCHANGED <<cap, heap, use_count, copies>>
  PROVE  MemInv' /\ MemTypes'
BY DEF TypeOK, MemInv, UseCountExact, MemTypes

(* C++ gets a shared_ptr, and lets one go.                                 *)
LEMMA CopiesMem ==
  ASSUME TypeOK, MemInv, NEW t \in Threads, UNCHANGED <<cap, heap, cap_refs>>,
         \/ t \notin copies /\ copies' = copies \cup {t} /\ use_count' = use_count + 1
         \/ t \in copies /\ copies' = copies \ {t} /\ use_count' = use_count - 1
  PROVE  MemInv' /\ MemTypes'
<1>1. use_count = Cardinality(copies) + Cardinality(Heaps) /\ Heaps' = Heaps
  BY DEF MemInv, UseCountExact, Heaps
<1>2. use_count' = Cardinality(copies') + Cardinality(Heaps) /\ use_count' \in Nat
  <2>1. CASE t \notin copies /\ copies' = copies \cup {t} /\ use_count' = use_count + 1
    <3>1. Cardinality(copies') = Cardinality(copies) + 1
      BY <2>1, CountedSets, OneMore
    <3> QED BY <1>1, <2>1, <3>1, CountedSets
  <2>2. CASE t \in copies /\ copies' = copies \ {t} /\ use_count' = use_count - 1
    <3>1. Cardinality(copies') = Cardinality(copies) - 1 /\ Cardinality(copies) > 0
      BY <2>2, CountedSets, OneLess
    <3> QED BY <1>1, <2>2, <3>1, CountedSets
  <2> QED BY <2>1, <2>2
<1> QED BY <1>1, <1>2 DEF TypeOK, MemInv, UseCountExact, MemTypes, Heaps

LEMMA SameMem ==
  ASSUME TypeOK, MemInv, UNCHANGED <<cap, heap, cap_refs, use_count, copies>>
  PROVE  MemInv' /\ MemTypes'
BY DEF TypeOK, MemInv, UseCountExact, MemTypes
-----------------------------------------------------------------------------
(* References.  A lookup takes one ...                                     *)
LEMMA ReaderComes ==
  ASSUME TypeOK, NEW t \in Threads, NEW c \in Capsules, from[t] = NoCapsule,
         from' = [from EXCEPT ![t] = c]
  PROVE  /\ Cardinality(Readers(c)') = Cardinality(Readers(c)) + 1
         /\ \A d \in Capsules \ {c} : Readers(d)' = Readers(d)
<1>1. Readers(c)' = Readers(c) \cup {t} /\ t \notin Readers(c)
  BY CapsulesAssumption DEF Readers, TypeOK
<1>2. \A d \in Capsules \ {c} : Readers(d)' = Readers(d)
  BY CapsulesAssumption DEF Readers, TypeOK
<1> QED BY <1>1, <1>2, CountedSets, OneMore

(* ... and gives it back.                                                  *)
LEMMA ReaderGoes ==
  ASSUME TypeOK, NEW t \in Threads, NEW c \in Capsules, from[t] = c,
         from' = [from EXCEPT ![t] = NoCapsule]
  PROVE  /\ Cardinality(Readers(c)') = Cardinality(Readers(c)) - 1
         /\ Cardinality(Readers(c)) > 0
         /\ \A d \in Capsules \ {c} : Readers(d)' = Readers(d)
<1>1. Readers(c)' = Readers(c) \ {t} /\ t \in Readers(c)
  BY CapsulesAssumption DEF Readers, TypeOK
<1>2. \A d \in Capsules \ {c} : Readers(d)' = Readers(d)
  BY CapsulesAssumption DEF Readers, TypeOK
<1> QED BY <1>1, <1>2, CountedSets, OneLess

(* What is read or held is there.                                          *)
LEMMA ReadIsLive ==
  ASSUME IInv, NEW c \in Capsules, held[c] > 0 \/ \E t \in Threads : from[t] = c
  PROVE  cap_refs[c] > 0 /\ cap[c] = "live" /\ heap[c] = "owned" /\ use_count > 0
<1> USE DEF IInv
<1>1. held[c] \in Nat /\ Cardinality(Readers(c)) \in Nat
  BY CountedSets DEF TypeOK
<1>2. held[c] > 0 \/ Cardinality(Readers(c)) > 0
  <2>1. ASSUME NEW t \in Threads, from[t] = c PROVE Cardinality(Readers(c)) > 0
    BY <2>1, CountedSets, OneLess DEF Readers
  <2> QED BY <2>1
<1>3. cap_refs[c] > 0
  BY <1>1, <1>2 DEF CapsuleRefsExact
<1>4. cap[c] = "live" /\ heap[c] = "owned"
  BY <1>3 DEF MemInv, UseCountExact
<1>5. Cardinality(Heaps) > 0
  BY <1>4, CountedSets, OneLess DEF Heaps
<1>6. use_count = Cardinality(copies) + Cardinality(Heaps)
  BY DEF MemInv, UseCountExact, Heaps
<1> QED BY <1>3, <1>4, <1>5, <1>6, CountedSets

(* The end of a lookup, or of the use of an argument.                      *)
LEMMA ReleaseKeeps ==
  ASSUME IInv, NEW t \in Threads, from[t] # NoCapsule, Release(t),
         held' = held, copies' = copies
  PROVE  /\ MemInv' /\ MemTypes' /\ CapsuleRefsExact'
         /\ from' \in [Threads -> Capsules \cup {NoCapsule}]
<1> USE DEF IInv
<1> PICK c \in Capsules : c = from[t]
  BY DEF TypeOK
<1>1. from[t] = c /\ from' = [from EXCEPT ![t] = NoCapsule] /\ DecRef(t, c)
  BY DEF Release
<1>2. cap_refs[c] > 0
  BY <1>1, ReadIsLive
<1>3. MemInv' /\ MemTypes'
  BY <1>1, <1>2, DecRefMem
<1>4. CapsuleRefsExact'
  <2>1. cap_refs' = [cap_refs EXCEPT ![c] = @ - 1]
    BY <1>1 DEF DecRef
  <2>2. /\ Cardinality(Readers(c)') = Cardinality(Readers(c)) - 1
        /\ \A d \in Capsules \ {c} : Readers(d)' = Readers(d)
    BY <1>1, ReaderGoes
  <2>3. held[c] \in Nat /\ Cardinality(Readers(c)) \in Nat
    BY <1>1, CountedSets DEF TypeOK
  <2> QED BY <1>1, <2>1, <2>2, <2>3 DEF CapsuleRefsExact, TypeOK
<1>5. from' \in [Threads -> Capsules \cup {NoCapsule}]
  BY <1>1 DEF TypeOK
<1> QED BY <1>3, <1>4, <1>5

LEMMA SameRefs ==
  ASSUME CapsuleRefsExact, UNCHANGED <<cap_refs, held, from>>
  PROVE  CapsuleRefsExact'
BY DEF CapsuleRefsExact, Readers
-----------------------------------------------------------------------------
LEMMA InitIInv == Init => IInv
<1> SUFFICES ASSUME Init PROVE IInv
  OBVIOUS
<1>1. TypeOK
  BY FinitenessAssumption, FS_CardinalityType DEF Init, TypeOK
<1>2. MemInv
  <2>1. Heaps = {}
    BY DEF Init, Heaps
  <2>2. use_count = Cardinality(copies) + Cardinality(Heaps)
    BY <2>1, <1>1, CountedSets, FS_EmptySet DEF Init
  <2> QED BY <2>2 DEF Init, MemInv, UseCountExact, Heaps
<1>3. CapsuleRefsExact
  <2>1. \A c \in Capsules : Readers(c) = {}
    BY CapsulesAssumption DEF Init, Readers
  <2> QED BY <2>1, FS_EmptySet DEF Init, CapsuleRefsExact
<1>4. PcInv
  BY DEF Init, PcInv
<1> QED BY <1>1, <1>2, <1>3, <1>4 DEF IInv

(* C++ code that makes capsules and drops shared_ptrs, and errors.         *)
LEMMA OwnerIInv ==
  ASSUME IInv, NEW t \in Threads,
         DropSharedPtr(t) \/ MakeFails(t) \/ HandleError(t)
  PROVE  IInv'
<1> USE DEF IInv, DropSharedPtr, MakeFails, HandleError, python, reads
<1>1. MemInv' /\ MemTypes'
  BY CopiesMem, SameMem
<1>2. CapsuleRefsExact'
  BY SameRefs
<1>3. TypeOK'
  BY <1>1 DEF TypeOK, MemTypes
<1>4. PcInv'
  BY DEF PcInv, TypeOK
<1> QED BY <1>1, <1>2, <1>3, <1>4

LEMMA MakeIInv ==
  ASSUME IInv, NEW t \in Threads, NEW c \in Capsules, Make(t, c)
  PROVE  IInv'
<1> USE DEF IInv, Make, reads
<1>1. MemInv' /\ MemTypes' /\ cap_refs[c] = 0
  BY NewMem
<1>2. held[c] = 0 /\ Cardinality(Readers(c)) = 0
  BY <1>1, CountedSets DEF CapsuleRefsExact, TypeOK
<1>3. CapsuleRefsExact'
  <2>1. \A d \in Capsules : Readers(d)' = Readers(d)
    BY DEF Readers
  <2> QED BY <1>2, <2>1 DEF CapsuleRefsExact, TypeOK
<1>4. TypeOK'
  BY <1>1 DEF TypeOK, MemTypes
<1>5. PcInv'
  BY DEF PcInv
<1> QED BY <1>1, <1>3, <1>4, <1>5

LEMMA DropCapsuleIInv ==
  ASSUME IInv, NEW t \in Threads, NEW c \in Capsules, DropCapsule(t, c)
  PROVE  IInv'
<1> USE DEF IInv, DropCapsule, reads
<1>1. cap_refs[c] > 0
  BY ReadIsLive
<1>2. MemInv' /\ MemTypes'
  BY <1>1, DecRefMem
<1>3. held[c] \in Nat /\ held' = [held EXCEPT ![c] = @ - 1] /\ held' \in [Capsules -> Nat]
  BY DEF TypeOK
<1>4. CapsuleRefsExact'
  <2>1. \A d \in Capsules : Readers(d)' = Readers(d)
    BY DEF Readers
  <2>2. cap_refs' = [cap_refs EXCEPT ![c] = @ - 1]
    BY DEF DecRef
  <2> QED BY <1>3, <2>1, <2>2, CountedSets DEF CapsuleRefsExact, TypeOK
<1>5. TypeOK'
  BY <1>2, <1>3 DEF TypeOK, MemTypes
<1>6. PcInv'
  BY DEF PcInv
<1> QED BY <1>2, <1>4, <1>5, <1>6

(* A lookup gets hold of a capsule that others hold, or of a new one.      *)
LEMMA GetIInv ==
  ASSUME IInv, NEW t \in Threads, NEW c \in Capsules,
         FromCapsule(t, c) \/ MethodReturnsHeld(t, c) \/ MethodReturnsFresh(t, c)
  PROVE  IInv'
<1> USE DEF IInv
<1>1. /\ from[t] = NoCapsule /\ from' = [from EXCEPT ![t] = c]
      /\ pc[t] \in {"idle", "method"}
      /\ pc' = [pc EXCEPT ![t] = "extracting"]
      /\ t \notin copies
      /\ by_method' = by_method \/ by_method' = by_method \cup {t}
      /\ UNCHANGED <<held, copies, raw, error>>
  BY DEF FromCapsule, MethodReturnsHeld, MethodReturnsFresh, GetByMethod, PcInv
<1>2. /\ MemInv' /\ MemTypes'
      /\ cap_refs'= [cap_refs EXCEPT ![c] = @ + 1]
  <2>1. CASE FromCapsule(t, c) \/ MethodReturnsHeld(t, c)
    <3>1. cap_refs[c] > 0
      BY <2>1, ReadIsLive DEF FromCapsule, MethodReturnsHeld
    <3> QED BY <2>1, <3>1, IncRefMem DEF FromCapsule, MethodReturnsHeld
  <2>2. CASE MethodReturnsFresh(t, c)
    <3>1. MemInv' /\ MemTypes' /\ cap_refs[c] = 0
      BY <2>2, NewMem DEF MethodReturnsFresh
    <3> QED BY <2>2, <3>1 DEF MethodReturnsFresh
  <2> QED BY <2>1, <2>2
<1>3. CapsuleRefsExact'
  <2>1. /\ Cardinality(Readers(c)') = Cardinality(Readers(c)) + 1
        /\ \A d \in Capsules \ {c} : Readers(d)' = Readers(d)
    BY <1>1, ReaderComes
  <2>2. held[c] \in Nat /\ Cardinality(Readers(c)) \in Nat
    BY CountedSets DEF TypeOK
  <2> QED BY <1>1, <1>2, <2>1, <2>2 DEF CapsuleRefsExact, TypeOK
<1>4. TypeOK'
  BY <1>1, <1>2 DEF TypeOK, MemTypes
<1>5. PcInv'
  BY <1>1, CapsulesAssumption DEF PcInv, TypeOK
<1> QED BY <1>2, <1>3, <1>4, <1>5

(* Steps on the way that touch no count.                                   *)
LEMMA WayIInv ==
  ASSUME IInv, NEW t \in Threads, FromMethod(t) \/ MethodFails(t) \/ Extract(t)
  PROVE  IInv'
<1> USE DEF IInv, FromMethod, MethodFails, Extract, python, reads
<1>1. MemInv' /\ MemTypes' /\ CapsuleRefsExact'
  BY SameMem, SameRefs
<1>2. TypeOK'
  BY <1>1 DEF TypeOK, MemTypes
<1>3. PcInv'
  BY DEF PcInv, TypeOK
<1> QED BY <1>1, <1>2, <1>3

LEMMA CopyIInv ==
  ASSUME IInv, NEW t \in Threads, Copy(t)
  PROVE  IInv'
<1> USE DEF IInv, Copy, python, reads
<1>1. t \notin copies
  BY DEF PcInv
<1>2. MemInv' /\ MemTypes' /\ CapsuleRefsExact'
  BY <1>1, CopiesMem, SameRefs
<1>3. TypeOK'
  BY <1>2 DEF TypeOK, MemTypes
<1>4. PcInv'
  BY DEF PcInv, TypeOK
<1> QED BY <1>2, <1>3, <1>4

LEMMA EndIInv ==
  ASSUME IInv, NEW t \in Threads, RejectName(t) \/ Finish(t)
  PROVE  IInv'
<1> USE DEF IInv, RejectName, Finish, Leave
<1>1. from[t] # NoCapsule /\ Release(t)
        /\ from' = [from EXCEPT ![t] = NoCapsule]
  BY DEF PcInv, Release
<1>2. /\ MemInv' /\ MemTypes' /\ CapsuleRefsExact'
      /\ from' \in [Threads -> Capsules \cup {NoCapsule}]
  BY <1>1, ReleaseKeeps
<1>3. TypeOK'
  BY <1>2 DEF TypeOK, MemTypes
<1>4. PcInv'
  BY <1>1 DEF PcInv, TypeOK
<1> QED BY <1>2, <1>3, <1>4

(* A raw pointer is taken, and no longer used.                             *)
LEMMA RawIInv ==
  ASSUME IInv, NEW t \in Threads, ExtractRaw(t) \/ EndUse(t)
  PROVE  IInv'
<1> USE DEF IInv
<1>1. CASE ExtractRaw(t)
  <2> USE <1>1 DEF ExtractRaw, RawReleases
  <2>1. from[t] \in Capsules /\ from[t] # NoCapsule
    BY CapsulesAssumption DEF PcInv, TypeOK
  <2>2. /\ MemInv' /\ MemTypes' /\ CapsuleRefsExact'
        /\ from' \in [Threads -> Capsules \cup {NoCapsule}]
    BY <2>1, ReleaseKeeps, SameMem, SameRefs DEF TypeOK
  <2>3. TypeOK'
    BY <2>1, <2>2 DEF TypeOK, MemTypes
  <2>4. from' = IF t \in by_method THEN [from EXCEPT ![t] = NoCapsule] ELSE from
    BY DEF Release
  <2>5. PcInv'
    BY <2>1, <2>4 DEF PcInv, TypeOK
  <2> QED BY <2>2, <2>3, <2>5
<1>2. CASE EndUse(t)
  <2> USE <1>2 DEF EndUse, Leave
  <2>1. /\ MemInv' /\ MemTypes' /\ CapsuleRefsExact'
        /\ from' \in [Threads -> Capsules \cup {NoCapsule}]
    BY ReleaseKeeps, SameMem, SameRefs DEF TypeOK
  <2>2. from' = [from EXCEPT ![t] = NoCapsule]
    BY DEF Release, TypeOK
  <2>3. TypeOK'
    BY <2>1 DEF TypeOK, MemTypes
  <2>4. PcInv'
    BY <2>2 DEF PcInv, TypeOK
  <2> QED BY <2>1, <2>3, <2>4
<1> QED BY <1>1, <1>2

LEMMA NextIInv == IInv /\ [Next]_vars => IInv'
<1>1. IInv /\ UNCHANGED vars => IInv'
  <2> SUFFICES ASSUME IInv, UNCHANGED vars PROVE IInv'
    OBVIOUS
  <2> USE DEF IInv, vars, python, reads
  <2>1. MemInv' /\ CapsuleRefsExact'
    BY SameMem, SameRefs
  <2> QED BY <2>1 DEF TypeOK, PcInv
<1> QED BY <1>1, OwnerIInv, MakeIInv, DropCapsuleIInv, GetIInv, WayIInv, CopyIInv,
           EndIInv, RawIInv DEF Next

THEOREM Invariance == Spec => []IInv
BY InitIInv, NextIInv, PTL DEF Spec

(* Counts do not become negative, in whatever order capsules, copies and   *)
(* lookups come and go.                                                    *)
THEOREM TypeCorrect == Spec => []TypeOK
<1>1. IInv => TypeOK
  BY DEF IInv
<1> QED BY <1>1, Invariance, PTL

(* Every reference to a capsule has an owner, on the error paths too.      *)
THEOREM CapsuleRefsCounted == Spec => []CapsuleRefsExact
<1>1. IInv => CapsuleRefsExact
  BY DEF IInv
<1> QED BY <1>1, Invariance, PTL

(* The use count of the pointee is the number of its owners.               *)
THEOREM UseCounted == Spec => []UseCountExact
<1>1. IInv => UseCountExact
  BY DEF IInv, MemInv
<1> QED BY <1>1, Invariance, PTL

(* SharedPtrFromCapsule copies from a heap copy that is there.             *)
THEOREM CopiesReadLive == Spec => []CopyReadsLiveCapsule
<1>1. IInv => CopyReadsLiveCapsule
  <2> SUFFICES ASSUME IInv, NEW t \in Threads, pc[t] = "copying"
               PROVE  from[t] # NoCapsule /\ cap[from[t]] = "live" /\ use_count > 0
    BY DEF CopyReadsLiveCapsule
  <2>1. from[t] # NoCapsule /\ from[t] \in Capsules
    BY DEF IInv, PcInv, TypeOK
  <2> QED BY <2>1, ReadIsLive
<1> QED BY <1>1, Invariance, PTL

(* A raw pointer from a capsule argument is good while it is used.         *)
THEOREM RawPtrsLive == Spec => []RawPtrIsLive
<1>1. IInv => RawPtrIsLive
  <2> SUFFICES ASSUME IInv, NEW t \in Threads, pc[t] = "using", t \notin by_method
               PROVE  cap[raw[t]] = "live" /\ heap[raw[t]] = "owned" /\ use_count > 0
    BY DEF RawPtrIsLive
  <2>1. raw[t] = from[t] /\ from[t] \in Capsules
    BY DEF IInv, PcInv, TypeOK
  <2> QED BY <2>1, ReadIsLive
<1> QED BY <1>1, Invariance, PTL
-----------------------------------------------------------------------------
(* The refinement of SharedOwners.                                         *)
SharedBy == copies \cup Heaps

OwnersInv ==
  /\ use_count = 0 <=> SharedBy = {}
  /\ copies \cap Heaps = {} /\ SharedBy \subseteq Threads \cup Capsules

LEMMA OwnersCounted == IInv => OwnersInv
<1> SUFFICES ASSUME IInv PROVE OwnersInv
  OBVIOUS
<1>1. use_count = Cardinality(copies) + Cardinality(Heaps)
  BY DEF IInv, MemInv, UseCountExact, Heaps
<1>2. Cardinality(copies) = 0 <=> copies = {}
  BY CountedSets, FS_EmptySet DEF IInv
<1>3. Cardinality(Heaps) = 0 <=> Heaps = {}
  BY CountedSets, FS_EmptySet DEF IInv
<1>4. Cardinality(copies) \in Nat /\ Cardinality(Heaps) \in Nat
  BY CountedSets DEF IInv
<1>5. copies \subseteq Threads /\ Heaps \subseteq Capsules
  BY DEF IInv, TypeOK, Heaps
<1> QED BY <1>1, <1>2, <1>3, <1>4, <1>5, ThreadsAssumption DEF OwnersInv, SharedBy

LEMMA OwnersCountedNext == IInv' => OwnersInv'
BY OwnersCounted, PTL

(* What the owners do is all that the abstract state sees.                 *)
LEMMA OwnerComes ==
  ASSUME IInv, IInv', NEW o \in Threads \cup Capsules,
         SharedBy # {}, o \notin SharedBy, SharedBy' = SharedBy \cup {o}
  PROVE  Shared!Next
<1>1. use_count # 0 /\ use_count' # 0
  BY OwnersCounted, OwnersCountedNext DEF OwnersInv
<1>2. Shared!Share(o)
  BY <1>1 DEF Shared!Share, SharedBy, Heaps
<1> QED BY <1>2 DEF Shared!Next

LEMMA OwnerGoes ==
  ASSUME IInv, IInv', NEW o \in SharedBy, SharedBy' = SharedBy \ {o}
  PROVE  Shared!Next
<1>1. use_count # 0 /\ (use_count' = 0 <=> SharedBy = {o})
  BY OwnersCounted, OwnersCountedNext DEF OwnersInv
<1>2. Shared!Drop(o)
  BY <1>1 DEF Shared!Drop, SharedBy, Heaps
<1> QED BY <1>2, OwnersCounted DEF Shared!Next, OwnersInv

LEMMA OwnersStay ==
  ASSUME IInv, IInv', SharedBy' = SharedBy
  PROVE  UNCHANGED Shared!vars
<1>1. use_count' = 0 <=> use_count = 0
  BY OwnersCounted, OwnersCountedNext DEF OwnersInv
<1> QED BY <1>1 DEF Shared!vars, SharedBy, Heaps

LEMMA DecRefShared ==
  ASSUME IInv, IInv', NEW t \in Threads, NEW c \in Capsules, DecRef(t, c), copies' = copies
  PROVE  [Shared!Next]_(Shared!vars)
<1>1. CASE heap' = heap
  BY <1>1, OwnersStay DEF SharedBy, Heaps
<1>2. CASE cap_refs[c] = 1 /\ heap' = [heap EXCEPT ![c] = "deleted"]
  <2>1. heap[c] = "owned"
    BY <1>2 DEF IInv, MemInv, UseCountExact
  <2>2. Heaps' = Heaps \ {c} /\ c \in Heaps
    BY <1>2, <2>1 DEF Heaps, IInv, TypeOK
  <2>3. c \in SharedBy /\ SharedBy' = SharedBy \ {c}
    BY <2>2, OwnersCounted DEF OwnersInv, SharedBy
  <2> QED BY <2>3, OwnerGoes
<1> QED BY <1>1, <1>2 DEF DecRef, DestructorSeesError

LEMMA NewShared ==
  ASSUME IInv, IInv', NEW c \in Capsules, cap[c] = "none", use_count > 0,
         heap' = [heap EXCEPT ![c] = "owned"], copies' = copies
  PROVE  Shared!Next
<1>1. c \notin Heaps /\ Heaps' = Heaps \cup {c}
  BY DEF Heaps, IInv, TypeOK, MemInv, UseCountExact
<1>2. c \notin copies
  BY ThreadsAssumption DEF IInv, TypeOK
<1>3. SharedBy # {} /\ c \notin SharedBy /\ SharedBy' = SharedBy \cup {c}
  BY <1>1, <1>2, OwnersCounted DEF OwnersInv, SharedBy
<1> QED BY <1>3, OwnerComes

(* A step of the model is a step of shared ownership, or none.              *)
LEMMA SharedStep == IInv /\ IInv' /\ [Next]_vars => [Shared!Next]_(Shared!vars)
<1> SUFFICES ASSUME IInv, IInv', Next PROVE [Shared!Next]_(Shared!vars)
  BY DEF vars, python, Shared!vars
<1> PICK t \in Threads :
      \/ DropSharedPtr(t) \/ MakeFails(t) \/ HandleError(t)
      \/ FromMethod(t) \/ MethodFails(t)
      \/ Extract(t) \/ RejectName(t) \/ Copy(t) \/ Finish(t)
      \/ ExtractRaw(t) \/ EndUse(t)
      \/ \E c \in Capsules :
           \/ Make(t, c) \/ DropCapsule(t, c) \/ FromCapsule(t, c)
           \/ MethodReturnsHeld(t, c) \/ MethodReturnsFresh(t, c)
  BY DEF Next
<1>1. CASE DropSharedPtr(t)
  <2>1. t \in copies /\ copies' = copies \ {t} /\ heap' = heap
    BY <1>1 DEF DropSharedPtr, python
  <2>2. t \in SharedBy /\ SharedBy' = SharedBy \ {t}
    BY <2>1, OwnersCounted DEF OwnersInv, SharedBy, Heaps
  <2> QED BY <2>2, OwnerGoes
<1>2. CASE Copy(t)
  <2>1. t \notin copies /\ copies' = copies \cup {t} /\ heap' = heap
    BY <1>2 DEF Copy, python, IInv, PcInv
  <2>2. from[t] \in Capsules
    BY <1>2 DEF Copy, IInv, PcInv, TypeOK
  <2>3. use_count > 0
    BY <2>2, ReadIsLive
  <2>4. t \notin Heaps
    BY ThreadsAssumption DEF Heaps
  <2>5. SharedBy # {} /\ t \notin SharedBy /\ SharedBy' = SharedBy \cup {t}
    BY <2>1, <2>3, <2>4, OwnersCounted DEF OwnersInv, SharedBy, Heaps
  <2> QED BY <2>5, OwnerComes
<1>3. CASE \E c \in Capsules : Make(t, c) \/ MethodReturnsFresh(t, c)
  <2>1. PICK c \in Capsules : Make(t, c) \/ MethodReturnsFresh(t, c)
    BY <1>3
  <2>2. use_count > 0
    <3>1. t \in copies => use_count # 0
      BY OwnersCounted DEF OwnersInv, SharedBy
    <3> QED BY <2>1, <3>1 DEF Make, MethodReturnsFresh, IInv, TypeOK
  <2> QED BY <2>1, <2>2, NewShared DEF Make, MethodReturnsFresh
<1>4. CASE \E c \in Capsules : DropCapsule(t, c)
  BY <1>4, DecRefShared DEF DropCapsule
<1>5. CASE RejectName(t) \/ Finish(t)
  <2>1. from[t] \in Capsules
    BY <1>5 DEF RejectName, Finish, IInv, PcInv, TypeOK
  <2> QED BY <1>5, <2>1, DecRefShared DEF RejectName, Finish, Release
<1>6. CASE ExtractRaw(t) \/ EndUse(t)
  <2>1. copies' = copies /\ (heap' = heap \/ (from[t] # NoCapsule /\ Release(t)))
    BY <1>6, CapsulesAssumption DEF ExtractRaw, EndUse, RawReleases, IInv, PcInv, TypeOK
  <2>2. CASE heap' = heap
    BY <2>1, <2>2, OwnersStay DEF SharedBy, Heaps
  <2>3. CASE from[t] # NoCapsule /\ Release(t)
    <3>1. from[t] \in Capsules
      BY <2>3 DEF IInv, TypeOK
    <3> QED BY <2>1, <2>3, <3>1, DecRefShared DEF Release
  <2> QED BY <2>1, <2>2, <2>3
<1>7. CASE \/ MakeFails(t) \/ HandleError(t) \/ FromMethod(t) \/ MethodFails(t) \/ Extract(t)
           \/ \E c \in Capsules : FromCapsule(t, c) \/ MethodReturnsHeld(t, c)
  <2>1. copies' = copies /\ heap' = heap
    BY <1>7
    DEF MakeFails, HandleError, FromMethod, MethodFails, Extract, FromCapsule, MethodReturnsHeld, python
  <2> QED BY <2>1, OwnersStay DEF SharedBy, Heaps
<1> QED BY <1>1, <1>2, <1>3, <1>4, <1>5, <1>6, <1>7

(* Shared ownership is what it says, for any number of threads and         *)
(* capsules: an owner comes only from an owner, the pointee goes with the  *)
(* last one, and never comes back.                                         *)
THEOREM SharedOwnersImplemented == Spec => ImplementsSharedOwners
<1>1. Init => Shared!Init
  <2> SUFFICES ASSUME Init PROVE Shared!Init
    OBVIOUS
  <2>1. Cardinality(Threads) # 0
    BY FinitenessAssumption, ThreadsAssumption, FS_EmptySet
  <2>2. {c \in Capsules : heap[c] = "owned"} = {}
    BY DEF Init
  <2>3. copies \cup {c \in Capsules : heap[c] = "owned"} = Threads
    BY <2>2 DEF Init
  <2>4. Threads \in (SUBSET (Threads \cup Capsules)) \ {{}}
    BY ThreadsAssumption
  <2> QED BY <2>1, <2>3, <2>4 DEF Init, Shared!Init
<1> QED BY <1>1, SharedStep, Invariance, PTL DEF Spec, ImplementsSharedOwners, Shared!Spec

(* A pointee is deleted once: when the use count has reached 0, no capsule,  *)
(* no as-capsule method and no thread brings an owner back.                  *)
THEOREM DeletedForGood == Spec => [][use_count = 0 => use_count' = 0]_vars
<1>1. ASSUME IInv, IInv', [Next]_vars, use_count = 0 PROVE use_count' = 0
  <2>1. SharedBy = {}
    BY <1>1, OwnersCounted DEF OwnersInv
  <2>2. ~Shared!Next
    BY <2>1 DEF Shared!Next, Shared!Share, Shared!Drop, SharedBy, Heaps
  <2>3. SharedBy' = {}
    BY <1>1, <2>1, <2>2, SharedStep DEF Shared!vars, SharedBy, Heaps
  <2> QED BY <1>1, <2>3, OwnersCountedNext DEF OwnersInv
<1>2. IInv /\ IInv' /\ [Next]_vars => [use_count = 0 => use_count' = 0]_vars
  BY <1>1
<1> QED BY <1>2, Invariance, PTL DEF Spec

(* The two counts are tied: whoever has a Python reference to any of the     *)
(* capsules, Python code or a lookup on its way, has a living pointee,       *)
(* although no C++ code may own it any more.                                 *)
THEOREM CapsulesKeepPointee ==
  Spec => [](\A c \in Capsules : held[c] > 0 \/ Readers(c) # {} => use_count > 0)
<1>1. IInv => \A c \in Capsules : held[c] > 0 \/ Readers(c) # {} => use_count > 0
  <2> SUFFICES ASSUME IInv, NEW c \in Capsules, held[c] > 0 \/ Readers(c) # {}
               PROVE  use_count > 0
    OBVIOUS
  <2> QED BY ReadIsLive DEF Readers
<1> QED BY <1>1, Invariance, PTL

(* Nothing happens to a capsule that is gone: its count never moves again, *)
(* its destructor does not run twice, and its heap copy is not deleted     *)
(* again, whichever of the ways out of a lookup let it go.                 *)
Gone(c) == cap[c] = "freed"
StaysGone(c) == cap'[c] = cap[c] /\ heap'[c] = heap[c] /\ cap_refs'[c] = cap_refs[c]

LEMMA DecRefStaysGone ==
  ASSUME IInv, NEW t \in Threads, NEW c \in Capsules, NEW d \in Capsules,
         DecRef(t, c), cap_refs[c] > 0, Gone(d)
  PROVE  StaysGone(d)
<1>1. c # d
  BY DEF IInv, MemInv, Gone
<1> QED BY <1>1 DEF DecRef, StaysGone, IInv, TypeOK

THEOREM CapsulesGoForGood == Spec => [][\A c \in Capsules : Gone(c) => StaysGone(c)]_vars
<1>1. ASSUME IInv, Next, NEW d \in Capsules, Gone(d) PROVE StaysGone(d)
  <2> PICK t \in Threads :
        \/ DropSharedPtr(t) \/ MakeFails(t) \/ HandleError(t)
        \/ FromMethod(t) \/ MethodFails(t)
        \/ Extract(t) \/ RejectName(t) \/ Copy(t) \/ Finish(t)
        \/ ExtractRaw(t) \/ EndUse(t)
        \/ \E c \in Capsules :
             \/ Make(t, c) \/ DropCapsule(t, c) \/ FromCapsule(t, c)
             \/ MethodReturnsHeld(t, c) \/ MethodReturnsFresh(t, c)
    BY <1>1 DEF Next
  <2>1. ASSUME NEW c \in Capsules, Make(t, c) \/ MethodReturnsFresh(t, c)
        PROVE  StaysGone(d)
    BY <2>1, <1>1 DEF Make, MethodReturnsFresh, Gone, StaysGone, IInv, TypeOK
  <2>2. ASSUME NEW c \in Capsules, DropCapsule(t, c) PROVE StaysGone(d)
    <3>1. cap_refs[c] > 0
      BY <2>2, <1>1, ReadIsLive DEF DropCapsule
    <3> QED BY <2>2, <3>1, <1>1, DecRefStaysGone DEF DropCapsule
  <2>3. ASSUME NEW c \in Capsules, FromCapsule(t, c) \/ MethodReturnsHeld(t, c)
        PROVE  StaysGone(d)
    <3>1. cap[c] = "live"
      BY <2>3, <1>1, ReadIsLive DEF FromCapsule, MethodReturnsHeld
    <3>2. c # d
      BY <3>1, <1>1 DEF Gone
    <3> QED BY <2>3, <3>2, <1>1 DEF FromCapsule, MethodReturnsHeld, StaysGone, IInv, TypeOK
  <2>4. ASSUME from[t] # NoCapsule, Release(t) PROVE StaysGone(d)
    <3>1. from[t] \in Capsules
      BY <2>4, <1>1 DEF IInv, TypeOK
    <3>2. cap_refs[from[t]] > 0
      BY <3>1, <1>1, ReadIsLive
    <3> QED BY <2>4, <3>1, <3>2, <1>1, DecRefStaysGone DEF Release
  <2>5. CASE RejectName(t) \/ Finish(t)
    <3>1. from[t] # NoCapsule
      BY <2>5, <1>1 DEF RejectName, Finish, IInv, PcInv
    <3> QED BY <2>4, <2>5, <3>1 DEF RejectName, Finish
  <2>6. CASE ExtractRaw(t) \/ EndUse(t)
    <3>1. ExtractRaw(t) => from[t] # NoCapsule
      BY <1>1 DEF ExtractRaw, IInv, PcInv
    <3> QED BY <2>4, <2>6, <3>1 DEF ExtractRaw, EndUse, StaysGone
  <2>7. CASE \/ DropSharedPtr(t) \/ MakeFails(t) \/ HandleError(t) \/ FromMethod(t)
             \/ MethodFails(t) \/ Extract(t) \/ Copy(t)
    BY <2>7 DEF DropSharedPtr, MakeFails, HandleError, FromMethod, MethodFails, Extract,
                Copy, python, StaysGone
  <2> QED BY <2>1, <2>2, <2>3, <2>5, <2>6, <2>7
<1>2. IInv /\ [Next]_vars => [\A c \in Capsules : Gone(c) => StaysGone(c)]_vars
  BY <1>1
<1> QED BY <1>2, Invariance, PTL DEF Spec
=============================================================================
