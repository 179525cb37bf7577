---------------------- MODULE OkStatusSingleton_proofs ----------------------
(***************************************************************************)
(* For any set of threads, any number of calls and any way the import may  *)
(* go: type correctness, the reference counts cover their owners, the      *)
(* Status object is unique, the answer is final once settled, and the      *)
(* statics implement a lazily filled cell.                                 *)
(***************************************************************************)
EXTENDS OkStatusSingleton, TLAPS

(* A Status object that has references is the registered one.              *)
OnlyRegistered == \A o \in Objects : (refs[o] > 0 /\ o.kind = "Status")
                                       => o = registered

(* The registered object is never freed: it has a reference that Python    *)
(* code does not own and cannot drop.                                      *)
RegisteredStays ==
  registered # Null => registered.kind = "Status" /\ refs[registered] > held[registered]

IInv == TypeOK /\ RefsCoverOwners /\ OnlyRegistered /\ RegisteredStays

LEMMA ObjectKinds ==
  /\ NotCalled \notin Objects \cup {Null}
  /\ Null \notin Objects
  /\ \A t \in Threads : Capsule(t) \in Objects /\ Made(t) \in Objects
  /\ \A t \in Threads : Capsule(t).kind = "capsule" /\ Made(t).kind = "Status"
BY DEF NotCalled, Null, Objects, Capsule, Made

LEMMA InitIInv == Init => IInv
<1> SUFFICES ASSUME Init PROVE IInv
  OBVIOUS
<1>1. TypeOK
  <2>1. calls \in [Threads -> 0..MaxCalls]
    BY MaxCallsAssumption DEF Init
  <2>2. /\ pc \in [Threads -> Entries \cup {"idle"}]
        /\ raised \in [Threads -> Errors]
    BY DEF Init, Errors
  <2>3. refs \in [Objects -> Nat] /\ held \in [Objects -> Nat]
    BY DEF Init
  <2> QED BY <2>1, <2>2, <2>3 DEF Init, TypeOK
<1>2. RefsCoverOwners
  BY ObjectKinds DEF Init, RefsCoverOwners, StaticRefs
<1>3. OnlyRegistered /\ RegisteredStays
  BY DEF Init, OnlyRegistered, RegisteredStays
<1> QED BY <1>1, <1>2, <1>3 DEF IInv

(* What returning an object does to the counts.                            *)
LEMMA ReturnCounts ==
  ASSUME TypeOK, NEW t \in Threads, NEW e \in Entries, NEW o \in Objects,
         NEW n \in Nat, Return(t, e, o, n)
  PROVE  /\ refs' \in [Objects -> Nat]
         /\ held' \in [Objects -> Nat]
         /\ raised' \in [Threads -> Errors]
         /\ refs'[o] >= refs[o] + n + 1
         /\ held'[o] = held[o] + 1
         /\ \A p \in Objects : p # o => refs'[p] = refs[p] /\ held'[p] = held[p]
BY DEF TypeOK, Return, ReturnedRefs, Errors

LEMMA CallIInv ==
  ASSUME IInv, NEW t \in Threads, NEW e \in Entries, Call(t, e)
  PROVE  IInv'
<1> USE MaxCallsAssumption DEF IInv
<1>0. /\ calls' \in [Threads -> 0..MaxCalls]
      /\ UNCHANGED <<first_call, py_singleton, module_loaded, singleton_ok, loaded_none>>
  BY DEF Call, TypeOK, statics
<1>1. CASE MustInitialise /\ Call(t, e) /\ UNCHANGED objects
  BY <1>0, <1>1 DEF Call, TypeOK, RefsCoverOwners, OnlyRegistered, RegisteredStays,
     StaticRefs, MustInitialise, Return, Raise, Errors, objects
<1>2. CASE /\ py_singleton = Null
           /\ Raise(t, "SystemError")
           /\ UNCHANGED pc
  BY <1>0, <1>2 DEF Raise, TypeOK, RefsCoverOwners, OnlyRegistered, RegisteredStays,
     StaticRefs, Errors, objects
<1>3. CASE /\ py_singleton # Null
           /\ Return(t, e, py_singleton, 0)
           /\ UNCHANGED <<pc, registered>>
  <2>1. py_singleton \in Objects
    BY <1>3 DEF TypeOK
  <2>2. refs[py_singleton] >= 1 /\ held[py_singleton] \in Nat /\ refs[py_singleton] \in Nat
    BY <2>1 DEF RefsCoverOwners, StaticRefs, TypeOK
  <2>3. TypeOK'
    BY <1>0, <1>3, <2>1, ReturnCounts DEF TypeOK
  <2>4. RefsCoverOwners'
    BY <1>0, <1>3, <2>1, <2>2, ReturnCounts DEF RefsCoverOwners, StaticRefs, TypeOK
  <2>5. OnlyRegistered'
    <3>1. UNCHANGED registered /\ \A p \in Objects : p # py_singleton => refs'[p] = refs[p]
      BY <1>3, <2>1, ReturnCounts
    <3> QED BY <2>2, <3>1 DEF OnlyRegistered
  <2>6. RegisteredStays'
    BY <1>3, <2>1, ReturnCounts DEF RegisteredStays, TypeOK
  <2> QED BY <2>3, <2>4, <2>5, <2>6
<1> QED BY <1>1, <1>2, <1>3 DEF Call

LEMMA FinishIInv ==
  ASSUME IInv, NEW t \in Threads,
         FinishWithCapsule(t) \/ FinishWithoutObject(t) \/ FinishWithStatus(t)
  PROVE  IInv'
<1> USE MaxCallsAssumption DEF IInv
<1>0. /\ pc' \in [Threads -> Entries \cup {"idle"}]
      /\ pc[t] \in Entries
      /\ first_call' \in BOOLEAN
      /\ module_loaded' \in BOOLEAN
      /\ UNCHANGED <<calls, singleton_ok, loaded_none>>
  BY DEF FinishWithCapsule, FinishWithoutObject, FinishWithStatus, Finish, TypeOK, Imports
<1>1. ASSUME NEW o \in Objects, NEW n \in Nat, n > 0, Return(t, pc[t], o, n),
             py_singleton' = o, registered' \in Objects \cup {Null},
             OnlyRegistered', RegisteredStays'
      PROVE  IInv'
  <2>1. TypeOK'
    BY <1>0, <1>1, ReturnCounts DEF TypeOK
  <2>2. RefsCoverOwners'
    BY <1>0, <1>1, ReturnCounts DEF RefsCoverOwners, StaticRefs, TypeOK
  <2> QED BY <1>1, <2>1, <2>2
<1>2. ASSUME NEW error \in Errors, Raise(t, error), py_singleton' \in {Null, py_singleton}
      PROVE  IInv'
  BY <1>0, <1>2, ObjectKinds
     DEF Raise, TypeOK, RefsCoverOwners, OnlyRegistered, RegisteredStays, StaticRefs, objects
<1>3. ASSUME py_singleton' = Capsule(t), Return(t, pc[t], Capsule(t), 1), UNCHANGED registered
      PROVE  IInv'
  <2>1. Capsule(t) \in Objects /\ Capsule(t).kind = "capsule"
    BY ObjectKinds
  <2>2. OnlyRegistered'
    BY <1>0, <1>3, <2>1, ReturnCounts DEF OnlyRegistered, TypeOK
  <2>3. RegisteredStays'
    BY <1>0, <1>3, <2>1, ReturnCounts DEF RegisteredStays, TypeOK
  <2>4. registered' \in Objects \cup {Null}
    BY <1>3 DEF TypeOK
  <2> QED BY <1>1, <1>3, <2>1, <2>2, <2>3, <2>4
<1>4. CASE FinishWithCapsule(t)
  <2>1. CASE UNCHANGED registered /\ py_singleton' = Capsule(t) /\ Return(t, pc[t], Capsule(t), 1)
    BY <1>3, <2>1
  <2>2. CASE py_singleton' = Null /\ Raise(t, "MemoryError")
    BY <1>2, <2>2 DEF Errors
  <2> QED BY <1>4, <2>1, <2>2 DEF FinishWithCapsule
<1>5. CASE FinishWithoutObject(t)
  BY <1>2, <1>5 DEF FinishWithoutObject, Errors
<1>6. CASE FinishWithStatus(t)
  <2> DEFINE o == MadeObject(t)
  <2>1. py_singleton' = o /\ registered' = o /\ Return(t, pc[t], o, 2)
    BY <1>6 DEF FinishWithStatus
  <2>2. o \in Objects /\ o.kind = "Status" /\ registered \in {Null, o}
    BY ObjectKinds DEF MadeObject, RegisteredStays, TypeOK
  <2>3. /\ refs'[o] >= refs[o] + 3 /\ held'[o] = held[o] + 1
        /\ {refs[o], held[o], refs'[o], held'[o]} \subseteq Nat
        /\ \A p \in Objects : p # o => refs'[p] = refs[p] /\ held'[p] = held[p]
    BY <1>0, <2>1, <2>2, ReturnCounts DEF TypeOK
  <2>4. OnlyRegistered'
    BY <2>1, <2>2, <2>3, ObjectKinds DEF OnlyRegistered
  <2>5. RegisteredStays'
    <3>1. refs[o] >= held[o]
      BY <2>2 DEF RefsCoverOwners, StaticRefs, TypeOK
    <3>2. refs'[o] > held'[o]
      BY <2>3, <3>1
    <3> QED BY <2>1, <2>2, <3>2 DEF RegisteredStays
  <2> QED BY <1>1, <2>1, <2>2, <2>4, <2>5
<1> QED BY <1>4, <1>5, <1>6

(* A reference that Python code owns goes; the registered object keeps the *)
(* one that Python does not own, and is not taken out of the map.          *)
LEMMA DropIInv ==
  ASSUME IInv, NEW o \in Objects, Drop(o)
  PROVE  IInv'
<1> USE DEF IInv
<1>1. /\ UNCHANGED <<statics, threads, module_loaded, singleton_ok, loaded_none>>
      /\ refs' = [refs EXCEPT ![o] = @ - 1]
      /\ held' = [held EXCEPT ![o] = @ - 1]
      /\ held[o] > 0 /\ refs[o] > 0
  BY DEF Drop, TypeOK, RefsCoverOwners, StaticRefs
<1>2. registered' = registered
  <2>1. o = registered => refs'[o] > 0
    BY <1>1, ObjectKinds DEF RegisteredStays, TypeOK
  <2> QED BY <2>1 DEF Drop
<1>3. TypeOK' /\ RefsCoverOwners'
  BY <1>1, <1>2 DEF TypeOK, RefsCoverOwners, StaticRefs, statics, threads
<1>4. OnlyRegistered' /\ RegisteredStays'
  BY <1>1, <1>2 DEF TypeOK, OnlyRegistered, RegisteredStays
<1> QED BY <1>3, <1>4

LEMMA NextIInv == IInv /\ [Next]_vars => IInv'
<1> SUFFICES ASSUME IInv, [Next]_vars PROVE IInv'
  OBVIOUS
<1>1. ASSUME NEW t \in Threads, NEW e \in Entries, Call(t, e) PROVE IInv'
  BY <1>1, CallIInv
<1>2. ASSUME NEW t \in Threads,
             FinishWithCapsule(t) \/ FinishWithoutObject(t) \/ FinishWithStatus(t)
      PROVE  IInv'
  BY <1>2, FinishIInv
<1>3. ASSUME NEW o \in Objects, Drop(o) PROVE IInv'
  BY <1>3, DropIInv
<1>4. ASSUME NEW o \in Objects, Update(o) PROVE IInv'
  BY <1>4 DEF IInv, Update, TypeOK, RefsCoverOwners, OnlyRegistered, RegisteredStays, StaticRefs,
              statics, threads, objects
<1>5. CASE LoadNone
  BY <1>5 DEF IInv, LoadNone, TypeOK, RefsCoverOwners, OnlyRegistered, RegisteredStays, StaticRefs,
              statics, threads, objects
<1>6. CASE UNCHANGED vars
  BY <1>6 DEF IInv, vars, TypeOK, RefsCoverOwners, OnlyRegistered, RegisteredStays, StaticRefs,
              statics, threads, objects
<1> QED BY <1>1, <1>2, <1>3, <1>4, <1>5, <1>6 DEF Next

(* The inductive invariant holds in every behaviour.                       *)
THEOREM Invariance == Spec => []IInv
BY InitIInv, NextIInv, PTL DEF Spec

(* Every variable of PyOkStatusSingleton's model keeps its type.           *)
THEOREM TypeCorrect == Spec => []TypeOK
<1>1. IInv => TypeOK
  BY DEF IInv
<1> QED BY <1>1, Invariance, PTL

(* No reference that the static or Python owns is ever missing from the    *)
(* object's count: the singleton is never freed under its users.           *)
THEOREM RefsCovered == Spec => []RefsCoverOwners
<1>1. IInv => RefsCoverOwners
  BY DEF IInv
<1> QED BY <1>1, Invariance, PTL

(* There are never two Status objects for the OK singleton: every call     *)
(* finds the registered one, which keeps a reference that nobody can drop. *)
THEOREM UniqueStatusObject == Spec => []StatusObjectUnique
<1>1. IInv => StatusObjectUnique
  BY DEF IInv, OnlyRegistered, StatusObjectUnique
<1> QED BY <1>1, Invariance, PTL

(* Once first_call is false and no call is inside the import, the answer   *)
(* of PyOkStatusSingleton never changes.                                   *)
THEOREM FinalAnswer == Spec => AnswerIsFinal
<1>1. IInv /\ [Next]_vars => [Settled => Settled' /\ py_singleton' = py_singleton]_vars
  <2> SUFFICES ASSUME IInv, Next, Settled
               PROVE  Settled' /\ py_singleton' = py_singleton
    BY DEF vars
  <2>1. ASSUME NEW t \in Threads, NEW e \in Entries, Call(t, e)
        PROVE  UNCHANGED <<first_call, py_singleton, pc>>
    BY <2>1 DEF Call, Settled, MustInitialise, statics
  <2>2. ASSUME NEW t \in Threads, Finish(t) PROVE FALSE
    BY <2>2 DEF Finish, Settled
  <2>3. ASSUME NEW o \in Objects, Drop(o) \/ Update(o)
        PROVE  UNCHANGED <<first_call, py_singleton, pc>>
    BY <2>3 DEF Drop, Update, statics, threads
  <2>4. ASSUME LoadNone PROVE UNCHANGED <<first_call, py_singleton, pc>>
    BY <2>4 DEF LoadNone, statics, threads
  <2>5. UNCHANGED <<first_call, py_singleton, pc>>
    BY <2>1, <2>2, <2>3, <2>4
       DEF Next, FinishWithCapsule, FinishWithoutObject, FinishWithStatus
  <2> QED BY <2>5 DEF Settled
<1> QED BY <1>1, Invariance, PTL DEF Spec, AnswerIsFinal

(* PyOkStatusSingleton's statics behave as the abstract lazy cell: only a  *)
(* call that found first_call set writes them, and it writes them once.    *)
THEOREM LazyCellImplemented == Spec => ImplementsLazyCell
<1> DEFINE v == IF first_call THEN NotCalled ELSE py_singleton
           f == {t \in Threads : pc[t] # "idle"}
<1>1. Init => Cell!Init
  BY DEF Init, Cell!Init
<1>2. IInv /\ IInv' /\ [Next]_vars => [Cell!Next]_(Cell!vars)
  <2> SUFFICES ASSUME IInv, IInv', Next PROVE [Cell!Next]_(Cell!vars)
    BY DEF vars, statics, threads, Cell!vars
  <2>1. ASSUME NEW t \in Threads, NEW e \in Entries, Call(t, e)
        PROVE  [Cell!Next]_(Cell!vars)
    <3>1. CASE ~MustInitialise
      <4>1. UNCHANGED <<first_call, py_singleton, pc>>
        BY <2>1, <3>1 DEF Call, statics
      <4> QED BY <4>1 DEF Cell!vars
    <3>2. CASE MustInitialise
      <4>1. /\ first_call /\ first_call' = first_call
            /\ pc[t] = "idle"
            /\ pc' = [pc EXCEPT ![t] = e]
            /\ e # "idle"
        BY <2>1, <3>2 DEF Call, statics, MustInitialise, Entries
      <4>2. v = NotCalled /\ v' = v /\ t \notin f
        BY <4>1
      <4>3. f' = f \cup {t}
        BY <4>1 DEF IInv, TypeOK
      <4>4. Cell!Enter(t)
        BY <4>2, <4>3 DEF Cell!Enter
      <4> QED BY <4>4 DEF Cell!Next
    <3> QED BY <3>1, <3>2
  <2>2. ASSUME NEW t \in Threads, Finish(t)
        PROVE  [Cell!Next]_(Cell!vars)
    <3>1. t \in f
      BY <2>2 DEF Finish
    <3>2. f' = f \ {t}
      BY <2>2 DEF Finish, IInv, TypeOK
    <3>3. v' \in Objects \cup {Null}
      BY <2>2 DEF Finish, IInv, TypeOK
    <3>4. Cell!Fill(t)
      BY <3>1, <3>2, <3>3 DEF Cell!Fill
    <3> QED BY <3>4 DEF Cell!Next
  <2>3. ASSUME NEW o \in Objects, Drop(o) \/ Update(o)
        PROVE  [Cell!Next]_(Cell!vars)
    BY <2>3 DEF Drop, Update, statics, threads, Cell!vars
  <2>4. ASSUME LoadNone PROVE [Cell!Next]_(Cell!vars)
    BY <2>4 DEF LoadNone, statics, threads, Cell!vars
  <2> QED BY <2>1, <2>2, <2>3, <2>4
             DEF Next, FinishWithCapsule, FinishWithoutObject, FinishWithStatus
<1> QED BY <1>1, <1>2, Invariance, PTL DEF Spec, ImplementsLazyCell, Cell!Spec
=============================================================================
