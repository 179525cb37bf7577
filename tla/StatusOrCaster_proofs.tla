----------------------- MODULE StatusOrCaster_proofs -----------------------
(***************************************************************************)
(* Proofs about StatusOrCaster, for any number of variables, payloads and  *)
(* Python objects.  The argument: what a variable holds fits its type, it  *)
(* owns a reference only of the payload it holds, and only a static Status *)
(* is ever referred to; so each step can be accounted for on its own.      *)
(***************************************************************************)
EXTENDS StatusOrCaster, FiniteSetTheorems, TLAPS

Owners(o) == {v \in owner : cpp[v] = o}
Args(o) == {v \in Vars : arg[v] = o}

(* What a variable may hold.                                               *)
CppInv ==
  \A v \in Vars :
    /\ v \in Statics => cpp[v] # "gone"
    /\ cpp[v] \in NotOk \cup {"gone"}
         \cup (CASE type[v] = "Status" -> {"OK"}
                 [] type[v] = "StatusOr<int>" -> {AnInt}
                 [] type[v] = "StatusOr<PyObject*>" -> Objects)

(* An owner owns the payload it holds; a parameter owns nothing, and is    *)
(* there, with the payload that it was given, for the whole call.          *)
OwnerInv ==
  /\ \A v \in owner : cpp[v] \in Objects
  /\ \A v \in Vars : arg[v] # NoObject =>
       /\ v \notin owner /\ v \notin Statics /\ cpp[v] # "gone"
       /\ type[v] = "StatusOr<PyObject*>" => cpp[v] = arg[v]

(* A Python Status object is there as long as it is referred to, and       *)
(* refers to nothing but a static Status that no other object refers to.   *)
ObjInv ==
  /\ \A w \in Slots :
       /\ obj[w] = "absent" <=> refs[w] = 0
       /\ obj[w] \in Vars => obj[w] \in Statics /\ type[obj[w]] = "Status"
  /\ \A w, u \in Slots : obj[w] \in Vars /\ obj[w] = obj[u] => w = u

(* A variable still holds what Python gave it.                             *)
Faithful(v, value, g) ==
  IF type[v] = "StatusOr<PyObject*>" /\ g.o # NoObject
  THEN value = g.o
  ELSE /\ g.was \in NotOk => value = g.was
       /\ value \notin NotOk => g.was = "OK" \/ g.o \in {None, AnInt}
GivenInv == \A v \in Vars : given[v] # Nothing => Faithful(v, cpp[v], given[v])

IInv == TypeOK /\ CppInv /\ OwnerInv /\ ObjInv /\ PayloadRefsExact /\ GivenInv

-----------------------------------------------------------------------------
LEMMA Kinds ==
  /\ Objects \cap (Statuses \cup {"gone", "cast_error"}) = {}
  /\ NoObject \notin Objects /\ None # AnInt
  /\ Counted \subseteq Objects /\ Payloads \cap Slots = {} /\ Slots \subseteq Counted
  /\ None \in Objects /\ AnInt \in Objects /\ None \notin Counted /\ AnInt \notin Counted
  /\ NotOk \subseteq Statuses /\ "OK" \in Statuses /\ "OK" \notin NotOk
  /\ "gone" \notin Statuses /\ "absent" \notin Statuses
  /\ Vars \cap (Statuses \cup {"absent"}) = {}
<1>1. /\ Objects \cap (Statuses \cup {"gone", "cast_error"}) = {}
      /\ NoObject \notin Objects /\ None # AnInt /\ Payloads \cap Slots = {}
      /\ None \notin Counted /\ AnInt \notin Counted
  BY ObjectsAssumption
<1>2. /\ Counted \subseteq Objects /\ Slots \subseteq Counted
      /\ None \in Objects /\ AnInt \in Objects
  BY DEF Objects, Counted
<1>3. /\ NotOk \subseteq Statuses /\ "OK" \in Statuses /\ "OK" \notin NotOk
      /\ "gone" \notin Statuses /\ "absent" \notin Statuses
  BY DEF Statuses, NotOk
<1> QED BY <1>1, <1>2, <1>3, VarsAssumption

LEMMA CountedSets ==
  ASSUME TypeOK, NEW o
  PROVE  /\ IsFiniteSet(Owners(o)) /\ Cardinality(Owners(o)) \in Nat
         /\ IsFiniteSet(Args(o)) /\ Cardinality(Args(o)) \in Nat
<1>1. Owners(o) \in SUBSET Vars /\ Args(o) \in SUBSET Vars
  BY DEF TypeOK, Owners, Args, ObjectVars
<1>2. IsFiniteSet(Owners(o)) /\ IsFiniteSet(Args(o))
  BY <1>1, VarsAssumption, FS_Subset
<1> QED BY <1>2, FS_CardinalityType

LEMMA OneMore ==
  ASSUME NEW S, IsFiniteSet(S), NEW x, x \notin S
  PROVE  Cardinality(S \cup {x}) = Cardinality(S) + 1
BY FS_AddElement

LEMMA OneLess ==
  ASSUME NEW S, IsFiniteSet(S), NEW x, x \in S
  PROVE  /\ Cardinality(S \ {x}) = Cardinality(S) - 1
         /\ Cardinality(S) > 0
<1>1. Cardinality(S) \in Nat /\ Cardinality(S) # 0
  BY FS_CardinalityType, FS_EmptySet
<1> QED BY <1>1, FS_RemoveElement

(* The count of references, with names for its parts.                      *)
LEMMA Account ==
  PayloadRefsExact <=>
    \A o \in Counted : refs[o] = held[o] + Cardinality(Owners(o)) + Cardinality(Args(o))
BY DEF PayloadRefsExact, Owners, Args

LEMMA AccountNext ==
  PayloadRefsExact' <=>
    \A o \in Counted :
      refs'[o] = held'[o] + Cardinality(Owners(o)') + Cardinality(Args(o)')
BY DEF PayloadRefsExact, Owners, Args

(* A step that changes the account of one object.                          *)
LEMMA OneAccount ==
  ASSUME PayloadRefsExact, NEW p,
         \A o \in Counted : o # p =>
           /\ refs'[o] = refs[o] /\ held'[o] = held[o]
           /\ Owners(o)' = Owners(o) /\ Args(o)' = Args(o),
         p \in Counted =>
           refs'[p] = held'[p] + Cardinality(Owners(p)') + Cardinality(Args(p)')
  PROVE  PayloadRefsExact'
<1>1. ASSUME NEW o \in Counted, o # p
      PROVE  refs'[o] = held'[o] + Cardinality(Owners(o)') + Cardinality(Args(o)')
  <2>1. refs[o] = held[o] + Cardinality(Owners(o)) + Cardinality(Args(o))
    BY Account
  <2> QED BY <1>1, <2>1
<1> QED BY <1>1, AccountNext

LEMMA Terms ==
  ASSUME IInv, NEW o \in Counted
  PROVE  /\ refs[o] \in Nat /\ held[o] \in Nat
         /\ Cardinality(Owners(o)) \in Nat /\ Cardinality(Args(o)) \in Nat
         /\ refs[o] = held[o] + Cardinality(Owners(o)) + Cardinality(Args(o))
BY CountedSets, Account DEF IInv, TypeOK

(* What somebody refers to has references.                                 *)
LEMMA Referred ==
  ASSUME IInv, NEW o \in Counted,
         \/ held[o] > 0
         \/ \E v \in owner : cpp[v] = o
         \/ \E v \in Vars : arg[v] = o
  PROVE  refs[o] > 0
<1>1. /\ refs[o] = held[o] + Cardinality(Owners(o)) + Cardinality(Args(o))
      /\ held[o] \in Nat /\ Cardinality(Owners(o)) \in Nat /\ Cardinality(Args(o)) \in Nat
  BY Account, CountedSets DEF IInv, TypeOK
<1>2. CASE held[o] > 0
  BY <1>1, <1>2
<1>3. CASE \E v \in owner : cpp[v] = o
  <2>1. Cardinality(Owners(o)) > 0
    BY <1>3, CountedSets, OneLess DEF Owners, IInv
  <2> QED BY <1>1, <2>1
<1>4. CASE \E v \in Vars : arg[v] = o
  <2>1. Cardinality(Args(o)) > 0
    BY <1>4, CountedSets, OneLess DEF Args, IInv
  <2> QED BY <1>1, <2>1
<1> QED BY <1>2, <1>3, <1>4

(* A variable that owns nothing may change without being counted.          *)
LEMMA SameOwners ==
  ASSUME TypeOK, NEW v \in Vars, v \notin owner, owner' = owner,
         \A u \in Vars \ {v} : cpp'[u] = cpp[u]
  PROVE  \A o : Owners(o)' = Owners(o)
BY DEF Owners, TypeOK, ObjectVars

PythonTypes ==
  /\ obj \in [Slots -> Statuses \cup {"absent"} \cup Vars]
  /\ refs \in [Counted -> Nat] /\ held \in [Counted -> Nat]

(* The steps on Python objects.                                            *)
LEMMA NewObjectKeeps ==
  ASSUME IInv, type' = type, NEW w \in Slots, NEW content,
         \/ content \in Statuses
         \/ content \in Statics /\ type[content] = "Status" /\ Registered(content) = {},
         NewStatusObject(w, content), arg' = arg,
         \A o : Owners(o)' = Owners(o)
  PROVE  PythonTypes' /\ ObjInv' /\ PayloadRefsExact'
<1> USE DEF IInv, NewStatusObject
<1>1. refs[w] = 0 /\ w \in Counted
  BY Kinds DEF ObjInv
<1>2. content \in Statuses \cup Vars /\ content # "absent"
  BY Kinds, VarsAssumption
<1>3. PythonTypes'
  BY <1>2 DEF TypeOK, PythonTypes
<1>4. ObjInv'
  BY <1>1, <1>2, Kinds DEF TypeOK, ObjInv, Registered
<1>5. held[w] = 0 /\ Cardinality(Owners(w)) = 0 /\ Cardinality(Args(w)) = 0
  BY <1>1, Account, CountedSets DEF TypeOK
<1>6. \A o : Args(o)' = Args(o)
  BY DEF Args
<1>7. PayloadRefsExact'
  BY <1>1, <1>5, <1>6, Account, AccountNext DEF TypeOK
<1> QED BY <1>3, <1>4, <1>7

LEMMA DecrefKeeps ==
  ASSUME IInv, type' = type, NEW o \in Objects, o \in Counted => refs[o] > 0, Decref(o)
  PROVE  /\ obj' \in [Slots -> Statuses \cup {"absent"} \cup Vars]
         /\ refs' \in [Counted -> Nat]
         /\ ObjInv'
         /\ o \in Counted => refs' = [refs EXCEPT ![o] = @ - 1]
         /\ o \notin Counted => refs' = refs
<1> USE DEF IInv, Decref
<1>1. obj' \in [Slots -> Statuses \cup {"absent"} \cup Vars] /\ refs' \in [Counted -> Nat]
  BY DEF TypeOK
<1>2. CASE o \notin Slots
  <2>1. obj' = obj /\ \A w \in Slots : refs'[w] = refs[w]
    BY <1>2, Kinds DEF TypeOK
  <2> QED BY <1>1, <2>1 DEF ObjInv
<1>3. CASE o \in Slots
  <2>1. refs' = [refs EXCEPT ![o] = @ - 1] /\ refs[o] > 0 /\ refs[o] \in Nat
    BY <1>3, Kinds DEF TypeOK
  <2>2. \A w \in Slots : obj'[w] = "absent" <=> refs'[w] = 0
    BY <1>3, <2>1, Kinds DEF TypeOK, ObjInv
  <2>3. \A w \in Slots : obj'[w] \in Vars => obj'[w] = obj[w]
    BY <1>3, Kinds DEF TypeOK
  <2>4. ObjInv'
    BY <2>2, <2>3 DEF ObjInv
  <2> QED BY <1>1, <1>3, <2>1, <2>4, Kinds
<1> QED BY <1>2, <1>3

LEMMA IncrefKeeps ==
  ASSUME IInv, type' = type, NEW o \in Objects, o \in Counted => refs[o] > 0,
         refs' = Incremented(o), obj' = obj
  PROVE  /\ obj' \in [Slots -> Statuses \cup {"absent"} \cup Vars]
         /\ refs' \in [Counted -> Nat]
         /\ ObjInv'
         /\ o \in Counted => refs' = [refs EXCEPT ![o] = @ + 1]
         /\ o \notin Counted => refs' = refs
<1> USE DEF IInv, Incremented
<1>1. obj' \in [Slots -> Statuses \cup {"absent"} \cup Vars] /\ refs' \in [Counted -> Nat]
  BY DEF TypeOK
<1>2. CASE o \notin Counted
  BY <1>1, <1>2 DEF ObjInv
<1>3. CASE o \in Counted
  <2>1. refs' = [refs EXCEPT ![o] = @ + 1] /\ refs[o] > 0 /\ refs[o] \in Nat
    BY <1>3 DEF TypeOK
  <2>2. \A w \in Slots : refs'[w] = 0 <=> refs[w] = 0
    BY <1>3, <2>1, Kinds DEF TypeOK
  <2>3. ObjInv'
    BY <2>2 DEF ObjInv
  <2> QED BY <1>1, <1>3, <2>1, <2>3
<1> QED BY <1>2, <1>3

LEMMA SamePython ==
  ASSUME IInv, type' = type, UNCHANGED <<python, arg>>, \A o : Owners(o)' = Owners(o)
  PROVE  PythonTypes' /\ ObjInv' /\ PayloadRefsExact'
<1>1. PythonTypes' /\ ObjInv'
  BY DEF IInv, TypeOK, PythonTypes, ObjInv, python
<1>2. \A o : Args(o)' = Args(o)
  BY DEF Args
<1>3. PayloadRefsExact'
  BY <1>2, Account, AccountNext DEF IInv, python
<1> QED BY <1>1, <1>3

(* The status that a living Python object is.                              *)
LEMMA StatusInType ==
  ASSUME IInv, NEW o \in Objects, Exists(o)
  PROVE  /\ StatusIn(o) \in Statuses \cup {"no status"}
         /\ o \notin Slots => StatusIn(o) = "no status"
<1>1. CASE o \in Slots
  <2>1. obj[o] # "absent" /\ obj[o] \in Statuses \cup {"absent"} \cup Vars
    BY <1>1, Kinds DEF Exists, IInv, ObjInv, TypeOK
  <2>2. CASE obj[o] \in Vars
    <3>1. cpp[obj[o]] \in Statuses
      BY <1>1, <2>2, Kinds DEF IInv, ObjInv, CppInv
    <3> QED BY <1>1, <2>2, <3>1 DEF StatusIn
  <2> QED BY <1>1, <2>1, <2>2 DEF StatusIn
<1> QED BY <1>1 DEF StatusIn

(* load() makes of an object what fits the variable, and what is faithful  *)
(* to it.                                                                  *)
LEMMA LoadGives ==
  ASSUME IInv, NEW v \in Vars, NEW o \in Objects, Exists(o), NEW value,
         value = IF Load(v, o) = "cast_error" THEN "INVALID" ELSE Load(v, o)
  PROVE  /\ value \in NotOk \cup (CASE type[v] = "Status" -> {"OK"}
                                    [] type[v] = "StatusOr<int>" -> {AnInt}
                                    [] type[v] = "StatusOr<PyObject*>" -> Objects)
         /\ [o |-> o, was |-> StatusIn(o)] \in Gifts
         /\ Faithful(v, value, [o |-> o, was |-> StatusIn(o)])
         /\ type[v] = "StatusOr<PyObject*>" => value = o
<1>1. type[v] \in Types /\ "INVALID" \in NotOk /\ "cast_error" \notin Statuses
        /\ Statuses = NotOk \cup {"OK"} /\ "no status" \notin Statuses
  BY DEF IInv, TypeOK, NotOk, Statuses
<1>2. /\ StatusIn(o) \in Statuses \cup {"no status"}
      /\ o \in {None, AnInt} => StatusIn(o) = "no status"
  BY StatusInType, Kinds
<1>3. [o |-> o, was |-> StatusIn(o)] \in Gifts
  BY <1>2 DEF Gifts
<1>4. CASE type[v] = "Status"
  BY <1>1, <1>2, <1>3, <1>4, Kinds DEF Load, Faithful, ObjectVars, IntVars
<1>5. CASE type[v] = "StatusOr<int>"
  BY <1>1, <1>2, <1>3, <1>5, Kinds DEF Load, Faithful, ObjectVars, IntVars
<1>6. CASE type[v] = "StatusOr<PyObject*>"
  BY <1>1, <1>2, <1>3, <1>6, Kinds DEF Load, Faithful, ObjectVars, IntVars
<1> QED BY <1>1, <1>4, <1>5, <1>6 DEF Types
-----------------------------------------------------------------------------
LEMMA InitIInv == Init => IInv
<1> SUFFICES ASSUME Init PROVE IInv
  OBVIOUS
<1>1. TypeOK
  BY Kinds DEF Init, TypeOK, Gifts, Nothing, StatusVars, NotOk, Statuses
<1>2. CppInv
  BY <1>1 DEF Init, CppInv, StatusVars, NotOk, TypeOK, Types
<1>3. OwnerInv /\ GivenInv
  BY DEF Init, OwnerInv, GivenInv
<1>4. ObjInv
  BY Kinds DEF Init, ObjInv
<1>5. PayloadRefsExact
  <2>1. \A o \in Counted : Owners(o) = {} /\ Args(o) = {}
    BY Kinds DEF Init, Owners, Args
  <2>2. \A o \in Counted : refs[o] = held[o] /\ refs[o] \in Nat
    BY DEF Init
  <2> QED BY <2>1, <2>2, FS_EmptySet, Account
<1> QED BY <1>1, <1>2, <1>3, <1>4, <1>5 DEF IInv

(* Python code makes and drops objects.                                    *)
LEMMA PythonIInv ==
  ASSUME IInv, type' = type,
         \/ \E w \in Slots, s \in {"ABORTED", "OK"} : MakeStatus(w, s)
         \/ \E o \in Counted : DropObject(o)
  PROVE  IInv'
<1> USE DEF IInv
<1>1. UNCHANGED <<cpp, owner, arg, given>> /\ seen' = NothingSeen
  BY DEF MakeStatus, DropObject
<1>2. \A o : Owners(o)' = Owners(o) /\ Args(o)' = Args(o)
  BY <1>1 DEF Owners, Args
<1>3. PythonTypes' /\ ObjInv' /\ PayloadRefsExact'
  <2>1. ASSUME NEW w \in Slots, NEW s \in {"ABORTED", "OK"}, MakeStatus(w, s)
        PROVE  PythonTypes' /\ ObjInv' /\ PayloadRefsExact'
    <3>1. s \in Statuses
      BY DEF Statuses, NotOk
    <3> QED BY <1>1, <1>2, <2>1, <3>1, NewObjectKeeps DEF MakeStatus
  <2>2. ASSUME NEW o \in Counted, DropObject(o)
        PROVE  PythonTypes' /\ ObjInv' /\ PayloadRefsExact'
    <3>1. refs[o] > 0 /\ held[o] > 0 /\ Decref(o) /\ held' = [held EXCEPT ![o] = @ - 1]
      BY <2>2, Referred DEF DropObject
    <3>2. /\ obj' \in [Slots -> Statuses \cup {"absent"} \cup Vars]
          /\ refs' \in [Counted -> Nat] /\ ObjInv'
          /\ refs' = [refs EXCEPT ![o] = @ - 1]
      BY <3>1, DecrefKeeps, Kinds
    <3>3. held' \in [Counted -> Nat]
      BY <3>1 DEF TypeOK
    <3>4. refs'[o] = refs[o] - 1 /\ held'[o] = held[o] - 1
      BY <3>1, <3>2 DEF TypeOK
    <3>5. \A p \in Counted : p # o => refs'[p] = refs[p] /\ held'[p] = held[p]
      BY <3>1, <3>2 DEF TypeOK
    <3>6. refs'[o] = held'[o] + Cardinality(Owners(o)') + Cardinality(Args(o)')
      BY <1>2, <3>4, Terms
    <3>7. PayloadRefsExact'
      BY <1>2, <3>5, <3>6, OneAccount
    <3> QED BY <3>2, <3>3, <3>7 DEF PythonTypes
  <2> QED BY <2>1, <2>2 DEF MakeStatus, DropObject
<1>4. TypeOK'
  BY <1>1, <1>3 DEF TypeOK, PythonTypes, ObjectVars
<1>5. CppInv' /\ OwnerInv' /\ GivenInv'
  BY <1>1 DEF CppInv, OwnerInv, GivenInv, Faithful
<1> QED BY <1>3, <1>4, <1>5

(* What an assignment does to the variable.                                *)
LEMMA AssignKeeps ==
  ASSUME IInv, type' = type, NEW v \in Vars, NEW value, NEW g \in Gifts,
         value \in NotOk \cup (CASE type[v] = "Status" -> {"OK"}
                                 [] type[v] = "StatusOr<int>" -> {AnInt}
                                 [] type[v] = "StatusOr<PyObject*>" -> Objects),
         g # Nothing => Faithful(v, value, g),
         Assign(v, value, g)
  PROVE  /\ cpp' \in [Vars -> Statuses \cup {"gone"} \cup Objects]
         /\ given' \in [Vars -> Gifts]
         /\ CppInv' /\ GivenInv'
         /\ cpp'[v] = value /\ \A u \in Vars \ {v} : cpp'[u] = cpp[u]
         /\ v \notin owner /\ arg[v] = NoObject
<1> USE DEF IInv, Assign
<1>1. type[v] \in Types /\ v \notin owner /\ arg[v] = NoObject
  BY DEF TypeOK, Assignable, OwnerInv
<1>2. value \in Statuses \cup Objects /\ value # "gone"
  BY <1>1, Kinds DEF Types
<1>3. /\ cpp' \in [Vars -> Statuses \cup {"gone"} \cup Objects]
      /\ given' \in [Vars -> Gifts]
      /\ cpp'[v] = value /\ \A u \in Vars \ {v} : cpp'[u] = cpp[u]
      /\ given'[v] = g /\ \A u \in Vars \ {v} : given'[u] = given[u]
  BY <1>2 DEF TypeOK
<1>4. CppInv'
  BY <1>2, <1>3 DEF CppInv
<1>5. GivenInv'
  BY <1>3 DEF GivenInv, Faithful
<1> QED BY <1>1, <1>3, <1>4, <1>5

(* C++ code makes a value itself, or gets an error from a callable.        *)
LEMMA CppMakesIInv ==
  ASSUME IInv, type' = type, NEW v \in Vars,
         \/ \E value \in {"ABORTED", "OK", AnInt} : CppMakes(v, value)
         \/ CallbackRaises(v)
  PROVE  IInv'
<1> USE DEF IInv
<1>1. type[v] \in Types /\ Nothing \in Gifts /\ "ABORTED" \in NotOk
  BY DEF TypeOK, Gifts, Nothing, NotOk, Types
<1>2. PICK value \in Statuses \cup Objects, g \in Gifts :
         /\ Assign(v, value, g)
         /\ value \in NotOk \cup (CASE type[v] = "Status" -> {"OK"}
                                    [] type[v] = "StatusOr<int>" -> {AnInt}
                                    [] type[v] = "StatusOr<PyObject*>" -> Objects)
         /\ g # Nothing => Faithful(v, value, g)
         /\ \/ owner' = owner
            \/ owner' = owner \cup {v} /\ v \in ObjectVars /\ value \in Objects
                 /\ value \notin Counted
  <2>1. ASSUME NEW x \in {"ABORTED", "OK", AnInt}, CppMakes(v, x)
        PROVE  /\ Assign(v, x, Nothing)
               /\ x \in NotOk \cup (CASE type[v] = "Status" -> {"OK"}
                                      [] type[v] = "StatusOr<int>" -> {AnInt}
                                      [] type[v] = "StatusOr<PyObject*>" -> Objects)
               /\ \/ owner' = owner
                  \/ owner' = owner \cup {v} /\ v \in ObjectVars /\ x \in Objects
                       /\ x \notin Counted
    <3>1. Assign(v, x, Nothing) /\ (x = "ABORTED" \/ x = IF v \in StatusVars THEN "OK" ELSE AnInt)
            /\ owner' = IF v \in ObjectVars /\ x \in Objects THEN owner \cup {v} ELSE owner
      BY <2>1 DEF CppMakes
    <3>2. x \in Objects => x = AnInt
      BY <3>1, <1>1, Kinds
    <3> QED BY <1>1, <3>1, <3>2, Kinds DEF StatusVars, Types
  <2>2. CASE CallbackRaises(v)
    <3>1. [o |-> NoObject, was |-> "ABORTED"] \in Gifts
      BY <1>1, Kinds DEF Gifts
    <3>2. Faithful(v, "ABORTED", [o |-> NoObject, was |-> "ABORTED"])
      BY <1>1 DEF Faithful
    <3> QED BY <1>1, <2>2, <3>1, <3>2, Kinds DEF CallbackRaises
  <2>3. {"ABORTED", "OK", AnInt} \subseteq Statuses \cup Objects
    BY <1>1, Kinds
  <2> QED BY <1>1, <2>1, <2>2, <2>3
<1>3. UNCHANGED <<python, arg>> /\ seen' = NothingSeen
  BY DEF CppMakes, CallbackRaises, Assign
<1>4. /\ cpp' \in [Vars -> Statuses \cup {"gone"} \cup Objects]
      /\ given' \in [Vars -> Gifts]
      /\ CppInv' /\ GivenInv'
      /\ cpp'[v] = value /\ \A u \in Vars \ {v} : cpp'[u] = cpp[u]
      /\ v \notin owner /\ arg[v] = NoObject
  BY <1>2, AssignKeeps
<1>5. \A o \in Counted : Owners(o)' = Owners(o)
  BY <1>2, <1>4 DEF Owners, TypeOK, ObjectVars
<1>6. PythonTypes' /\ ObjInv' /\ PayloadRefsExact'
  <2>1. PythonTypes' /\ ObjInv'
    BY <1>3 DEF TypeOK, PythonTypes, ObjInv, python
  <2>2. \A o : Args(o)' = Args(o)
    BY <1>3 DEF Args
  <2> QED BY <1>3, <1>5, <2>1, <2>2, Account, AccountNext DEF python
<1>7. TypeOK'
  BY <1>2, <1>3, <1>4, <1>6 DEF TypeOK, PythonTypes, ObjectVars
<1>8. OwnerInv'
  BY <1>2, <1>3, <1>4 DEF OwnerInv, TypeOK, ObjectVars
<1> QED BY <1>4, <1>6, <1>7, <1>8

(* C++ code drops a value, and the reference it owns.                      *)
LEMMA CppDropsIInv ==
  ASSUME IInv, type' = type, NEW v \in Vars, CppDrops(v)
  PROVE  IInv'
<1> USE DEF IInv
<1> DEFINE new == IF v \in Statics THEN "UNKNOWN" ELSE "gone"
<1>1. /\ cpp' = [cpp EXCEPT ![v] = new] /\ owner' = owner \ {v}
      /\ given' = [given EXCEPT ![v] = Nothing]
      /\ arg[v] = NoObject
      /\ UNCHANGED <<held, arg>> /\ seen' = NothingSeen
  BY DEF CppDrops
<1>2. new \in NotOk \cup {"gone"} /\ (v \in Statics => new # "gone") /\ Nothing \in Gifts
  BY DEF NotOk, Gifts, Nothing
<1>3. /\ cpp' \in [Vars -> Statuses \cup {"gone"} \cup Objects]
      /\ cpp'[v] = new /\ \A u \in Vars \ {v} : cpp'[u] = cpp[u]
      /\ given' \in [Vars -> Gifts]
  BY <1>1, <1>2, Kinds DEF TypeOK
<1>4. \A o : Args(o)' = Args(o)
  BY <1>1 DEF Args
<1>5. PythonTypes' /\ ObjInv' /\ PayloadRefsExact'
  <2>1. CASE v \notin owner
    <3>1. owner' = owner /\ UNCHANGED python
      BY <1>1, <2>1 DEF CppDrops, python
    <3>2. \A o : Owners(o)' = Owners(o)
      BY <1>3, <2>1, <3>1, SameOwners
    <3> QED BY <1>1, <3>1, <3>2, SamePython
  <2>2. CASE v \in owner
    <3>1. PICK p \in Objects : p = cpp[v]
      BY <2>2 DEF OwnerInv
    <3>2. Decref(p) /\ (p \in Counted => refs[p] > 0)
      BY <2>2, <3>1, Referred DEF CppDrops
    <3>3. /\ obj' \in [Slots -> Statuses \cup {"absent"} \cup Vars]
          /\ refs' \in [Counted -> Nat] /\ ObjInv'
          /\ p \in Counted => refs' = [refs EXCEPT ![p] = @ - 1]
          /\ p \notin Counted => refs' = refs
      BY <3>2, DecrefKeeps
    <3>4. Owners(p)' = Owners(p) \ {v} /\ v \in Owners(p)
            /\ \A o : o # p => Owners(o)' = Owners(o)
      BY <1>1, <1>3, <2>2, <3>1 DEF Owners, TypeOK, ObjectVars
    <3>5. Cardinality(Owners(p)') = Cardinality(Owners(p)) - 1
      BY <3>4, CountedSets, OneLess
    <3>6. \A o \in Counted : o # p => refs'[o] = refs[o]
      BY <3>3 DEF TypeOK
    <3>7. p \in Counted => refs'[p] = held'[p] + Cardinality(Owners(p)') + Cardinality(Args(p)')
      <4>1. p \in Counted => refs'[p] = refs[p] - 1
        BY <3>3 DEF TypeOK
      <4> QED BY <1>1, <1>4, <3>5, <4>1, Terms
    <3>8. PayloadRefsExact'
      BY <1>1, <1>4, <3>4, <3>6, <3>7, OneAccount
    <3> QED BY <1>1, <3>3, <3>8 DEF PythonTypes, TypeOK
  <2> QED BY <2>1, <2>2
<1>6. TypeOK'
  BY <1>1, <1>3, <1>5 DEF TypeOK, PythonTypes, ObjectVars
<1>7. CppInv'
  <2> HIDE DEF new
  <2> QED BY <1>2, <1>3 DEF CppInv
<1>8. OwnerInv' /\ GivenInv'
  BY <1>1, <1>3 DEF OwnerInv, GivenInv, Faithful, TypeOK, ObjectVars
<1> QED BY <1>5, <1>6, <1>7, <1>8

(* A callable's result, and its reference if it is a PyObject* payload.    *)
LEMMA CallbackIInv ==
  ASSUME IInv, type' = type, NEW v \in Vars, NEW o \in Objects, CallbackReturns(v, o)
  PROVE  IInv'
<1> USE DEF IInv
<1> DEFINE g == [o |-> o, was |-> StatusIn(o)]
<1>1. PICK value : value = IF Load(v, o) = "cast_error" THEN "INVALID" ELSE Load(v, o)
  OBVIOUS
<1>2. Exists(o) /\ Assign(v, value, g) /\ UNCHANGED <<obj, held, arg>> /\ seen' = NothingSeen
  BY <1>1 DEF CallbackReturns, Assign
<1>3. /\ value \in NotOk \cup (CASE type[v] = "Status" -> {"OK"}
                                 [] type[v] = "StatusOr<int>" -> {AnInt}
                                 [] type[v] = "StatusOr<PyObject*>" -> Objects)
      /\ g \in Gifts /\ Faithful(v, value, g)
      /\ type[v] = "StatusOr<PyObject*>" => value = o
  BY <1>1, <1>2, LoadGives
<1>4. /\ cpp' \in [Vars -> Statuses \cup {"gone"} \cup Objects]
      /\ given' \in [Vars -> Gifts]
      /\ CppInv' /\ GivenInv'
      /\ cpp'[v] = value /\ \A u \in Vars \ {v} : cpp'[u] = cpp[u]
      /\ v \notin owner /\ arg[v] = NoObject
  BY <1>2, <1>3, AssignKeeps
<1>5. \A p : Args(p)' = Args(p)
  BY <1>2 DEF Args
<1>6. CASE v \notin ObjectVars
  <2>1. UNCHANGED python /\ owner' = owner
    BY <1>2, <1>6 DEF CallbackReturns, Releases, python
  <2>2. \A p : Owners(p)' = Owners(p)
    BY <1>4, <2>1, SameOwners
  <2>3. PythonTypes' /\ ObjInv' /\ PayloadRefsExact'
    BY <1>2, <2>1, <2>2, SamePython
  <2>4. TypeOK'
    BY <1>2, <1>4, <2>1, <2>3 DEF TypeOK, PythonTypes, ObjectVars
  <2>5. OwnerInv'
    BY <1>2, <1>4, <2>1 DEF OwnerInv, TypeOK, ObjectVars
  <2> QED BY <1>4, <2>3, <2>4, <2>5
<1>7. CASE v \in ObjectVars
  <2>1. owner' = owner \cup {v} /\ refs' = Incremented(o) /\ value = o
    BY <1>3, <1>7 DEF CallbackReturns, Releases, ObjectVars
  <2>2. /\ refs' \in [Counted -> Nat] /\ ObjInv'
        /\ o \in Counted => refs' = [refs EXCEPT ![o] = @ + 1]
        /\ o \notin Counted => refs' = refs
    BY <1>2, <2>1, IncrefKeeps DEF Exists
  <2>3. /\ Owners(o)' = Owners(o) \cup {v} /\ v \notin Owners(o)
        /\ \A p : p # o => Owners(p)' = Owners(p)
    BY <1>4, <2>1 DEF Owners, TypeOK, ObjectVars
  <2>4. Cardinality(Owners(o)') = Cardinality(Owners(o)) + 1
    BY <2>3, CountedSets, OneMore
  <2>5. PayloadRefsExact'
    <3>1. \A p \in Counted : p # o => refs'[p] = refs[p]
      BY <2>2 DEF TypeOK
    <3>2. o \in Counted => refs'[o] = refs[o] + 1
      BY <2>2 DEF TypeOK
    <3>3. o \in Counted => refs'[o] = held'[o] + Cardinality(Owners(o)') + Cardinality(Args(o)')
      BY <1>2, <1>5, <2>4, <3>2, Terms
    <3> QED BY <1>2, <1>5, <2>3, <3>1, <3>3, OneAccount
  <2>6. TypeOK'
    BY <1>2, <1>4, <1>7, <2>1, <2>2 DEF TypeOK, ObjectVars
  <2>7. OwnerInv'
    BY <1>2, <1>4, <2>1 DEF OwnerInv, TypeOK, ObjectVars
  <2> QED BY <1>4, <2>2, <2>5, <2>6, <2>7
<1> QED BY <1>6, <1>7

(* The argument of a call comes and goes.                                  *)
LEMMA BeginCallIInv ==
  ASSUME IInv, type' = type, NEW v \in Vars, NEW o \in Objects, BeginCall(v, o)
  PROVE  IInv'
<1> USE DEF IInv
<1> DEFINE g == [o |-> o, was |-> StatusIn(o)]
<1>1. PICK value : value = IF Load(v, o) = "cast_error" THEN "INVALID" ELSE Load(v, o)
  OBVIOUS
<1>2. /\ Exists(o) /\ v \notin Statics /\ Assign(v, value, g)
      /\ arg' = [arg EXCEPT ![v] = o] /\ refs' = Incremented(o)
      /\ UNCHANGED <<obj, held, owner>> /\ seen' = NothingSeen
  BY <1>1 DEF BeginCall, Assign
<1>3. /\ value \in NotOk \cup (CASE type[v] = "Status" -> {"OK"}
                                 [] type[v] = "StatusOr<int>" -> {AnInt}
                                 [] type[v] = "StatusOr<PyObject*>" -> Objects)
      /\ g \in Gifts /\ Faithful(v, value, g)
      /\ type[v] = "StatusOr<PyObject*>" => value = o
  BY <1>1, <1>2, LoadGives
<1>4. /\ cpp' \in [Vars -> Statuses \cup {"gone"} \cup Objects]
      /\ given' \in [Vars -> Gifts]
      /\ CppInv' /\ GivenInv'
      /\ cpp'[v] = value /\ \A u \in Vars \ {v} : cpp'[u] = cpp[u]
      /\ v \notin owner /\ arg[v] = NoObject
  BY <1>2, <1>3, AssignKeeps
<1>5. value # "gone"
  <2>1. type[v] \in Types
    BY DEF TypeOK
  <2> QED BY <1>3, <2>1, Kinds DEF Types
<1>6. /\ refs' \in [Counted -> Nat] /\ ObjInv'
      /\ o \in Counted => refs' = [refs EXCEPT ![o] = @ + 1]
      /\ o \notin Counted => refs' = refs
  BY <1>2, IncrefKeeps DEF Exists
<1>7. \A p : Owners(p)' = Owners(p)
  BY <1>2, <1>4, SameOwners
<1>8. /\ Args(o)' = Args(o) \cup {v} /\ v \notin Args(o)
      /\ \A p \in Objects : p # o => Args(p)' = Args(p)
  BY <1>2, <1>4, Kinds DEF Args, TypeOK
<1>9. Cardinality(Args(o)') = Cardinality(Args(o)) + 1
  BY <1>8, CountedSets, OneMore
<1>10. PayloadRefsExact'
  <2>1. \A p \in Counted : p # o => refs'[p] = refs[p]
    BY <1>6 DEF TypeOK
  <2>2. o \in Counted => refs'[o] = refs[o] + 1
    BY <1>6 DEF TypeOK
  <2>3. o \in Counted => refs'[o] = held'[o] + Cardinality(Owners(o)') + Cardinality(Args(o)')
    BY <1>2, <1>7, <1>9, <2>2, Terms
  <2> QED BY <1>2, <1>7, <1>8, <2>1, <2>3, OneAccount, Kinds
<1>11. TypeOK'
  BY <1>2, <1>4, <1>6 DEF TypeOK, ObjectVars
<1>12. OwnerInv'
  BY <1>2, <1>3, <1>4, <1>5 DEF OwnerInv, TypeOK, ObjectVars
<1> QED BY <1>4, <1>6, <1>10, <1>11, <1>12

LEMMA EndCallIInv ==
  ASSUME IInv, type' = type, NEW v \in Vars, EndCall(v)
  PROVE  IInv'
<1> USE DEF IInv
<1>1. PICK o \in Objects : o = arg[v]
  BY DEF EndCall, TypeOK
<1>2. /\ Decref(o) /\ arg' = [arg EXCEPT ![v] = NoObject]
      /\ cpp' = [cpp EXCEPT ![v] = "gone"] /\ given' = [given EXCEPT ![v] = Nothing]
      /\ UNCHANGED <<held, owner>> /\ seen' = NothingSeen
      /\ v \notin owner /\ v \notin Statics /\ Nothing \in Gifts
  BY <1>1 DEF EndCall, OwnerInv, Gifts, Nothing
<1>3. o \in Counted => refs[o] > 0
  BY <1>1, Referred
<1>4. /\ obj' \in [Slots -> Statuses \cup {"absent"} \cup Vars]
      /\ refs' \in [Counted -> Nat] /\ ObjInv'
      /\ o \in Counted => refs' = [refs EXCEPT ![o] = @ - 1]
      /\ o \notin Counted => refs' = refs
  BY <1>2, <1>3, DecrefKeeps
<1>5. \A p : Owners(p)' = Owners(p)
  BY <1>2, SameOwners DEF TypeOK
<1>6. /\ Args(o)' = Args(o) \ {v} /\ v \in Args(o)
      /\ \A p \in Objects : p # o => Args(p)' = Args(p)
  BY <1>1, <1>2, Kinds DEF Args, TypeOK
<1>7. Cardinality(Args(o)') = Cardinality(Args(o)) - 1
  BY <1>6, CountedSets, OneLess
<1>8. PayloadRefsExact'
  <2>1. \A p \in Counted : p # o => refs'[p] = refs[p]
    BY <1>4 DEF TypeOK
  <2>2. o \in Counted => refs'[o] = refs[o] - 1
    BY <1>4 DEF TypeOK
  <2>3. o \in Counted => refs'[o] = held'[o] + Cardinality(Owners(o)') + Cardinality(Args(o)')
    BY <1>2, <1>5, <1>7, <2>2, Terms
  <2> QED BY <1>2, <1>5, <1>6, <2>1, <2>3, OneAccount, Kinds
<1>9. TypeOK'
  BY <1>2, <1>4 DEF TypeOK, ObjectVars
<1>10. CppInv' /\ OwnerInv' /\ GivenInv'
  BY <1>2 DEF CppInv, OwnerInv, GivenInv, Faithful, TypeOK, ObjectVars
<1> QED BY <1>4, <1>8, <1>9, <1>10
-----------------------------------------------------------------------------
(* What returning a variable does to it, and what Python sees.             *)
LEMMA LeaveKeeps ==
  ASSUME IInv, type' = type, NEW v \in Vars, NEW value,
         value = cpp[v] \/ (value = "MOVED" /\ cpp[v] \in NotOk),
         v \in owner => value = cpp[v] /\ (v \notin owner' \/ Stays(v)),
         cpp[v] # "gone", LeaveBehind(v, value)
  PROVE  /\ cpp' \in [Vars -> Statuses \cup {"gone"} \cup Objects]
         /\ given' \in [Vars -> Gifts] /\ arg' = arg
         /\ CppInv' /\ GivenInv'
         /\ \A u \in Vars \ {v} : cpp'[u] = cpp[u]
         /\ owner' \subseteq owner => OwnerInv'
<1> USE DEF IInv, LeaveBehind
<1>1. /\ "MOVED" \in NotOk /\ Nothing \in Gifts
      /\ value # "gone"
      /\ value = cpp[v] \/ value = "MOVED"
  BY DEF NotOk, Gifts, Nothing
<1>2. /\ cpp' \in [Vars -> Statuses \cup {"gone"} \cup Objects]
      /\ cpp'[v] = IF Stays(v) THEN value ELSE "gone"
      /\ \A u \in Vars \ {v} : cpp'[u] = cpp[u]
      /\ arg' = arg
  BY <1>1, Kinds DEF TypeOK
<1>3. /\ given' \in [Vars -> Gifts]
      /\ (given'[v] = given[v] /\ cpp'[v] = cpp[v]) \/ given'[v] = Nothing
      /\ \A u \in Vars \ {v} : given'[u] = given[u]
  BY <1>1, <1>2 DEF TypeOK
<1>4. CppInv'
  BY <1>1, <1>2 DEF CppInv, Stays
<1>5. GivenInv'
  BY <1>2, <1>3 DEF GivenInv, Faithful
<1>6. ASSUME owner' \subseteq owner PROVE OwnerInv'
  <2>1. \A u \in owner' : u \in Vars /\ cpp'[u] \in Objects
    BY <1>2, <1>6 DEF OwnerInv, TypeOK, ObjectVars
  <2>2. arg[v] # NoObject => cpp'[v] = value /\ Stays(v)
    BY <1>2 DEF Stays
  <2>3. type[v] = "StatusOr<PyObject*>" /\ arg[v] # NoObject => value = cpp[v]
    BY Kinds DEF OwnerInv, TypeOK
  <2>4. ASSUME NEW u \in Vars, arg[u] # NoObject
        PROVE  /\ u \notin owner' /\ u \notin Statics /\ cpp'[u] # "gone"
               /\ type[u] = "StatusOr<PyObject*>" => cpp'[u] = arg[u]
    BY <1>1, <1>2, <1>6, <2>2, <2>3, <2>4 DEF OwnerInv
  <2> QED BY <1>2, <2>1, <2>4 DEF OwnerInv
<1> QED BY <1>2, <1>3, <1>4, <1>5, <1>6

LEMMA SeenType ==
  ASSUME NEW v \in Vars, NEW how \in {"value", "raised", "RuntimeError"},
         NEW what \in Objects \cup Statuses, See(v, how, what)
  PROVE  seen' \in [how : {"value", "raised", "RuntimeError"},
                    of : Vars, what : Objects \cup Statuses]
BY DEF See

LEMMA ReturnOkIInv ==
  ASSUME IInv, type' = type, NEW v \in Vars, ReturnOk(v)
  PROVE  IInv'
<1> USE DEF IInv
<1>1. cpp[v] # "gone" /\ v \notin owner /\ owner' = owner /\ UNCHANGED python
        /\ LeaveBehind(v, cpp[v])
  BY Kinds DEF ReturnOk, TypeOK
<1>2. /\ cpp' \in [Vars -> Statuses \cup {"gone"} \cup Objects]
      /\ given' \in [Vars -> Gifts] /\ arg' = arg
      /\ CppInv' /\ GivenInv'
      /\ \A u \in Vars \ {v} : cpp'[u] = cpp[u]
      /\ OwnerInv'
  BY <1>1, LeaveKeeps
<1>3. \A o : Owners(o)' = Owners(o)
  BY <1>1, <1>2, SameOwners
<1>4. PythonTypes' /\ ObjInv' /\ PayloadRefsExact'
  BY <1>1, <1>2, <1>3, SamePython
<1>5. seen' \in [how : {"value", "raised", "RuntimeError"},
                 of : Vars, what : Objects \cup Statuses]
  BY Kinds, SeenType DEF ReturnOk
<1>6. TypeOK'
  BY <1>1, <1>2, <1>4, <1>5 DEF TypeOK, PythonTypes, ObjectVars
<1> QED BY <1>2, <1>4, <1>6

LEMMA ReturnPayloadIInv ==
  ASSUME IInv, type' = type, NEW v \in Vars, NEW policy \in Policies,
         ReturnPayload(v, policy)
  PROVE  IInv'
<1> USE DEF IInv
<1>1. PICK p \in Objects : p = cpp[v]
  BY DEF ReturnPayload
<1>2. /\ v \in owner \/ arg[v] # NoObject
      /\ cpp[v] # "gone" /\ LeaveBehind(v, cpp[v])
      /\ policy = "take_ownership" => v \in owner
      /\ policy # "take_ownership" => Stays(v)
  BY <1>1, Kinds DEF ReturnPayload
<1>3. \/ /\ policy # "automatic"
         /\ Hold(p) /\ UNCHANGED obj
         /\ IF policy = "take_ownership"
            THEN owner' = owner \ {v} /\ UNCHANGED refs
            ELSE refs' = Incremented(p) /\ UNCHANGED owner
      \/ /\ policy = "automatic"
         /\ UNCHANGED <<python, owner>>
  BY <1>1 DEF ReturnPayload
<1>4. owner' \subseteq owner /\ (v \in owner => v \notin owner' \/ Stays(v))
  BY <1>2, <1>3
<1>5. /\ cpp' \in [Vars -> Statuses \cup {"gone"} \cup Objects]
      /\ given' \in [Vars -> Gifts] /\ arg' = arg
      /\ CppInv' /\ GivenInv'
      /\ \A u \in Vars \ {v} : cpp'[u] = cpp[u]
      /\ OwnerInv'
  BY <1>2, <1>4, LeaveKeeps
<1>6. seen' \in [how : {"value", "raised", "RuntimeError"},
                 of : Vars, what : Objects \cup Statuses]
  BY SeenType DEF ReturnPayload
<1>7. Stays(v) => cpp' = cpp
  BY <1>2 DEF LeaveBehind, TypeOK
<1>8. \A o : Args(o)' = Args(o)
  BY <1>5 DEF Args
<1>9. p \in Counted => refs[p] > 0
  <2>1. CASE v \in owner
    BY <1>1, <2>1, Referred
  <2>2. CASE v \notin owner
    <3>1. type[v] = "StatusOr<PyObject*>" /\ arg[v] # NoObject
      BY <1>2, <2>2 DEF ReturnPayload, ObjectVars
    <3>2. arg[v] = p
      BY <1>1, <3>1 DEF OwnerInv
    <3> QED BY <3>2, Referred
  <2> QED BY <2>1, <2>2
<1>10. PythonTypes' /\ ObjInv' /\ PayloadRefsExact'
  <2>1. CASE policy = "automatic"
    <3>1. UNCHANGED <<python, arg>> /\ owner' = owner /\ cpp' = cpp
      BY <1>2, <1>3, <1>5, <1>7, <2>1
    <3>2. \A o : Owners(o)' = Owners(o)
      BY <3>1 DEF Owners
    <3> QED BY <3>1, <3>2, SamePython
  <2>2. CASE policy = "take_ownership"
    <3>1. /\ Hold(p) /\ UNCHANGED <<obj, refs>> /\ owner' = owner \ {v} /\ v \in owner
      BY <1>2, <1>3, <2>2
    <3>2. PythonTypes' /\ ObjInv'
      BY <3>1 DEF Hold, TypeOK, PythonTypes, ObjInv
    <3>3. /\ Owners(p)' = Owners(p) \ {v} /\ v \in Owners(p)
          /\ \A o : o # p => Owners(o)' = Owners(o)
      BY <1>1, <1>5, <3>1 DEF Owners, TypeOK, ObjectVars
    <3>4. Cardinality(Owners(p)') = Cardinality(Owners(p)) - 1
      BY <3>3, CountedSets, OneLess
    <3>5. \A o \in Counted : o # p => held'[o] = held[o]
      BY <3>1 DEF Hold, TypeOK
    <3>6. p \in Counted => refs'[p] = held'[p] + Cardinality(Owners(p)') + Cardinality(Args(p)')
      <4>1. p \in Counted => held'[p] = held[p] + 1
        BY <3>1 DEF Hold, TypeOK
      <4> QED BY <1>8, <3>1, <3>4, <4>1, Terms
    <3>7. PayloadRefsExact'
      BY <1>8, <3>1, <3>3, <3>5, <3>6, OneAccount
    <3> QED BY <3>2, <3>7
  <2>3. CASE policy = "reference"
    <3>1. /\ Hold(p) /\ UNCHANGED obj /\ refs' = Incremented(p) /\ owner' = owner /\ cpp' = cpp
      BY <1>2, <1>3, <1>7, <2>3
    <3>2. /\ obj' \in [Slots -> Statuses \cup {"absent"} \cup Vars]
          /\ refs' \in [Counted -> Nat] /\ ObjInv'
          /\ p \in Counted => refs' = [refs EXCEPT ![p] = @ + 1]
          /\ p \notin Counted => refs' = refs
      BY <1>9, <3>1, IncrefKeeps
    <3>3. held' \in [Counted -> Nat]
      BY <3>1 DEF Hold, TypeOK
    <3>4. \A o : Owners(o)' = Owners(o)
      BY <3>1 DEF Owners
    <3>5. \A o \in Counted : o # p => refs'[o] = refs[o] /\ held'[o] = held[o]
      BY <3>1, <3>2 DEF Hold, TypeOK
    <3>6. p \in Counted => refs'[p] = held'[p] + Cardinality(Owners(p)') + Cardinality(Args(p)')
      <4>1. p \in Counted => refs'[p] = refs[p] + 1 /\ held'[p] = held[p] + 1
        BY <3>1, <3>2 DEF Hold, TypeOK
      <4> QED BY <1>8, <3>4, <4>1, Terms
    <3>7. PayloadRefsExact'
      BY <1>8, <3>4, <3>5, <3>6, OneAccount
    <3> QED BY <3>2, <3>3, <3>7 DEF PythonTypes
  <2> QED BY <2>1, <2>2, <2>3 DEF Policies
<1>11. TypeOK'
  BY <1>4, <1>5, <1>6, <1>10 DEF TypeOK, PythonTypes, ObjectVars
<1> QED BY <1>5, <1>10, <1>11

(* An error leaves as an exception, or as a Status object.                 *)
LEMMA ReturnErrorIInv ==
  ASSUME IInv, type' = type, NEW v \in Vars, NEW w \in Slots,
         ReturnRaises(v, w) \/ ReturnNoThrowOr(v, w)
  PROVE  IInv'
<1> USE DEF IInv
<1>1. PICK value :
        /\ value = cpp[v] \/ value = "MOVED"
        /\ LeaveBehind(v, value)
        /\ cpp[v] \in NotOk /\ owner' = owner /\ NewStatusObject(w, cpp[v])
  BY DEF ReturnRaises, ReturnNoThrowOr
<1>2. cpp[v] # "gone" /\ v \notin owner /\ cpp[v] \in Statuses
  BY <1>1, Kinds DEF OwnerInv
<1>3. /\ cpp' \in [Vars -> Statuses \cup {"gone"} \cup Objects]
      /\ given' \in [Vars -> Gifts] /\ arg' = arg
      /\ CppInv' /\ GivenInv'
      /\ \A u \in Vars \ {v} : cpp'[u] = cpp[u]
      /\ OwnerInv'
  BY <1>1, <1>2, LeaveKeeps
<1>4. \A o : Owners(o)' = Owners(o)
  BY <1>1, <1>2, <1>3, SameOwners
<1>5. PythonTypes' /\ ObjInv' /\ PayloadRefsExact'
  BY <1>1, <1>2, <1>3, <1>4, NewObjectKeeps
<1>6. seen' \in [how : {"value", "raised", "RuntimeError"},
                 of : Vars, what : Objects \cup Statuses]
  BY <1>2, SeenType DEF ReturnRaises, ReturnNoThrowOr
<1>7. TypeOK'
  BY <1>1, <1>3, <1>5, <1>6 DEF TypeOK, PythonTypes, ObjectVars
<1> QED BY <1>3, <1>5, <1>7

(* A Status as the object that stands for it, or as a new one.             *)
LEMMA ReturnNoThrowIInv ==
  ASSUME IInv, type' = type, NEW v \in Vars, NEW w \in Slots,
         NEW policy \in {"reference", "automatic"},
         ReturnNoThrow(v, policy, w)
  PROVE  IInv'
<1> USE DEF IInv
<1>1. /\ type[v] = "Status" /\ cpp[v] \in Statuses /\ owner' = owner
      /\ policy = "reference" => arg[v] = NoObject
      /\ LeaveBehind(v, cpp[v]) /\ See(v, "value", cpp[v])
  BY DEF ReturnNoThrow, StatusVars
<1>2. cpp[v] # "gone" /\ v \notin owner
  BY <1>1, Kinds DEF OwnerInv
<1>3. /\ cpp' \in [Vars -> Statuses \cup {"gone"} \cup Objects]
      /\ given' \in [Vars -> Gifts] /\ arg' = arg
      /\ CppInv' /\ GivenInv'
      /\ \A u \in Vars \ {v} : cpp'[u] = cpp[u]
      /\ OwnerInv'
  BY <1>1, <1>2, LeaveKeeps
<1>4. \A o : Owners(o)' = Owners(o)
  BY <1>1, <1>2, <1>3, SameOwners
<1>5. PythonTypes' /\ ObjInv' /\ PayloadRefsExact'
  <2>1. CASE Registered(v) = {}
    <3>1. NewStatusObject(w, IF Refers(v, policy) THEN v ELSE cpp[v])
      BY <2>1 DEF ReturnNoThrow
    <3>2. Refers(v, policy) => v \in Statics
      BY <1>1 DEF Refers, Stays
    <3> DEFINE content == IF Refers(v, policy) THEN v ELSE cpp[v]
    <3>3. \/ content \in Statuses
          \/ content \in Statics /\ type[content] = "Status" /\ Registered(content) = {}
      BY <1>1, <2>1, <3>2
    <3> HIDE DEF content
    <3> QED BY <1>3, <1>4, <3>1, <3>3, NewObjectKeeps DEF content
  <2>2. CASE Registered(v) # {}
    <3>1. /\ obj[w] = v /\ Hold(w) /\ refs' = Incremented(w) /\ obj' = obj
      BY <2>2 DEF ReturnNoThrow, Registered
    <3>2. w \in Counted /\ w \in Objects /\ refs[w] > 0
      BY <3>1, Kinds DEF ObjInv, TypeOK
    <3>3. /\ obj' \in [Slots -> Statuses \cup {"absent"} \cup Vars]
          /\ refs' \in [Counted -> Nat] /\ ObjInv'
          /\ refs' = [refs EXCEPT ![w] = @ + 1]
      BY <3>1, <3>2, IncrefKeeps
    <3>4. held' = [held EXCEPT ![w] = @ + 1] /\ held' \in [Counted -> Nat]
      BY <3>1, <3>2 DEF Hold, TypeOK
    <3>5. \A o \in Counted : o # w => refs'[o] = refs[o] /\ held'[o] = held[o]
      BY <3>3, <3>4 DEF TypeOK
    <3>6. \A o : Args(o)' = Args(o)
      BY <1>3 DEF Args
    <3>7. refs'[w] = held'[w] + Cardinality(Owners(w)') + Cardinality(Args(w)')
      <4>1. refs'[w] = refs[w] + 1 /\ held'[w] = held[w] + 1
        BY <3>2, <3>3, <3>4 DEF TypeOK
      <4> QED BY <1>4, <3>2, <3>6, <4>1, Terms
    <3>8. PayloadRefsExact'
      BY <1>4, <3>5, <3>6, <3>7, OneAccount
    <3> QED BY <3>3, <3>4, <3>8 DEF PythonTypes
  <2> QED BY <2>1, <2>2
<1>6. seen' \in [how : {"value", "raised", "RuntimeError"},
                 of : Vars, what : Objects \cup Statuses]
  BY <1>1, SeenType
<1>7. TypeOK'
  BY <1>1, <1>3, <1>5, <1>6 DEF TypeOK, PythonTypes, ObjectVars
<1> QED BY <1>3, <1>5, <1>7

LEMMA ReturnIInv ==
  ASSUME IInv, type' = type, NEW v \in Vars, Return(v)
  PROVE  IInv'
BY ReturnOkIInv, ReturnPayloadIInv, ReturnErrorIInv, ReturnNoThrowIInv DEF Return
-----------------------------------------------------------------------------
LEMMA NextIInv == IInv /\ [Next]_vars => IInv'
<1> SUFFICES ASSUME IInv, [Next]_vars PROVE IInv'
  OBVIOUS
<1>1. CASE Next
  <2>1. type' = type /\ Step
    BY <1>1 DEF Next
  <2>2. ASSUME NEW v \in Vars,
               \/ CppDrops(v) \/ CallbackRaises(v) \/ EndCall(v) \/ Return(v)
               \/ \E value \in {"ABORTED", "OK", AnInt} : CppMakes(v, value)
               \/ \E o \in Objects : CallbackReturns(v, o) \/ BeginCall(v, o)
        PROVE  IInv'
    BY <2>1, <2>2, CppDropsIInv, CppMakesIInv, EndCallIInv, ReturnIInv, CallbackIInv,
       BeginCallIInv
  <2> QED BY <2>1, <2>2, PythonIInv DEF Step
<1>2. CASE UNCHANGED vars
  <2>1. UNCHANGED <<python, arg>> /\ UNCHANGED <<type, cpp, owner, given, seen>>
    BY <1>2 DEF vars
  <2>2. \A o : Owners(o)' = Owners(o)
    BY <2>1 DEF Owners
  <2>3. PythonTypes' /\ ObjInv' /\ PayloadRefsExact'
    BY <2>1, <2>2, SamePython
  <2>4. TypeOK'
    BY <2>1, <2>3 DEF IInv, TypeOK, PythonTypes, ObjectVars
  <2>5. CppInv' /\ OwnerInv' /\ GivenInv'
    BY <2>1 DEF IInv, CppInv, OwnerInv, GivenInv, Faithful
  <2> QED BY <2>3, <2>4, <2>5 DEF IInv
<1> QED BY <1>1, <1>2

(* What Python sees of a variable: its value, or a success.                *)
LEMMA ReturnShows ==
  ASSUME IInv, NEW v \in Vars, Return(v)
  PROVE  /\ seen'.of = v
         /\ \/ seen'.what = cpp[v]
            \/ v \notin ObjectVars /\ cpp[v] \notin NotOk /\ seen'.what \notin NotOk
<1>1. CASE ReturnOk(v)
  <2>1. cpp[v] \notin NotOk /\ None \notin NotOk /\ AnInt \notin NotOk
    BY <1>1, Kinds DEF ReturnOk
  <2> QED BY <1>1, <2>1 DEF ReturnOk, See
<1>2. CASE \E policy \in Policies : ReturnPayload(v, policy)
  BY <1>2 DEF ReturnPayload, See
<1>3. CASE \E w \in Slots : ReturnRaises(v, w) \/ ReturnNoThrowOr(v, w)
  BY <1>3 DEF ReturnRaises, ReturnNoThrowOr, See
<1>4. CASE \E w \in Slots, policy \in {"reference", "automatic"} : ReturnNoThrow(v, policy, w)
  BY <1>4 DEF ReturnNoThrow, See
<1> QED BY <1>1, <1>2, <1>3, <1>4 DEF Return

LEMMA OthersShowNothing ==
  ASSUME Next, seen' # NothingSeen
  PROVE  \E v \in Vars : Return(v)
BY DEF Next, Step, MakeStatus, DropObject, CppDrops, CppMakes, Assign, CallbackRaises,
       CallbackReturns, BeginCall, EndCall

(* The inductive invariant holds.                                          *)
THEOREM Invariance == Spec => []IInv
<1> QED BY InitIInv, NextIInv, PTL DEF Spec

(* The state of the casters keeps its types, whatever the binding's        *)
(* policies and for any number of variables and objects; in particular no  *)
(* reference count becomes negative.                                       *)
THEOREM TypeCorrect == Spec => []TypeOK
<1>1. IInv => TypeOK
  BY DEF IInv
<1> QED BY <1>1, Invariance, PTL

(* No cast and no func_wrapper makes or swallows a reference: a payload's  *)
(* count is what Python code, StatusOr<PyObject*> values and arguments own.*)
THEOREM PayloadRefs == Spec => []PayloadRefsExact
<1>1. IInv => PayloadRefsExact
  BY DEF IInv
<1> QED BY <1>1, Invariance, PTL

(* A Python Status object lives as long as it is referred to and never     *)
(* refers to a C++ Status that is gone; a variable has one such object.    *)
THEOREM StatusObjects == Spec => []StatusObjectsSound
<1>1. IInv => StatusObjectsSound
  <2> SUFFICES ASSUME IInv, NEW w \in Slots
               PROVE  /\ obj[w] = "absent" <=> refs[w] = 0
                      /\ obj[w] \in Vars => cpp[obj[w]] # "gone" /\ Registered(obj[w]) = {w}
    BY DEF StatusObjectsSound
  <2>1. obj[w] = "absent" <=> refs[w] = 0
    BY DEF IInv, ObjInv
  <2>2. ASSUME obj[w] \in Vars PROVE cpp[obj[w]] # "gone"
    BY <2>2 DEF IInv, ObjInv, CppInv
  <2>3. ASSUME obj[w] \in Vars PROVE Registered(obj[w]) = {w}
    BY <2>3 DEF IInv, ObjInv, Registered
  <2> QED BY <2>1, <2>2, <2>3
<1> QED BY <1>1, Invariance, PTL

(* What C++ got from Python and gives back to it is what Python gave: the  *)
(* same error, the same object, and a success only for a success.          *)
THEOREM Transparency == Spec => Transparent
<1> DEFINE Shown(v) ==
      (seen' # NothingSeen /\ seen'.of = v /\ given[v] # Nothing) =>
        LET g == given[v] IN
        IF v \in ObjectVars /\ g.o # NoObject
        THEN seen'.what = g.o
        ELSE /\ g.was \in NotOk => seen'.what = g.was
             /\ seen'.what \notin NotOk => g.was = "OK" \/ g.o \in {None, AnInt}
<1>1. ASSUME IInv, [Next]_vars
      PROVE  [\A v \in Vars : Shown(v)]_vars
  <2>1. CASE UNCHANGED vars
    BY <2>1
  <2>2. ASSUME Next, NEW v \in Vars, seen' # NothingSeen, seen'.of = v, given[v] # Nothing
        PROVE  Shown(v)
    <3>1. Return(v)
      BY <1>1, <2>2, OthersShowNothing, ReturnShows
    <3>2. Faithful(v, cpp[v], given[v])
      BY <1>1, <2>2 DEF IInv, GivenInv
    <3>3. \/ seen'.what = cpp[v]
          \/ v \notin ObjectVars /\ cpp[v] \notin NotOk /\ seen'.what \notin NotOk
      BY <1>1, <3>1, ReturnShows
    <3>4. v \in ObjectVars <=> type[v] = "StatusOr<PyObject*>"
      BY DEF ObjectVars
    <3> QED BY <3>2, <3>3, <3>4 DEF Faithful
  <2> QED BY <1>1, <2>1, <2>2
<1>2. Spec => [][\A v \in Vars : Shown(v)]_vars
  BY <1>1, Invariance, PTL DEF Spec
<1> QED BY <1>2 DEF Transparent
=============================================================================
