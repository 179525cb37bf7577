------------------------ MODULE StatusObject_proofs ------------------------
(***************************************************************************)
(* Proofs about StatusObject, for any number of objects and any codes,     *)
(* messages, URLs and payloads.  The argument: a change of a status that   *)
(* is an error keeps its code and message, and those are all that a set or *)
(* an exception remembers of it; an OK status has nothing to remember.     *)
(***************************************************************************)
EXTENDS StatusObject, TLAPS

Bare(s) == IsOkValue(s) => s = Status(0, NoMessage)

SameError(s, r) == ~IsOkValue(s) => r.code = s.code /\ r.message = s.message

(* The set keeps the hash that its members still have, unless they were OK *)
(* when they were added.                                                   *)
SetInv ==
  \A o \in in_set : kept[o] # Hash(Status(0, NoMessage)) => kept[o] = Hash(status[o])

IInv == TypeOK /\ OkIsBare /\ SetInv /\ ExceptionStaysTrue

(* The operators of the class make statuses of statuses, bare if OK; those *)
(* that change one keep its error.                                         *)
LEMMA StatusMakes ==
  ASSUME NEW code \in Codes, NEW message \in Messages
  PROVE  Status(code, message) \in Values /\ Bare(Status(code, message))
BY NoMessageAssumption DEF Values, Status, NoPayloads, Bare, IsOkValue

LEMMA UpdatedMakes ==
  ASSUME NEW s \in Values, Bare(s), NEW r \in Values, Bare(r)
  PROVE  Updated(s, r) \in Values /\ Bare(Updated(s, r)) /\ SameError(s, Updated(s, r))
BY DEF Updated, SameError

LEMMA SetPayloadMakes ==
  ASSUME NEW s \in Values, Bare(s), NEW url \in Urls, NEW payload \in Payloads
  PROVE  /\ SetPayload(s, url, payload) \in Values
         /\ Bare(SetPayload(s, url, payload))
         /\ SameError(s, SetPayload(s, url, payload))
BY DEF SetPayload, Values, Bare, IsOkValue, SameError

LEMMA EraseMakes ==
  ASSUME NEW s \in Values, Bare(s), NEW url \in Urls
  PROVE  LET r == [s EXCEPT !.payloads[url] = NoPayload]
         IN  r \in Values /\ Bare(r) /\ SameError(s, r)
<1> DEFINE r == [s EXCEPT !.payloads[url] = NoPayload]
<1>1. /\ r \in Values /\ SameError(s, r) /\ r.code = s.code
      /\ r.message = s.message
      /\ r.payloads = [s.payloads EXCEPT ![url] = NoPayload]
  BY DEF Values, SameError
<1>2. ASSUME IsOkValue(r) PROVE r = Status(0, NoMessage)
  <2>1. s = Status(0, NoMessage)
    BY <1>1, <1>2 DEF Bare, IsOkValue
  <2>2. s.payloads = NoPayloads
    BY <2>1 DEF Status
  <2>3. r.payloads = NoPayloads
    BY <1>1, <2>2 DEF NoPayloads
  <2> QED BY <1>1, <2>1, <2>2, <2>3 DEF Values
<1> QED BY <1>1, <1>2 DEF Bare

LEMMA PickleMakes ==
  ASSUME NEW s \in Values, Bare(s)
  PROVE  LET copy == Deserialized(Reduced(s)) IN
         /\ copy \in Values /\ Bare(copy)
         /\ s.code \in CanonicalCodes => copy = s
         /\ Text(copy) = Text(s) /\ copy.payloads = s.payloads
         /\ IsOkValue(copy) <=> IsOkValue(s)
<1> DEFINE copy == Deserialized(Reduced(s))
<1>1. /\ Code(s) \in Codes /\ Code(s) \in CanonicalCodes
      /\ Code(s) = 0 <=> s.code = 0
      /\ s.code \in CanonicalCodes => Code(s) = s.code
  BY CodesAssumption DEF Code, Values, CanonicalCodes, UNKNOWN
<1>2. CASE IsOkValue(s)
  <2>1. s = Status(0, NoMessage) /\ s.payloads = NoPayloads /\ s.message = NoMessage
    BY <1>2 DEF Bare, Status
  <2>2. copy = Status(0, NoMessage)
    BY <1>1, <1>2, <2>1 DEF Deserialized, Reduced, IsOkValue, Status
  <2> QED BY <1>2, <2>1, <2>2 DEF Bare
<1>3. CASE ~IsOkValue(s)
  <2>1. copy = [code |-> Code(s), message |-> s.message, payloads |-> s.payloads]
    BY <1>1, <1>3 DEF Deserialized, Reduced, IsOkValue, Status
  <2>2. copy \in Values /\ copy.code = Code(s) /\ ~IsOkValue(copy)
    BY <1>1, <1>3, <2>1 DEF Values, IsOkValue
  <2>3. s.code \in CanonicalCodes => copy = s
    BY <1>1, <2>1 DEF Values
  <2>4. Text(copy) = Text(s) /\ copy.payloads = s.payloads
    BY <1>1, <2>1, <2>2 DEF Text, Code
  <2> QED BY <1>3, <2>2, <2>3, <2>4 DEF Bare
<1> QED BY <1>2, <1>3

LEMMA InitIInv == Init => IInv
BY DEF Init, IInv, TypeOK, OkIsBare, SetInv, ExceptionStaysTrue, Bound, Wrapped

(* A text is something said.                                               *)
LEMMA TextSaid == ASSUME NEW s PROVE Text(s) # <<>>
BY DEF Text

(* What is known of a status that a variable names.                        *)
LEMMA BoundValue ==
  ASSUME IInv, NEW o \in Bound
  PROVE  status[o] \in Values /\ Bare(status[o])
BY DEF IInv, TypeOK, OkIsBare, Bound, Bare

LEMMA BindIInv ==
  ASSUME IInv, NEW o \in Objects, NEW value \in Values, Bare(value), Bind(o, value)
  PROVE  IInv'
<1> USE DEF IInv, Bind
<1>1. status' \in [Objects -> Values \cup {NoStatus}]
        /\ status'[o] = value
        /\ \A p \in Objects \ {o} : status'[p] = status[p]
  BY DEF TypeOK
<1>2. Wrapped' = Wrapped /\ Bound \subseteq Bound'
  BY <1>1, NoStatusAssumption DEF Wrapped, Bound
<1>3. TypeOK'
  BY <1>1, <1>2 DEF TypeOK
<1>4. OkIsBare'
  BY <1>1 DEF TypeOK, OkIsBare, Bare, Bound
<1>5. SetInv'
  BY <1>1 DEF TypeOK, SetInv, Bound
<1>6. ExceptionStaysTrue'
  BY <1>1, <1>2 DEF ExceptionStaysTrue, Wrapped
<1> QED BY <1>3, <1>4, <1>5, <1>6

LEMMA MutateIInv ==
  ASSUME IInv, NEW o \in Bound, NEW value \in Values, Bare(value),
         SameError(status[o], value), Mutate(o, value)
  PROVE  IInv'
<1> USE DEF IInv, Mutate
<1>1. status' \in [Objects -> Values \cup {NoStatus}]
        /\ status'[o] = value
        /\ \A p \in Objects \ {o} : status'[p] = status[p]
  BY DEF TypeOK, Bound
<1>2. Wrapped' = Wrapped /\ Bound \subseteq Bound'
  BY <1>1, NoStatusAssumption DEF Wrapped, Bound
<1>3. TypeOK'
  BY <1>1, <1>2 DEF TypeOK
<1>4. OkIsBare'
  BY <1>1 DEF TypeOK, OkIsBare, Bare, Bound
<1>5. SetInv'
  <2>1. IsOkValue(status[o]) => Hash(status[o]) = Hash(Status(0, NoMessage))
    BY BoundValue DEF Bare
  <2>2. ~IsOkValue(status[o]) => Hash(value) = Hash(status[o])
    BY DEF SameError, Hash
  <2> QED BY <1>1, <2>1, <2>2 DEF TypeOK, SetInv, Bound
<1>6. ExceptionStaysTrue'
  <2>1. o \in Wrapped => ~IsOkValue(value) /\ said[o] = Text(value)
    BY DEF ExceptionStaysTrue, SameError, IsOkValue, Text, Code
  <2> QED BY <1>1, <1>2, <2>1 DEF ExceptionStaysTrue, Wrapped
<1> QED BY <1>3, <1>4, <1>5, <1>6

LEMMA RaiseNewIInv ==
  ASSUME IInv, NEW o \in Objects, NEW value \in Values, Bare(value), RaiseNew(o, value)
  PROVE  IInv'
<1> USE DEF IInv, RaiseNew
<1>1. status' \in [Objects -> Values \cup {NoStatus}]
        /\ status'[o] = value
        /\ \A p \in Objects \ {o} : status'[p] = status[p]
  BY DEF TypeOK
<1>2. said' \in [Objects -> {Text(s) : s \in Values} \cup {<<>>}]
        /\ said'[o] = Text(value)
        /\ \A p \in Objects \ {o} : said'[p] = said[p]
  BY DEF TypeOK
<1>3. Wrapped' = Wrapped \cup {o} /\ Bound \cup {o} \subseteq Bound'
  BY <1>1, <1>2, TextSaid, NoStatusAssumption DEF Wrapped, Bound
<1>4. TypeOK'
  BY <1>1, <1>2, <1>3 DEF TypeOK
<1>5. OkIsBare'
  BY <1>1 DEF TypeOK, OkIsBare, Bare, Bound
<1>6. SetInv'
  BY <1>1 DEF TypeOK, SetInv, Bound
<1>7. ExceptionStaysTrue'
  BY <1>1, <1>2, <1>3 DEF ExceptionStaysTrue, Wrapped
<1> QED BY <1>4, <1>5, <1>6, <1>7

LEMMA AddToSetIInv ==
  ASSUME IInv, NEW o \in Objects, AddToSet(o)
  PROVE  IInv'
<1> USE DEF IInv, AddToSet
<1>1. Wrapped' = Wrapped /\ Bound' = Bound /\ status[o] \in Values
  BY BoundValue DEF Wrapped, Bound
<1>2. TypeOK'
  BY <1>1 DEF TypeOK
<1>3. OkIsBare' /\ ExceptionStaysTrue'
  BY <1>1 DEF OkIsBare, ExceptionStaysTrue
<1>4. SetInv'
  BY DEF TypeOK, SetInv
<1> QED BY <1>2, <1>3, <1>4

LEMMA WrapIInv ==
  ASSUME IInv, NEW o \in Objects, Wrap(o)
  PROVE  IInv'
<1> USE DEF IInv, Wrap
<1>1. /\ Bound' = Bound /\ status[o] \in Values
      /\ said'[o] = Text(status[o])
      /\ \A p \in Objects \ {o} : said'[p] = said[p]
  BY BoundValue DEF Bound, TypeOK
<1>2. Wrapped' = Wrapped \cup {o}
  BY <1>1, TextSaid DEF Wrapped
<1>3. TypeOK'
  BY <1>1, <1>2 DEF TypeOK
<1>4. OkIsBare' /\ SetInv'
  BY <1>1 DEF OkIsBare, SetInv
<1>5. ExceptionStaysTrue'
  BY <1>1, <1>2 DEF ExceptionStaysTrue
<1> QED BY <1>3, <1>4, <1>5

LEMMA NextIInv == IInv /\ [Next]_vars => IInv'
<1> SUFFICES ASSUME IInv, [Next]_vars PROVE IInv'
  OBVIOUS
<1>1. ASSUME NEW o \in Objects, NEW code \in Codes, NEW message \in Messages,
             New(o, code, message) \/ BuildStatusNotOk(o, code, message)
      PROVE  IInv'
  BY <1>1, StatusMakes, BindIInv, RaiseNewIInv DEF New, BuildStatusNotOk
<1>2. ASSUME NEW o \in Objects, NEW p \in Objects,
             \/ CopyFromCapsule(o, p) \/ Unpickle(o, p)
             \/ \E mark \in Marks : DisplaySourceLocation(o, p, mark)
      PROVE  IInv'
  <2>1. p \in Bound /\ status[p] \in Values /\ Bare(status[p])
    BY <1>2, BoundValue DEF CopyFromCapsule, Unpickle, DisplaySourceLocation
  <2>2. PICK value \in Values : Bare(value) /\ Bind(o, value)
    <3>1. CASE CopyFromCapsule(o, p)
      BY <2>1, <3>1 DEF CopyFromCapsule
    <3>2. CASE Unpickle(o, p)
      BY <2>1, <3>2, PickleMakes DEF Unpickle
    <3>3. ASSUME NEW mark \in Marks, DisplaySourceLocation(o, p, mark)
          PROVE  \E value \in Values : Bare(value) /\ Bind(o, value)
      <4>1. Marked(status[p], mark) \in Values /\ Bare(Marked(status[p], mark))
        BY <2>1, SetPayloadMakes, MarksAssumption DEF Marked
      <4> QED BY <3>3, <4>1 DEF DisplaySourceLocation
    <3> QED BY <1>2, <3>1, <3>2, <3>3
  <2> QED BY <2>2, BindIInv
<1>3. ASSUME NEW o \in Objects, NEW p \in Objects, UnpickleException(o, p)
      PROVE  IInv'
  <2>1. p \in Bound
    BY <1>3 DEF UnpickleException, IInv, TypeOK
  <2>2. Deserialized(Reduced(status[p])) \in Values /\ Bare(Deserialized(Reduced(status[p])))
    BY <2>1, BoundValue, PickleMakes
  <2> QED BY <1>3, <2>2, RaiseNewIInv DEF UnpickleException
<1>4. ASSUME NEW o \in Objects, NEW p \in Objects, Update(o, p)
      PROVE  IInv'
  BY <1>4, BoundValue, UpdatedMakes, MutateIInv DEF Update
<1>5. ASSUME NEW o \in Objects, NEW url \in Urls,
             ErasePayload(o, url) \/ \E v \in Payloads : PutPayload(o, url, v)
      PROVE  IInv'
  <2>1. o \in Bound /\ status[o] \in Values /\ Bare(status[o])
    BY <1>5, BoundValue DEF ErasePayload, PutPayload
  <2>2. PICK value \in Values : Bare(value) /\ SameError(status[o], value) /\ Mutate(o, value)
    BY <1>5, <2>1, EraseMakes, SetPayloadMakes DEF ErasePayload, PutPayload
  <2> QED BY <2>1, <2>2, MutateIInv
<1>6. CASE UNCHANGED vars
  BY <1>6 DEF vars, IInv, TypeOK, OkIsBare, SetInv, ExceptionStaysTrue, Bound, Wrapped
<1> QED BY <1>1, <1>2, <1>3, <1>4, <1>5, <1>6, AddToSetIInv, WrapIInv DEF Next

THEOREM Invariance == Spec => []IInv
BY InitIInv, NextIInv, PTL DEF Spec

(* Every operation makes statuses of the kinds it may make, and only what  *)
(* exists is in a set or in an exception.                                  *)
THEOREM TypeCorrect == Spec => []TypeOK
<1>1. IInv => TypeOK
  BY DEF IInv
<1> QED BY <1>1, Invariance, PTL

(* Whatever becomes of the objects, an error in a Python set is found by   *)
(* what equals it.                                                         *)
THEOREM ErrorsFound == Spec => []ErrorsAreFound
<1>1. IInv => ErrorsAreFound
  BY DEF IInv, SetInv, ErrorsAreFound, Eq
<1> QED BY <1>1, Invariance, PTL

(* The status inside a StatusNotOk stays the error it was raised with.     *)
THEOREM ExceptionsStayTrue == Spec => []ExceptionStaysTrue
<1>1. IInv => ExceptionStaysTrue
  BY DEF IInv
<1> QED BY <1>1, Invariance, PTL

(* No sequence of operations gives an OK status a message or a payload.    *)
THEOREM OkStaysBare == Spec => []OkIsBare
<1>1. IInv => OkIsBare
  BY DEF IInv
<1> QED BY <1>1, Invariance, PTL

(* Of every status that can come about, pickling keeps the text, the       *)
(* payloads and whether it is an error; the copy is equal if the code is   *)
(* canonical.  A raw code that is not becomes UNKNOWN, and the copy is     *)
(* another error that says the same.  That an OK status is bare is what    *)
(* makes the copy of one its equal.                                        *)
THEOREM PicklesFaithfully == Spec => []CanonicalPickles
<1>1. IInv => CanonicalPickles
  <2> SUFFICES ASSUME IInv, NEW o \in Bound
               PROVE  LET copy == Deserialized(Reduced(status[o])) IN
                      /\ status[o].code \in CanonicalCodes => Eq(copy, status[o])
                      /\ Text(copy) = Text(status[o]) /\ copy.payloads = status[o].payloads
                      /\ IsOkValue(copy) <=> IsOkValue(status[o])
    BY DEF CanonicalPickles
  <2> QED BY BoundValue, PickleMakes DEF Eq
<1> QED BY <1>1, Invariance, PTL

(* One trip through pickle makes a status canonical, and every further one *)
(* gives back what it got: copies of copies are equal.                     *)
THEOREM PicklesOnce ==
  Spec => [](\A o \in Bound : LET copy == Deserialized(Reduced(status[o]))
                              IN  Eq(Deserialized(Reduced(copy)), copy))
<1>1. IInv => \A o \in Bound : LET copy == Deserialized(Reduced(status[o]))
                               IN  Eq(Deserialized(Reduced(copy)), copy)
  <2> SUFFICES ASSUME IInv, NEW o \in Bound
               PROVE  LET copy == Deserialized(Reduced(status[o]))
                      IN  Eq(Deserialized(Reduced(copy)), copy)
    OBVIOUS
  <2> DEFINE copy == Deserialized(Reduced(status[o]))
  <2>1. copy \in Values /\ Bare(copy)
    BY BoundValue, PickleMakes
  <2>2. copy.code \in CanonicalCodes
    BY BoundValue, CodesAssumption
       DEF Deserialized, Reduced, Status, Code, IsOkValue, CanonicalCodes, UNKNOWN, Values
  <2>3. \A s \in Values : Bare(s) /\ s.code \in CanonicalCodes
                            => Deserialized(Reduced(s)) = s
    BY PickleMakes
  <2> HIDE DEF copy
  <2>4. Deserialized(Reduced(copy)) = copy
    BY <2>1, <2>2, <2>3
  <2> QED BY <2>4 DEF Eq, copy
<1> QED BY <1>1, Invariance, PTL

(* The first error wins: whatever is done to an object that a set or an    *)
(* exception keeps, by whoever else refers to it, an error keeps its code  *)
(* and its message; only payloads come and go.                             *)
ErrorKept(o) == SameError(status[o], status'[o])

THEOREM FirstErrorsKept == Spec => [][\A o \in in_set \cup Wrapped : ErrorKept(o)]_vars
<1>1. ASSUME IInv, Next, NEW q \in in_set \cup Wrapped PROVE ErrorKept(q)
  <2>1. q \in Bound /\ q \in Objects
    BY <1>1 DEF IInv, TypeOK, Bound
  <2>2. ASSUME NEW o \in Objects, NEW value, Bind(o, value) \/ RaiseNew(o, value)
        PROVE  ErrorKept(q)
    BY <2>1, <2>2, <1>1 DEF Bind, RaiseNew, ErrorKept, SameError, IInv, TypeOK
  <2>3. ASSUME NEW o \in Bound, NEW value, SameError(status[o], value), Mutate(o, value)
        PROVE  ErrorKept(q)
    BY <2>1, <2>3, <1>1 DEF Mutate, ErrorKept, SameError, IInv, TypeOK, Bound
  <2>4. ASSUME NEW o \in Objects, status' = status PROVE ErrorKept(q)
    BY <2>4 DEF ErrorKept, SameError
  <2> PICK o \in Objects :
        \/ \E code \in Codes, message \in Messages :
             New(o, code, message) \/ BuildStatusNotOk(o, code, message)
        \/ \E p \in Objects :
             \/ CopyFromCapsule(o, p) \/ Unpickle(o, p) \/ UnpickleException(o, p)
             \/ Update(o, p) \/ \E mark \in Marks : DisplaySourceLocation(o, p, mark)
        \/ \E url \in Urls : ErasePayload(o, url) \/ \E v \in Payloads : PutPayload(o, url, v)
        \/ AddToSet(o) \/ Wrap(o)
    BY <1>1 DEF Next
  <2>5. ASSUME NEW p \in Objects, Update(o, p) PROVE ErrorKept(q)
    <3>1. o \in Bound /\ SameError(status[o], Updated(status[o], status[p]))
      BY <1>1, <2>5, BoundValue, UpdatedMakes DEF Update
    <3> QED BY <2>3, <2>5, <3>1 DEF Update
  <2>6. ASSUME NEW url \in Urls,
               ErasePayload(o, url) \/ \E v \in Payloads : PutPayload(o, url, v)
        PROVE  ErrorKept(q)
    <3>1. o \in Bound /\ status[o] \in Values /\ Bare(status[o])
      BY <1>1, <2>6, BoundValue DEF ErasePayload, PutPayload
    <3>2. PICK value : SameError(status[o], value) /\ Mutate(o, value)
      BY <2>6, <3>1, EraseMakes, SetPayloadMakes DEF ErasePayload, PutPayload
    <3> QED BY <2>3, <3>1, <3>2
  <2>7. CASE AddToSet(o) \/ Wrap(o)
    BY <2>4, <2>7 DEF AddToSet, Wrap
  <2> QED BY <2>2, <2>5, <2>6, <2>7
          DEF New, BuildStatusNotOk, CopyFromCapsule, Unpickle, UnpickleException,
              DisplaySourceLocation
<1>2. IInv /\ [Next]_vars => [\A o \in in_set \cup Wrapped : ErrorKept(o)]_vars
  BY <1>1
<1> QED BY <1>2, Invariance, PTL DEF Spec
=============================================================================
