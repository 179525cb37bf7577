---------------------------- MODULE StatusObject ----------------------------
(***************************************************************************)
(* The Python class Status of register_status_bindings.cc: a mutable       *)
(* absl::Status with value equality, a hash, pickling by __reduce_ex__ and *)
(* InitFromTag, and the exception StatusNotOk that keeps one by reference. *)
(*                                                                         *)
(* Python variables name Status objects; the objects also sit in a Python  *)
(* set, which remembers the hash each had when it was added, and inside    *)
(* exceptions.                                                             *)
(***************************************************************************)
EXTENDS Naturals

CONSTANTS Objects,    \* Status objects, each under a variable of its name
          Codes,      \* raw codes, 0 is absl::OkStatus()
          Messages,
          Urls,       \* payload type URLs
          Payloads,
          DisplayUrl, \* the URL of the mark "display the source location"
          Marks,      \* its payloads: kDisplay, kDoNotDisplay
          NoMessage,  \* the empty message
          NoPayload,  \* no payload for a URL
          NoStatus    \* the variable is not bound yet

CanonicalCodes == 0..16
UNKNOWN == 2

ASSUME CodesAssumption == Codes \subseteq Nat /\ {0, UNKNOWN} \subseteq Codes
ASSUME MarksAssumption == DisplayUrl \in Urls /\ Marks \subseteq Payloads
ASSUME NoMessageAssumption == NoMessage \in Messages
ASSUME NoPayloadAssumption == NoPayload \notin Payloads

VARIABLES
  status,   \* the value of each object, NoStatus before it exists
  in_set,   \* the objects in the Python set
  kept,     \* the hash that the set keeps of each
  said      \* what StatusNotOk said of each when it was made, <<>> if
            \*   no exception holds the object as its _status

vars == <<status, in_set, kept, said>>

NoPayloads == [u \in Urls |-> NoPayload]
Values == [code : Codes, message : Messages, payloads : [Urls -> Payloads \cup {NoPayload}]]
ASSUME NoStatusAssumption == NoStatus \notin Values

Bound == {o \in Objects : status[o] # NoStatus}
Wrapped == {o \in Objects : said[o] # <<>>}

(* absl::Status(code, message): an OK status drops its message.            *)
Status(code, message) ==
  [code |-> code,
   message |-> IF code = 0 THEN NoMessage ELSE message,
   payloads |-> NoPayloads]

IsOkValue(s) == s.code = 0

\* Mutant: what is not canonical passes for INTERNAL.
CodeOrInternal(s) == IF s.code \in CanonicalCodes THEN s.code ELSE 13

(* absl::Status::code(): what is not canonical is UNKNOWN.                 *)
Code(s) == IF s.code \in CanonicalCodes THEN s.code ELSE UNKNOWN

(* str() of a StatusNotOk: Exception.__init__ keeps it as args.            *)
Text(s) == <<s.message, Code(s)>>

(* __eq__ compares what the capsule of the right-hand side points at: raw  *)
(* code, message and payloads.                                             *)
Eq(s, r) == s = r

\* Mutant: the payloads are hashed too.
HashWithPayloads(s) == <<s.code, s.message, s.payloads>>

(* __hash__ combines raw code and message; "payload is ignored             *)
(* intentionally".  The model has no collisions.                           *)
Hash(s) == <<s.code, s.message>>

\* Mutant: the payloads are left out.
ReducedWithoutPayloads(s) == [code |-> Code(s), message |-> s.message, payloads |-> NoPayloads]

(* __reduce_ex__: code(), message_bytes() and AllPayloads().               *)
Reduced(s) == [code |-> Code(s), message |-> s.message, payloads |-> s.payloads]

\* Mutant: no test for OK.
SetPayloadAlways(s, url, payload) == [s EXCEPT !.payloads[url] = payload]

(* absl::Status::SetPayload does nothing on an OK status.                  *)
SetPayload(s, url, payload) ==
  IF IsOkValue(s) THEN s ELSE [s EXCEPT !.payloads[url] = payload]

(* Status(InitFromTag.serialized, state): SetPayload for each pair.        *)
Deserialized(state) ==
  LET bare == Status(state.code, state.message)
  IN  IF IsOkValue(bare) THEN bare ELSE [bare EXCEPT !.payloads = state.payloads]

\* Mutant: the last error wins.
UpdatedAlways(s, other) == other

(* absl::Status::Update keeps the first error.                             *)
Updated(s, other) == IF IsOkValue(s) THEN other ELSE s

TypeOK ==
  /\ status \in [Objects -> Values \cup {NoStatus}]
  /\ in_set \subseteq Bound
  /\ Wrapped \subseteq Bound
  /\ kept \in [Objects -> {Hash(s) : s \in Values} \cup {<<>>}]
  /\ said \in [Objects -> {Text(s) : s \in Values} \cup {<<>>}]

Init ==
  /\ status = [o \in Objects |-> NoStatus]
  /\ in_set = {}
  /\ kept = [o \in Objects |-> <<>>]
  /\ said = [o \in Objects |-> <<>>]
-----------------------------------------------------------------------------
(* A new object is bound to variable o; the old one is gone, unless a set  *)
(* or an exception keeps it: then o is not rebound (a bound on the model). *)
Bind(o, value) ==
  /\ o \notin in_set \cup Wrapped
  /\ status' = [status EXCEPT ![o] = value]
  /\ UNCHANGED <<in_set, kept, said>>

Mutate(o, value) ==
  /\ status' = [status EXCEPT ![o] = value]
  /\ UNCHANGED <<in_set, kept, said>>

(* Status(), Status(code, msg), the canonical error factories, or what a   *)
(* C++ function returns without throwing it.  StatusCode(500) is not       *)
(* refused in Python, so that any of them may have any raw code.           *)
New(o, code, message) == Bind(o, Status(code, message))

(* Status(InitFromTag.capsule, p) and capsule_direct_only: a copy of what  *)
(* the capsule points at, here a living object.                            *)
CopyFromCapsule(o, p) == p \in Bound /\ Bind(o, status[p])

(* pickle.loads(pickle.dumps(p)).                                          *)
Unpickle(o, p) == p \in Bound /\ Bind(o, Deserialized(Reduced(status[p])))

Update(o, p) ==
  /\ {o, p} \subseteq Bound
  /\ Mutate(o, Updated(status[o], status[p]))

PutPayload(o, url, payload) ==
  /\ o \in Bound
  /\ Mutate(o, SetPayload(status[o], url, payload))

ErasePayload(o, url) ==
  /\ o \in Bound
  /\ Mutate(o, [status[o] EXCEPT !.payloads[url] = NoPayload])

(* a_set.add(o)                                                            *)
AddToSet(o) ==
  /\ o \in Bound \ in_set
  /\ in_set' = in_set \cup {o}
  /\ kept' = [kept EXCEPT ![o] = Hash(status[o])]
  /\ UNCHANGED <<status, said>>

(* StatusNotOk(o): assert not status.ok()                                  *)
Wrap(o) ==
  /\ o \in Bound
  /\ ~IsOkValue(status[o])
  /\ said' = [said EXCEPT ![o] = Text(status[o])]
  /\ UNCHANGED <<status, in_set, kept>>

(* An exception with a new status o of its own, if that is an error.       *)
RaiseNew(o, value) ==
  /\ o \notin in_set \cup Wrapped
  /\ ~IsOkValue(value)
  /\ status' = [status EXCEPT ![o] = value]
  /\ said' = [said EXCEPT ![o] = Text(value)]
  /\ UNCHANGED <<in_set, kept>>

(* BuildStatusNotOk(), and the translator of a thrown C++ StatusNotOk.     *)
BuildStatusNotOk(o, code, message) == RaiseNew(o, Status(code, message))

(* pickle.loads(pickle.dumps(e)) of an exception e with status p.          *)
UnpickleException(o, p) ==
  p \in Wrapped /\ RaiseNew(o, Deserialized(Reduced(status[p])))

(* DisplaySourceLocationInPython(), DoNotDisplaySourceLocationInPython():  *)
(* C++ code marks a copy of a status, or of a StatusOr that has none to    *)
(* mark if it is OK, and returns it.                                       *)
Marked(s, mark) == SetPayload(s, DisplayUrl, mark)
DisplaySourceLocation(o, p, mark) == p \in Bound /\ Bind(o, Marked(status[p], mark))

Next ==
  \E o \in Objects :
    \/ \E code \in Codes, message \in Messages :
         New(o, code, message) \/ BuildStatusNotOk(o, code, message)
    \/ \E p \in Objects :
         \/ CopyFromCapsule(o, p) \/ Unpickle(o, p) \/ UnpickleException(o, p)
         \/ Update(o, p) \/ \E mark \in Marks : DisplaySourceLocation(o, p, mark)
    \/ \E url \in Urls : ErasePayload(o, url) \/ \E v \in Payloads : PutPayload(o, url, v)
    \/ AddToSet(o) \/ Wrap(o)

Spec == Init /\ [][Next]_vars
-----------------------------------------------------------------------------
(* An error in a Python set is found there by every equal status, whatever *)
(* has happened to either in the meantime: __eq__ and __hash__ agree, and  *)
(* what may change of an error does not move it.  (An OK status that is    *)
(* updated in a set is lost to it.)                                        *)
ErrorsAreFound ==
  \A o \in in_set, p \in Bound :
    (kept[o] # Hash(Status(0, NoMessage)) /\ Eq(status[o], status[p]))
      => kept[o] = Hash(status[p])

(* What a StatusNotOk said of its status when it was made stays true, and  *)
(* the status never becomes OK, though the exception only refers to it and *)
(* everybody may go on to update it.                                       *)
ExceptionStaysTrue ==
  \A o \in Wrapped : ~IsOkValue(status[o]) /\ said[o] = Text(status[o])

(* An OK status has no message and no payloads, however it came about.     *)
OkIsBare == \A o \in Bound : IsOkValue(status[o]) => status[o] = Status(0, NoMessage)

(* A status survives pickling, payloads included, but for a raw code that  *)
(* is not canonical: it becomes UNKNOWN, which an exception calls it       *)
(* anyway, so that what a pickled StatusNotOk says is what the original    *)
(* says, and it is still an error.                                         *)
CanonicalPickles ==
  \A o \in Bound :
    LET copy == Deserialized(Reduced(status[o])) IN
    /\ status[o].code \in CanonicalCodes => Eq(copy, status[o])
    /\ Text(copy) = Text(status[o]) /\ copy.payloads = status[o].payloads
    /\ IsOkValue(copy) <=> IsOkValue(status[o])
=============================================================================
