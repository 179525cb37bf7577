-------------------------- MODULE StatusFromPyExc --------------------------
(***************************************************************************)
(* A Python callable behind a std::function<absl::Status(...)>: the        *)
(* noexcept func_wrapper of status_caster.h and statusor_caster.h, and     *)
(* compat/status_from_py_exc.cc, which turns the exception the callable    *)
(* raised into an absl::Status.  To recognise StatusNotOk it imports the   *)
(* status module, once, and keeps what it found: the class or None.        *)
(*                                                                         *)
(* The callable may let other threads run, and so may the import; the rest *)
(* of a call is one step.  The threads also do everything StatusModule     *)
(* describes.                                                              *)
(***************************************************************************)
EXTENDS StatusModule

VARIABLES
  alive,        \* the process has not been terminated
  cache,        \* static kImportedObj: a class, 0 for Py_None, or Unset
  call_pc,      \* "out", in the "callable", or "looking_up" the class
  exc,          \* the exception the thread's callable has raised
  result        \* what func_wrapper has returned to C++, till the next call

call_vars == <<alive, cache, call_pc, exc, result>>
vars == <<module_vars, call_vars>>

Unset == MaxClasses + 1   \* kImportedObj == nullptr

(* What a callable raises, told apart by the entries of                    *)
(* GetPyExceptionStatusCodeMap that it matches, with an exception of two   *)
(* base classes matching two, and one whose __str__ raises matching none;  *)
(* StatusNotOk carries a status of its own, an error, unless Python code   *)
(* has put an OK status, or no status at all, in its place: a subclass     *)
(* that overrides `status`, or an assignment to `_status`.  A subclass may *)
(* derive from KeyError as well.                                           *)
StatusNotOkKinds == {"StatusNotOk", "StatusNotOkAndKeyError",
                     "StatusNotOkWithOkStatus", "StatusNotOkWithoutStatus"}
Kinds == {"KeyError", "ValueError", "KeyErrorAndValueError", "Exception",
          "Unprintable"} \cup StatusNotOkKinds
Exceptions == {e \in [kind : Kinds, class : Class] :
                 (e.class # 0) <=> e.kind \in StatusNotOkKinds}
NoException == [kind |-> "none", class |-> 0]

Own == "ABORTED"   \* the code of an error inside a StatusNotOk
OwnCode(kind) == IF kind = "StatusNotOkWithOkStatus" THEN "OK" ELSE Own
Codes == {"OK", "INVALID_ARGUMENT", "OUT_OF_RANGE", "NOT_FOUND", "UNKNOWN", Own}

NoResult == [of |-> "none", code |-> "OK"]

MatchedCodes(e) ==
  (IF e.kind \in {"KeyError", "KeyErrorAndValueError", "StatusNotOkAndKeyError"} THEN {"NOT_FOUND"} ELSE {})
    \cup
  (IF e.kind \in {"ValueError", "KeyErrorAndValueError"} THEN {"OUT_OF_RANGE"} ELSE {})

TypeOK ==
  /\ ModuleTypeOK
  /\ alive \in BOOLEAN
  /\ cache \in Class \cup {Unset}
  /\ call_pc \in [Threads -> {"out", "callable", "looking_up"}]
  /\ exc \in [Threads -> Exceptions \cup {NoException}]
  /\ result \in [Threads -> [of : Kinds \cup {"none", "value"}, code : Codes]]

Init ==
  /\ ModuleInit
  /\ alive = TRUE
  /\ cache = Unset
  /\ call_pc = [t \in Threads |-> "out"]
  /\ exc = [t \in Threads |-> NoException]
  /\ result = [t \in Threads |-> NoResult]
-----------------------------------------------------------------------------
Busy(t) == call_pc[t] = "looking_up" \/ import_pc[t] # "out"

(* C++ calls the std::function.  Converting an argument may throw          *)
(* cast_error, or StatusNotOk for a non-OK absl::Status argument: neither  *)
(* is error_already_set, so noexcept terminates.                           *)
Call(t) ==
  /\ call_pc[t] = "out" /\ ~Busy(t)
  /\ call_pc' = [call_pc EXCEPT ![t] = "callable"]
  /\ result' = [result EXCEPT ![t] = NoResult]
  /\ UNCHANGED <<module_vars, alive, cache, exc>>

ArgumentThrows(t) ==
  /\ call_pc[t] = "out" /\ ~Busy(t)
  /\ alive' = FALSE
  /\ UNCHANGED <<module_vars, cache, call_pc, exc, result>>

Leave(t) ==
  /\ call_pc' = [call_pc EXCEPT ![t] = "out"]
  /\ exc' = [exc EXCEPT ![t] = NoException]

ReturnToCpp(t, of, code) ==
  /\ Leave(t)
  /\ result' = [result EXCEPT ![t] = [of |-> of, code |-> code]]

(* The callable returns: None or an OK status, a non-OK status, or a value *)
(* that is no status at all (cast_error).                                  *)
CallableReturns(t) ==
  /\ call_pc[t] = "callable" /\ ~Busy(t)
  /\ \E code \in {"OK", Own, "INVALID_ARGUMENT"} : ReturnToCpp(t, "value", code)
  /\ UNCHANGED <<module_vars, alive, cache>>

\* Mutant: no matching entry means no error.
CodeFromMapOrOk(e, code) ==
  IF MatchedCodes(e) = {} THEN code = "OK" ELSE code \in MatchedCodes(e)

(* StatusFromFetchedExc: whichever matching entry the hash map's iteration *)
(* meets first.                                                            *)
CodeFromMap(e, code) ==
  IF MatchedCodes(e) = {} THEN code = "UNKNOWN" ELSE code \in MatchedCodes(e)

\* Mutant: the map's entries are tried before StatusNotOk.
MatchesAfterMap(e, class) ==
  class # 0 /\ e.class = class /\ MatchedCodes(e) = {}

(* fetched.Matches(PyStatusNotOkOrNone()); nothing matches None.           *)
Matches(e, class) == class # 0 /\ e.class = class

(* ABSL_LOG(FATAL): a StatusNotOk has no status to take out, or another    *)
(* exception no message for the status to carry (FlatMessage).             *)
Fatal(e, class) ==
  e.kind = IF Matches(e, class) THEN "StatusNotOkWithoutStatus" ELSE "Unprintable"

(* The rest of StatusFromPyExcGivenErrOccurred once PyStatusNotOkOrNone()  *)
(* has answered `class`.  The status of a StatusNotOk is returned whatever *)
(* it is, without a look at ok().                                          *)
Convert(t, e, class) ==
  \/ /\ Fatal(e, class)
     /\ alive' = FALSE
     /\ Leave(t)
     /\ UNCHANGED result
  \/ /\ ~Fatal(e, class)
     /\ \E code \in Codes :
          /\ IF Matches(e, class) THEN code = OwnCode(e.kind) ELSE CodeFromMap(e, code)
          /\ ReturnToCpp(t, e.kind, code)
     /\ UNCHANGED alive

(* A StatusNotOk can be raised once its class is there to be raised.       *)
Raisable(e) == e.class <= classes

\* Mutant: None is not kept but looked up again.
MustLookUpAgain == cache \in {0, Unset}

MustLookUp == cache = Unset

CallableRaises(t, e) ==
  /\ call_pc[t] = "callable" /\ ~Busy(t)
  /\ Raisable(e)
  /\ \/ /\ ~MustLookUp
        /\ Convert(t, e, cache)
     \/ /\ MustLookUp
        /\ call_pc' = [call_pc EXCEPT ![t] = "looking_up"]
        /\ exc' = [exc EXCEPT ![t] = e]
        /\ UNCHANGED <<alive, result>>
  /\ UNCHANGED <<module_vars, cache>>

(* ImportObjectOrReturnNone: the import proceeds, in the end found or not. *)
LookupContinues(t) ==
  /\ call_pc[t] = "looking_up"
  /\ ImportStep(t)
  /\ import_pc'[t] # "out"
  /\ UNCHANGED call_vars

LookupEnds(t) ==
  /\ call_pc[t] = "looking_up"
  /\ ImportStep(t)
  /\ import_pc'[t] = "out"
  /\ cache' = seen'[t].class
  /\ Convert(t, exc[t], cache')

(* Meanwhile Python code imports the module, or calls C++ functions that   *)
(* return non-OK statuses, inside a callable or not.                       *)
PythonStep(t) ==
  /\ call_pc[t] # "looking_up"
  /\ ImportStep(t) \/ ReturnNotOk(t)
  /\ UNCHANGED call_vars

ThreadStep(t) ==
  \/ Call(t) \/ ArgumentThrows(t)
  \/ CallableReturns(t) \/ (\E e \in Exceptions : CallableRaises(t, e))
  \/ LookupContinues(t) \/ LookupEnds(t)
  \/ PythonStep(t)

Next == alive /\ \E t \in Threads : ThreadStep(t)

Spec == Init /\ [][Next]_vars

(* A thread inside an import, its own or a lookup's, is scheduled: see     *)
(* ImportFairness.                                                         *)
ImportingStep(t) ==
  alive /\ Busy(t) /\ (LookupContinues(t) \/ LookupEnds(t) \/ PythonStep(t))

FairSpec == Spec /\ \A t \in Threads : WF_vars(ImportingStep(t))
-----------------------------------------------------------------------------
(* A callable that raised is reported to C++ as success in one case only:  *)
(* what it raised was recognised as a StatusNotOk, and the status that     *)
(* Python code had put into it was OK.  Every other exception, and this    *)
(* one too when its class was not found, is an error, however lookups of   *)
(* the class race with imports and fail.                                   *)
OkOnlyByOwnStatus ==
  [][\A t \in Threads :
       (result'[t] # result[t] /\ result'[t].of \in Kinds /\ result'[t].code = "OK")
         => /\ result'[t].of = "StatusNotOkWithOkStatus"
            /\ cache' # 0 /\ cache' = imported']_vars

(* The one way a StatusNotOk can lose the code of the status inside it is  *)
(* a lookup of the class that has ended in None and was kept; being a      *)
(* KeyError as well does not change it.                                    *)
CodeLostOnlyByFailedLookup ==
  [][\A t \in Threads :
       (result'[t] # result[t] /\ result'[t].of \in StatusNotOkKinds)
         => result'[t].code = OwnCode(result'[t].of) \/ cache' = 0]_vars

(* C++ gets its answer: a callback that has to look StatusNotOk up, while  *)
(* other threads hold the module's import lock or look it up themselves,   *)
(* returns in the end, unless the process is terminated.                   *)
LookupsEnd ==
  \A t \in Threads :
    call_pc[t] = "looking_up" ~> (call_pc[t] = "out" \/ ~alive)

(* kImportedObj is a lazily filled cell, racing lookups included.          *)
Cell == INSTANCE LazyCell WITH
          Values <- Class,
          Unset <- Unset,
          value <- cache,
          fillers <- {t \in Threads : call_pc[t] = "looking_up"}
ImplementsLazyCell == Cell!Spec

(* What the comment in StatusFromPyExcGivenErrOccurred relies on: when the *)
(* lookup answers None, StatusNotOk "cannot possibly have been used to     *)
(* raise the exception to be matched here".                                *)
NoneMeansNotRaised ==
  [][\A t \in Threads :
       (result'[t] # result[t] /\ result'[t].of \in StatusNotOkKinds)
         => cache' # 0]_vars
=============================================================================
