----------------------- MODULE StatusFromPyExc_proofs -----------------------
(***************************************************************************)
(* Proofs about StatusFromPyExc, for any number of threads and any of the  *)
(* failures of an import.  They stand on StatusModule_proofs: there is one *)
(* class at most, so that what is raised, what is looked up and what is    *)
(* kept can only be that class, or none.                                   *)
(***************************************************************************)
EXTENDS StatusFromPyExc, StatusModule_proofs

(* A class that anybody has in hand is the one that has been defined.      *)
KnownInv ==
  /\ cache # Unset => cache \in {0, classes}
  /\ \A t \in Threads : exc[t].class \in {0, classes}

(* A thread that looks the class up does so on behalf of an exception.     *)
LookupInv == \A t \in Threads : call_pc[t] = "looking_up" => exc[t] \in Exceptions

IInv == ModuleIInv /\ TypeOK /\ KnownInv /\ LookupInv

LEMMA UnsetIsNoClass == Unset \notin Class
BY MaxClassesAssumption DEF Unset, Class

(* A class is defined only when there is none.                             *)
LEMMA FirstClassIsLast ==
  ASSUME ModuleIInv, NEW t \in Threads, ImportStep(t) \/ ReturnNotOk(t)
  PROVE  classes' = classes \/ classes = 0
<1>1. CASE EndInit(t) \/ FailAfterRegistering(t)
  <2>1. importer = t
    BY <1>1 DEF EndInit, FailAfterRegistering, LeaveImport, ModuleIInv, LockInv
  <2> QED BY <2>1, ThreadsAssumption DEF ModuleIInv, FirstInv
<1>2. CASE ~(EndInit(t) \/ FailAfterRegistering(t))
  BY <1>2 DEF ImportStep, FindModule, WaitForImport, ModuleMissing, BeginInit,
              FailInExec, ReturnNotOk, registered
<1> QED BY <1>1, <1>2

(* What an import ends with, for the thread that made it: the class of the *)
(* module in sys.modules, or nothing.                                      *)
LEMMA ImportFindsImported ==
  ASSUME ModuleIInv, NEW t \in Threads, ImportStep(t), import_pc'[t] = "out"
  PROVE  seen'[t].class \in {0, imported'}
<1> USE DEF ModuleIInv, ModuleTypeOK, End
<1>1. CASE FindModule(t)
  BY <1>1 DEF FindModule
<1>2. CASE WaitForImport(t)
  BY <1>2 DEF WaitForImport
<1>3. CASE ModuleMissing(t) \/ BeginInit(t)
  BY <1>3 DEF ModuleMissing, BeginInit, FailImport
<1>4. CASE FailInExec(t) \/ FailAfterRegistering(t)
  BY <1>4 DEF FailInExec, FailAfterRegistering
<1>5. CASE EndInit(t)
  BY <1>5 DEF EndInit
<1> QED BY <1>1, <1>2, <1>3, <1>4, <1>5 DEF ImportStep

LEMMA ImportFinds ==
  ASSUME ModuleIInv, NEW t \in Threads, ImportStep(t), import_pc'[t] = "out"
  PROVE  seen'[t].class \in {0, classes'}
<1>1. ModuleIInv'
  BY ModuleNextIInv DEF ModuleNext
<1> QED BY <1>1, ImportFindsImported DEF ModuleIInv, ClassInv

LEMMA InitIInv == Init => IInv
<1> SUFFICES ASSUME Init PROVE IInv
  OBVIOUS
<1>1. ModuleIInv
  BY ModuleInitIInv DEF Init
<1>2. TypeOK
  BY <1>1 DEF Init, TypeOK, ModuleIInv, NoException, NoResult, Codes
<1>3. KnownInv /\ LookupInv
  BY DEF Init, KnownInv, LookupInv, NoException
<1> QED BY <1>1, <1>2, <1>3 DEF IInv

(* What StatusFromPyExcGivenErrOccurred answers is the exception's own     *)
(* status if it was recognised, and otherwise an error.                    *)
LEMMA ConvertAnswers ==
  ASSUME TypeOK, NEW t \in Threads, NEW e \in Exceptions, NEW class \in Class,
         Convert(t, e, class)
  PROVE  /\ alive' \in BOOLEAN
         /\ call_pc' = [call_pc EXCEPT ![t] = "out"]
         /\ exc' = [exc EXCEPT ![t] = NoException]
         /\ \/ result' = result
            \/ \E code \in Codes :
                 /\ result' = [result EXCEPT ![t] = [of |-> e.kind, code |-> code]]
                 /\ Matches(e, class) => code = OwnCode(e.kind)
                 /\ code = "OK" => Matches(e, class)
<1>1. CASE Fatal(e, class)
  BY <1>1 DEF Convert, Leave, TypeOK
<1>2. CASE ~Fatal(e, class)
  <2>1. PICK code \in Codes :
           /\ IF Matches(e, class) THEN code = OwnCode(e.kind) ELSE CodeFromMap(e, code)
           /\ ReturnToCpp(t, e.kind, code)
           /\ UNCHANGED alive
    BY <1>2 DEF Convert
  <2>2. MatchedCodes(e) \subseteq {"NOT_FOUND", "OUT_OF_RANGE"}
    BY DEF MatchedCodes
  <2>3. code = "OK" => Matches(e, class)
    BY <2>1, <2>2 DEF CodeFromMap
  <2> QED BY <2>1, <2>3 DEF ReturnToCpp, Leave, TypeOK
<1> QED BY <1>1, <1>2

(* A callback's answer keeps the invariant, given what the module and the  *)
(* cache have become.                                                      *)
LEMMA ConvertIInv ==
  ASSUME IInv, ModuleIInv', NEW t \in Threads, NEW e \in Exceptions,
         NEW class \in Class, Convert(t, e, class),
         cache' \in Class, cache' \in {0, classes'},
         classes' = classes \/ classes = 0
  PROVE  IInv'
<1> USE DEF IInv
<1>1. /\ alive' \in BOOLEAN
      /\ call_pc' = [call_pc EXCEPT ![t] = "out"]
      /\ exc' = [exc EXCEPT ![t] = NoException]
      /\ \/ result' = result
         \/ \E code \in Codes :
              result' = [result EXCEPT ![t] = [of |-> e.kind, code |-> code]]
  BY ConvertAnswers
<1>2. e.kind \in Kinds
  BY DEF Exceptions
<1>3. TypeOK'
  BY <1>1, <1>2 DEF TypeOK, ModuleIInv
<1>4. KnownInv' /\ LookupInv'
  BY <1>1 DEF TypeOK, KnownInv, LookupInv, NoException
<1> QED BY <1>3, <1>4

(* Steps of Python code and of an import that goes on touch the module     *)
(* alone.                                                                  *)
LEMMA ModuleStepIInv ==
  ASSUME IInv, NEW t \in Threads, ImportStep(t) \/ ReturnNotOk(t), UNCHANGED call_vars
  PROVE  IInv'
<1> USE DEF IInv, call_vars
<1>1. ModuleIInv'
  BY ModuleNextIInv DEF ModuleNext
<1>2. TypeOK'
  BY <1>1 DEF TypeOK, ModuleIInv
<1>3. KnownInv' /\ LookupInv'
  BY FirstClassIsLast DEF KnownInv, LookupInv
<1> QED BY <1>1, <1>2, <1>3

LEMMA CallIInv ==
  ASSUME IInv, NEW t \in Threads, Call(t) \/ ArgumentThrows(t) \/ CallableReturns(t)
  PROVE  IInv'
<1> USE DEF IInv
<1>1. UNCHANGED <<module_vars, cache>> /\ alive' \in BOOLEAN
  BY DEF Call, ArgumentThrows, CallableReturns, TypeOK
<1>2. /\ call_pc[t] # "looking_up"
      /\ exc' = exc \/ exc' = [exc EXCEPT ![t] = NoException]
      /\ \/ call_pc' = call_pc
         \/ \E pc \in {"callable", "out"} : call_pc' = [call_pc EXCEPT ![t] = pc]
      /\ \/ result' = result
         \/ \E of \in {"none", "value"}, code \in Codes :
              result' = [result EXCEPT ![t] = [of |-> of, code |-> code]]
  BY DEF Call, ArgumentThrows, CallableReturns, ReturnToCpp, Leave, NoResult, Codes, Own
<1>3. ModuleIInv'
  BY <1>1, ModuleNextIInv
<1>4. TypeOK'
  BY <1>1, <1>2, <1>3 DEF TypeOK, ModuleIInv
<1>5. KnownInv' /\ LookupInv'
  <2>1. classes' = classes
    BY <1>1 DEF module_vars, registered
  <2>2. KnownInv'
    BY <1>1, <1>2, <2>1 DEF TypeOK, KnownInv, NoException
  <2>3. LookupInv'
    BY <1>2 DEF TypeOK, LookupInv
  <2> QED BY <2>2, <2>3
<1> QED BY <1>3, <1>4, <1>5

LEMMA RaiseIInv ==
  ASSUME IInv, NEW t \in Threads, NEW e \in Exceptions, CallableRaises(t, e)
  PROVE  IInv'
<1> USE DEF IInv
<1>1. UNCHANGED <<module_vars, cache>> /\ classes' = classes
  BY DEF CallableRaises, module_vars, registered
<1>2. ModuleIInv'
  BY <1>1, ModuleNextIInv
<1>3. CASE ~MustLookUp
  <2>1. cache \in Class /\ cache \in {0, classes} /\ Convert(t, e, cache)
    BY <1>3 DEF CallableRaises, MustLookUp, TypeOK, KnownInv
  <2> QED BY <1>1, <1>2, <2>1, ConvertIInv
<1>4. CASE MustLookUp
  <2>1. /\ call_pc' = [call_pc EXCEPT ![t] = "looking_up"]
        /\ exc' = [exc EXCEPT ![t] = e]
        /\ UNCHANGED <<alive, result>>
    BY <1>4 DEF CallableRaises
  <2>2. e.class \in {0, classes}
    <3>1. e.class <= classes /\ e.class \in Class
      BY DEF CallableRaises, Raisable, Exceptions
    <3> QED BY <3>1 DEF ModuleIInv, ClassInv, Class
  <2>3. TypeOK' /\ LookupInv'
    BY <1>1, <1>2, <2>1 DEF TypeOK, ModuleIInv, LookupInv
  <2>4. KnownInv'
    BY <1>1, <2>1, <2>2 DEF TypeOK, KnownInv
  <2> QED BY <1>2, <2>3, <2>4
<1> QED BY <1>3, <1>4

LEMMA LookupEndsIInv ==
  ASSUME IInv, NEW t \in Threads, LookupEnds(t)
  PROVE  IInv'
<1> USE DEF IInv
<1>1. ModuleIInv'
  BY ModuleNextIInv DEF LookupEnds, ModuleNext
<1>2. cache' \in Class /\ cache' \in {0, classes'}
  BY <1>1, ImportFinds DEF LookupEnds, ModuleIInv, ModuleTypeOK
<1>3. exc[t] \in Exceptions /\ Convert(t, exc[t], cache')
  BY DEF LookupEnds, LookupInv
<1>4. classes' = classes \/ classes = 0
  BY FirstClassIsLast DEF LookupEnds
<1> QED BY <1>1, <1>2, <1>3, <1>4, ConvertIInv

LEMMA NextIInv == IInv /\ [Next]_vars => IInv'
<1> SUFFICES ASSUME IInv, [Next]_vars PROVE IInv'
  OBVIOUS
<1>1. CASE Next
  <2> PICK t \in Threads : ThreadStep(t)
    BY <1>1 DEF Next
  <2>1. CASE LookupContinues(t) \/ PythonStep(t)
    BY <2>1, ModuleStepIInv DEF LookupContinues, PythonStep
  <2> QED BY <2>1, CallIInv, RaiseIInv, LookupEndsIInv DEF ThreadStep
<1>2. CASE UNCHANGED vars
  <2>1. ModuleIInv'
    BY <1>2, ModuleNextIInv DEF IInv, vars
  <2> QED BY <1>2, <2>1 DEF vars, call_vars, module_vars, registered, IInv, ModuleIInv,
             TypeOK, KnownInv, LookupInv
<1> QED BY <1>1, <1>2

THEOREM Invariance == Spec => []IInv
BY InitIInv, NextIInv, PTL DEF Spec

(* Every variable of the callbacks keeps its type; in particular the cache *)
(* is never filled with anything but a class or None.                      *)
THEOREM TypeCorrect == Spec => []TypeOK
<1>1. IInv => TypeOK
  BY DEF IInv
<1> QED BY <1>1, Invariance, PTL

(* A StatusNotOk loses its code only when None was found and kept: there   *)
(* is no second class that could be kept in its place.                     *)
THEOREM CodeKept == Spec => CodeLostOnlyByFailedLookup
<1> DEFINE Kept == \A t \in Threads :
             (result'[t] # result[t] /\ result'[t].of \in StatusNotOkKinds)
               => result'[t].code = OwnCode(result'[t].of) \/ cache' = 0
<1>1. ASSUME IInv, Next PROVE Kept
  <2> USE DEF IInv
  <2> SUFFICES ASSUME NEW u \in Threads, result'[u] # result[u],
                      result'[u].of \in StatusNotOkKinds, cache' # 0
               PROVE  result'[u].code = OwnCode(result'[u].of)
    OBVIOUS
  <2> PICK t \in Threads : ThreadStep(t)
    BY <1>1 DEF Next
  <2>1. ASSUME NEW e \in Exceptions, Convert(t, e, cache'), cache' \in Class,
               e.class \in {0, classes}, cache' \in {0, classes'},
               classes' = classes \/ classes = 0
        PROVE  result'[u].code = OwnCode(result'[u].of)
    <3>1. PICK code \in Codes :
             /\ result' = [result EXCEPT ![t] = [of |-> e.kind, code |-> code]]
             /\ Matches(e, cache') => code = OwnCode(e.kind)
      BY <2>1, <1>1, ConvertAnswers
    <3>2. u = t /\ result'[u] = [of |-> e.kind, code |-> code]
      BY <3>1, <1>1 DEF TypeOK
    <3>3. e.kind \in StatusNotOkKinds
      BY <3>2
    <3>4. e.class # 0
      BY <3>3 DEF Exceptions
    <3>5. e.class = cache'
      BY <2>1, <3>4
    <3> QED BY <3>1, <3>2, <3>4, <3>5 DEF Matches
  <2>2. CASE Call(t) \/ ArgumentThrows(t) \/ CallableReturns(t)
    BY <2>2, <1>1 DEF Call, ArgumentThrows, CallableReturns, ReturnToCpp, NoResult, TypeOK,
                             StatusNotOkKinds
  <2>3. CASE LookupContinues(t) \/ PythonStep(t)
    BY <2>3 DEF LookupContinues, PythonStep, call_vars
  <2>4. ASSUME NEW e \in Exceptions, CallableRaises(t, e) PROVE result'[u].code = OwnCode(result'[u].of)
    <3>1. cache' = cache /\ classes' = classes /\ ~MustLookUp /\ Convert(t, e, cache)
      BY <2>4 DEF CallableRaises, module_vars, registered
    <3>2. cache \in Class /\ cache \in {0, classes}
      BY <3>1, <1>1 DEF MustLookUp, TypeOK, KnownInv
    <3>3. e.class \in {0, classes}
      <4>1. e.class <= classes /\ e.class \in Class
        BY <2>4 DEF CallableRaises, Raisable, Exceptions
      <4> QED BY <4>1, <1>1 DEF ModuleIInv, ClassInv, Class
    <3> QED BY <2>1, <3>1, <3>2, <3>3
  <2>5. CASE LookupEnds(t)
    <3>1. ModuleIInv'
      BY <2>5, <1>1, ModuleNextIInv DEF LookupEnds, ModuleNext
    <3>2. cache' \in Class /\ cache' \in {0, classes'}
      BY <2>5, <3>1, <1>1, ImportFinds DEF LookupEnds, ModuleIInv, ModuleTypeOK
    <3>3. exc[t] \in Exceptions /\ exc[t].class \in {0, classes} /\ Convert(t, exc[t], cache')
      BY <2>5, <1>1 DEF LookupEnds, LookupInv, KnownInv
    <3>4. classes' = classes \/ classes = 0
      BY <2>5, <1>1, FirstClassIsLast DEF LookupEnds
    <3> QED BY <2>1, <3>2, <3>3, <3>4
  <2> QED BY <2>2, <2>3, <2>4, <2>5 DEF ThreadStep
<1>2. IInv /\ [Next]_vars => [Kept]_vars
  BY <1>1
<1> QED BY <1>2, Invariance, PTL DEF Spec, CodeLostOnlyByFailedLookup

(* kImportedObj behaves as the abstract lazy cell: only a callback that    *)
(* found it unset writes it, and writes it once.                           *)
THEOREM LazyCellImplemented == Spec => ImplementsLazyCell
<1> DEFINE f == {t \in Threads : call_pc[t] = "looking_up"}
<1>1. Init => Cell!Init
  BY DEF Init, Cell!Init
<1>2. ASSUME IInv, IInv', Next PROVE [Cell!Next]_(Cell!vars)
  <2> PICK t \in Threads : ThreadStep(t)
    BY <1>2 DEF Next
  <2>1. ASSUME cache' = cache, call_pc[t] # "looking_up",
               \/ call_pc' = call_pc
               \/ \E pc \in {"callable", "out"} : call_pc' = [call_pc EXCEPT ![t] = pc]
        PROVE  [Cell!Next]_(Cell!vars)
    <3>1. f' = f
      BY <2>1, <1>2 DEF IInv, TypeOK
    <3> QED BY <2>1, <3>1 DEF Cell!vars
  <2>2. CASE Call(t) \/ ArgumentThrows(t) \/ CallableReturns(t)
    <3>1. cache' = cache /\ call_pc[t] # "looking_up"
      BY <2>2 DEF Call, ArgumentThrows, CallableReturns
    <3>2. \/ call_pc' = call_pc
          \/ \E pc \in {"callable", "out"} : call_pc' = [call_pc EXCEPT ![t] = pc]
      BY <2>2 DEF Call, ArgumentThrows, CallableReturns, ReturnToCpp, Leave
    <3> QED BY <2>1, <3>1, <3>2
  <2>3. CASE LookupContinues(t) \/ PythonStep(t)
    BY <2>3 DEF LookupContinues, PythonStep, call_vars, Cell!vars
  <2>4. ASSUME NEW e \in Exceptions, CallableRaises(t, e)
        PROVE  [Cell!Next]_(Cell!vars)
    <3>1. CASE ~MustLookUp
      <4>1. cache' = cache /\ call_pc[t] # "looking_up"
              /\ call_pc' = [call_pc EXCEPT ![t] = "out"]
        BY <2>4, <3>1 DEF CallableRaises, Convert, ReturnToCpp, Leave
      <4> QED BY <2>1, <4>1
    <3>2. CASE MustLookUp
      <4>1. cache = Unset /\ cache' = cache /\ t \notin f
        BY <2>4, <3>2 DEF CallableRaises, MustLookUp
      <4>2. f' = f \cup {t}
        BY <2>4, <3>2, <1>2 DEF CallableRaises, IInv, TypeOK
      <4>3. Cell!Enter(t)
        BY <4>1, <4>2 DEF Cell!Enter
      <4> QED BY <4>3 DEF Cell!Next
    <3> QED BY <3>1, <3>2
  <2>5. CASE LookupEnds(t)
    <3>1. t \in f /\ call_pc' = [call_pc EXCEPT ![t] = "out"]
      BY <2>5 DEF LookupEnds, Convert, ReturnToCpp, Leave
    <3>2. f' = f \ {t}
      BY <3>1, <1>2 DEF IInv, TypeOK
    <3>3. cache' \in Class
      BY <2>5, <1>2 DEF LookupEnds, IInv, ModuleIInv, ModuleTypeOK
    <3>4. Cell!Fill(t)
      BY <3>1, <3>2, <3>3 DEF Cell!Fill
    <3> QED BY <3>4 DEF Cell!Next
  <2> QED BY <2>2, <2>3, <2>4, <2>5 DEF ThreadStep
<1>3. IInv /\ IInv' /\ [Next]_vars => [Cell!Next]_(Cell!vars)
  BY <1>2 DEF vars, call_vars, Cell!vars
<1> QED BY <1>1, <1>3, Invariance, PTL DEF Spec, ImplementsLazyCell, Cell!Spec
-----------------------------------------------------------------------------
LEMMA ModuleStep == [Next]_vars => [ModuleNext]_module_vars
<1> SUFFICES ASSUME Next PROVE [ModuleNext]_module_vars
  BY DEF vars
<1> PICK t \in Threads : ThreadStep(t)
  BY DEF Next
<1>1. CASE \/ Call(t) \/ ArgumentThrows(t) \/ CallableReturns(t)
           \/ \E e \in Exceptions : CallableRaises(t, e)
  BY <1>1 DEF Call, ArgumentThrows, CallableReturns, CallableRaises
<1>2. CASE LookupContinues(t) \/ LookupEnds(t) \/ PythonStep(t)
  BY <1>2 DEF LookupContinues, LookupEnds, PythonStep, ModuleNext
<1> QED BY <1>1, <1>2 DEF ThreadStep

(* The callbacks do to the status module only what StatusModule describes, *)
(* a lookup of the class being an import like any other: whatever is       *)
(* proved of the module by itself holds when C++ calls back into Python.   *)
THEOREM ModuleImplemented == Spec => ModuleSpec
<1>1. Init => ModuleInit
  BY DEF Init
<1> QED BY <1>1, ModuleStep, PTL DEF Spec, ModuleSpec

(* A non-OK status that C++ code returns to the Python callable, or to any *)
(* Python code while callbacks run, is raised as the imported StatusNotOk. *)
THEOREM CallablesSeeImportedClass == Spec => RaisesImportedClass
BY ModuleImplemented, ImportedClassRaised

(* What callbacks recognise as StatusNotOk, once they know it, is the      *)
(* class of the module that is imported: the one that a status returned by *)
(* C++ is raised as, so that it comes back to C++ as itself.               *)
RecognisesImported == cache \notin {0, Unset} => cache = imported

(* A module that is imported stays in sys.modules.                         *)
LEMMA ImportedStays ==
  ASSUME ModuleIInv, ModuleNext, imported # 0
  PROVE  imported' = imported
<1> PICK t \in Threads : ImportStep(t) \/ ReturnNotOk(t)
  BY DEF ModuleNext
<1>1. import_pc[t] # "exec"
  BY ThreadsAssumption DEF ModuleIInv, LockInv, FirstInv
<1> QED BY <1>1 DEF ImportStep, FindModule, WaitForImport, ModuleMissing, BeginInit,
          CanBegin, FailInExec, EndInit, FailAfterRegistering, LeaveImport, ReturnNotOk

(* A callback that knows the class of StatusNotOk knows the imported one,  *)
(* also when lookups raced with other imports and with failed ones.        *)
THEOREM ImportedRecognised == Spec => []RecognisesImported
<1>1. Init => RecognisesImported
  BY DEF Init, RecognisesImported
<1>2. IInv /\ RecognisesImported /\ [Next]_vars => RecognisesImported'
  <2> SUFFICES ASSUME IInv, RecognisesImported, [Next]_vars, cache' \notin {0, Unset}
               PROVE  cache' = imported'
    BY DEF RecognisesImported
  <2>1. CASE cache' = cache
    <3>1. cache = imported /\ imported # 0
      BY <2>1 DEF RecognisesImported
    <3>2. imported' = imported
      BY <3>1, ModuleStep, ImportedStays DEF IInv, module_vars
    <3> QED BY <2>1, <3>1, <3>2
  <2>2. CASE cache' # cache
    <3>1. PICK t \in Threads : LookupEnds(t)
      BY <2>2 DEF Next, vars, ThreadStep, Call, ArgumentThrows, CallableReturns,
                  CallableRaises, LookupContinues, PythonStep, call_vars
    <3> QED BY <3>1, ImportFindsImported DEF LookupEnds, IInv
  <2> QED BY <2>1, <2>2
<1> QED BY <1>1, <1>2, Invariance, PTL DEF Spec

(* An answer that a callback has just got was converted from an exception, *)
(* with the class that is now in the cache.                                *)
LEMMA AnswerIsConverted ==
  ASSUME IInv, Next, NEW t \in Threads,
         result'[t] # result[t], result'[t].of \in Kinds
  PROVE  \E e \in Exceptions : /\ cache' \in Class
                               /\ Convert(t, e, cache')
<1> PICK u \in Threads : ThreadStep(u)
  BY DEF Next
<1>1. ASSUME Call(u) \/ ArgumentThrows(u) \/ CallableReturns(u) PROVE FALSE
  BY <1>1 DEF Call, ArgumentThrows, CallableReturns, ReturnToCpp, NoResult, IInv, TypeOK,
              Kinds, StatusNotOkKinds
<1>2. ASSUME LookupContinues(u) \/ PythonStep(u) PROVE FALSE
  BY <1>2 DEF LookupContinues, PythonStep, call_vars
<1>3. ASSUME NEW e \in Exceptions, CallableRaises(u, e)
      PROVE  /\ cache' \in Class
             /\ Convert(u, e, cache')
  <2>1. ~MustLookUp /\ Convert(u, e, cache) /\ cache' = cache
    BY <1>3 DEF CallableRaises
  <2> QED BY <2>1 DEF MustLookUp, IInv, TypeOK
<1>4. ASSUME LookupEnds(u)
      PROVE  /\ exc[u] \in Exceptions
             /\ cache' \in Class
             /\ Convert(u, exc[u], cache')
  <2>1. ModuleIInv'
    BY <1>4, ModuleNextIInv DEF IInv, LookupEnds, ModuleNext
  <2> QED BY <1>4, <2>1, ImportFinds DEF LookupEnds, LookupInv, IInv, ModuleIInv, ModuleTypeOK
<1>5. ASSUME NEW e \in Exceptions, NEW class \in Class, Convert(u, e, class)
      PROVE  u = t
  BY <1>5, ConvertAnswers DEF IInv, TypeOK
<1>6. PICK e \in Exceptions : cache' \in Class /\ Convert(u, e, cache')
  BY <1>1, <1>2, <1>3, <1>4 DEF ThreadStep
<1> QED BY <1>5, <1>6

(* An exception is reported to C++ as success only if it was recognised as *)
(* a StatusNotOk of the module that is imported and carries an OK status.  *)
THEOREM OkOnlyFromOwnStatus == Spec => OkOnlyByOwnStatus
<1> DEFINE Answer == \A t \in Threads :
             (result'[t] # result[t] /\ result'[t].of \in Kinds /\ result'[t].code = "OK")
               => /\ result'[t].of = "StatusNotOkWithOkStatus"
                  /\ cache' # 0 /\ cache' = imported'
<1>1. ASSUME IInv, IInv', RecognisesImported', Next PROVE Answer
  <2> SUFFICES ASSUME NEW t \in Threads, result'[t] # result[t],
                      result'[t].of \in Kinds, result'[t].code = "OK"
               PROVE  /\ result'[t].of = "StatusNotOkWithOkStatus"
                      /\ cache' # 0 /\ cache' = imported'
    OBVIOUS
  <2>1. PICK e \in Exceptions : cache' \in Class /\ Convert(t, e, cache')
    BY <1>1, AnswerIsConverted
  <2>2. PICK code \in Codes :
          /\ result' = [result EXCEPT ![t] = [of |-> e.kind, code |-> code]]
          /\ Matches(e, cache') => code = OwnCode(e.kind)
          /\ code = "OK" => Matches(e, cache')
    BY <1>1, <2>1, ConvertAnswers DEF IInv
  <2>3. result'[t] = [of |-> e.kind, code |-> code]
    BY <1>1, <2>2 DEF IInv, TypeOK
  <2>4. Matches(e, cache') /\ OwnCode(e.kind) = "OK"
    BY <2>2, <2>3
  <2>5. cache' \notin {0, Unset}
    BY <2>1, <2>4, UnsetIsNoClass DEF Matches
  <2> QED BY <1>1, <2>3, <2>4, <2>5 DEF OwnCode, Own, RecognisesImported
<1>2. IInv /\ IInv' /\ RecognisesImported' /\ [Next]_vars => [Answer]_vars
  BY <1>1
<1> QED BY <1>2, Invariance, ImportedRecognised, PTL DEF Spec, OkOnlyByOwnStatus
=============================================================================
