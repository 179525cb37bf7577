------------------------- MODULE StatusModule_proofs -------------------------
(***************************************************************************)
(* Proofs about StatusModule, for any number of threads, any of the        *)
(* failures, and both build modes.  The argument: the lock and the first   *)
(* registered type let at most one initialisation past BeginInit, ever; so *)
(* whatever class there is, is the only one.                               *)
(***************************************************************************)
EXTENDS StatusModule, TLAPS

(* Only the holder of the import lock is inside the embedded code.         *)
LockInv == \A t \in Threads : import_pc[t] = "exec" <=> importer = t

(* The holder is the first to have come this far: there is no class yet.   *)
FirstInv ==
  (importer # NoThread \/ ~enum_registered)
    => classes = 0 /\ imported = 0 /\ this_module = 0 /\ type_in_use = 0

BusyInv == importer # NoThread => enum_registered /\ type_registered

(* Every mention of a class is a mention of the only one.                  *)
ClassInv ==
  /\ classes \in {0, 1}
  /\ imported \in {0, classes}
  /\ this_module \in {0, classes}
  /\ type_in_use \in {0, classes}

(* A module that is imported is complete, and ThisModule() is that module. *)
ImportedInv ==
  imported # 0 => this_module = imported /\ translator /\ type_registered

ModuleIInv ==
  /\ ModuleTypeOK
  /\ LockInv /\ FirstInv /\ BusyInv /\ ClassInv /\ ImportedInv

LEMMA SmallClasses == 0 \in Class /\ 1 \in Class
BY MaxClassesAssumption DEF Class

LEMMA ModuleInitIInv == ModuleInit => ModuleIInv
<1> SUFFICES ASSUME ModuleInit PROVE ModuleIInv
  OBVIOUS
<1>1. ModuleTypeOK
  <2>1. "nothing" \in Endings
    BY DEF Endings
  <2> QED BY <2>1, SmallClasses DEF ModuleInit, ModuleTypeOK
<1>2. LockInv
  BY ThreadsAssumption DEF ModuleInit, LockInv
<1>3. FirstInv /\ BusyInv /\ ClassInv /\ ImportedInv
  BY DEF ModuleInit, FirstInv, BusyInv, ClassInv, ImportedInv
<1> QED BY <1>1, <1>2, <1>3 DEF ModuleIInv

(* What End writes has its type.                                           *)
LEMMA EndType ==
  ASSUME ModuleTypeOK, NEW t \in Threads, NEW how \in Endings, NEW class \in Class,
         End(t, how, class)
  PROVE  seen' \in [Threads -> [how : Endings, class : Class]]
BY DEF ModuleTypeOK, End

LEMMA BeginIInv ==
  ASSUME ModuleIInv, NEW t \in Threads, BeginInit(t)
  PROVE  ModuleIInv'
<1> USE DEF ModuleIInv, BeginInit, CanBegin, Refused
<1>1. classes' = classes /\ imported' = imported /\ translator' = translator
        /\ type_in_use' = type_in_use /\ this_module' = 0
        /\ imported = 0 /\ importer = NoThread
  OBVIOUS
<1>2. CASE Refused \/ ~(importer' = t)
  <2>1. importer' = NoThread /\ type_registered' = type_registered
          /\ import_pc' = [import_pc EXCEPT ![t] = "out"]
          /\ enum_registered' \in BOOLEAN
          /\ (enum_registered => enum_registered' = enum_registered)
          /\ End(t, "ImportError", 0)
    BY <1>1, <1>2 DEF FailImport, ModuleTypeOK
  <2>2. seen' \in [Threads -> [how : Endings, class : Class]]
    BY <2>1, EndType, SmallClasses DEF Endings
  <2>3. ModuleTypeOK' /\ LockInv'
    BY <1>1, <2>1, <2>2, SmallClasses, ThreadsAssumption DEF ModuleTypeOK, LockInv
  <2>4. FirstInv' /\ BusyInv' /\ ClassInv' /\ ImportedInv'
    BY <1>1, <2>1 DEF FirstInv, BusyInv, ClassInv, ImportedInv
  <2> QED BY <2>3, <2>4
<1>3. CASE ~Refused /\ importer' = t
  <2>1. enum_registered' /\ type_registered' /\ ~enum_registered
          /\ import_pc' = [import_pc EXCEPT ![t] = "exec"]
          /\ seen' = seen
          /\ enum_registered' \in BOOLEAN /\ type_registered' \in BOOLEAN
    BY <1>1, <1>3, ThreadsAssumption
  <2>2. ModuleTypeOK' /\ LockInv'
    BY <1>1, <1>3, <2>1, SmallClasses, ThreadsAssumption DEF ModuleTypeOK, LockInv
  <2>3. FirstInv' /\ BusyInv' /\ ClassInv' /\ ImportedInv'
    BY <1>1, <2>1 DEF FirstInv, BusyInv, ClassInv, ImportedInv
  <2> QED BY <2>2, <2>3
<1> QED BY <1>2, <1>3

LEMMA LeaveIInv ==
  ASSUME ModuleIInv, NEW t \in Threads,
         FailInExec(t) \/ EndInit(t) \/ FailAfterRegistering(t)
  PROVE  ModuleIInv'
<1> USE DEF ModuleIInv
<1>1. importer = t /\ importer' = NoThread
        /\ import_pc' = [import_pc EXCEPT ![t] = "out"]
        /\ enum_registered' = enum_registered /\ type_registered' = type_registered
        /\ type_in_use' = type_in_use
  BY DEF FailInExec, EndInit, FailAfterRegistering, LeaveImport, LockInv
<1>2. classes = 0 /\ imported = 0 /\ this_module = 0 /\ type_in_use = 0
        /\ enum_registered /\ type_registered
  BY <1>1, ThreadsAssumption DEF FirstInv, BusyInv
<1>3. \/ /\ classes' = 0 /\ imported' = 0 /\ this_module' = 0
         /\ translator' = translator
         /\ End(t, "ImportError", 0)
      \/ /\ classes' = 1 /\ imported' = 0 /\ this_module' = 1 /\ translator' = TRUE
         /\ End(t, "ImportError", 0)
      \/ /\ classes' = 1 /\ imported' = 1 /\ this_module' = 1 /\ translator' = TRUE
         /\ End(t, "imported", 1)
  BY <1>2 DEF FailInExec, EndInit, FailAfterRegistering, DefineAndRegister
<1>4. seen' \in [Threads -> [how : Endings, class : Class]]
  BY <1>3, EndType, SmallClasses DEF Endings
<1>5. ModuleTypeOK' /\ LockInv'
  <2>1. ModuleTypeOK'
    BY <1>1, <1>3, <1>4, SmallClasses DEF ModuleTypeOK
  <2>2. LockInv'
    BY <1>1, ThreadsAssumption DEF ModuleTypeOK, LockInv
  <2> QED BY <2>1, <2>2
<1>6. FirstInv' /\ BusyInv' /\ ClassInv' /\ ImportedInv'
  BY <1>1, <1>2, <1>3 DEF FirstInv, BusyInv, ClassInv, ImportedInv
<1> QED BY <1>5, <1>6

(* What a returned status finds as StatusNotOk, and keeps, is a class that *)
(* ThisModule() or the cache named already.                                *)
LEMMA ReturnIInv ==
  ASSUME ModuleIInv, NEW t \in Threads, ReturnNotOk(t)
  PROVE  ModuleIInv'
<1> USE DEF ModuleIInv
<1>1. TypeInUse \in Class /\ TypeInUse \in {0, classes, this_module}
  BY DEF TypeInUse, ModuleTypeOK, ClassInv
<1>2. UNCHANGED <<importer, import_pc, imported, classes, this_module,
                  enum_registered, type_registered, translator>>
  BY DEF ReturnNotOk, registered
<1>3. type_in_use' = type_in_use \/ type_in_use' = TypeInUse
  BY DEF ReturnNotOk
<1>4. \E how \in Endings, class \in Class : End(t, how, class)
  BY <1>1, SmallClasses DEF ReturnNotOk, Endings
<1>5. seen' \in [Threads -> [how : Endings, class : Class]]
  BY <1>4, EndType
<1>6. ModuleTypeOK' /\ LockInv'
  BY <1>1, <1>2, <1>3, <1>5 DEF ModuleTypeOK, LockInv
<1>7. FirstInv' /\ BusyInv' /\ ClassInv' /\ ImportedInv'
  BY <1>1, <1>2, <1>3
     DEF FirstInv, BusyInv, ClassInv, ImportedInv, TypeInUse
<1> QED BY <1>6, <1>7

LEMMA OtherIInv ==
  ASSUME ModuleIInv, NEW t \in Threads,
         FindModule(t) \/ WaitForImport(t) \/ ModuleMissing(t)
  PROVE  ModuleIInv'
<1> USE DEF ModuleIInv
<1>1. UNCHANGED <<importer, imported, classes, this_module, enum_registered,
                  type_registered, translator, type_in_use>>
  BY DEF FindModule, WaitForImport, ModuleMissing, registered
<1>2. import_pc[t] # "exec"
        /\ (\/ import_pc' = [import_pc EXCEPT ![t] = "out"]
            \/ import_pc' = [import_pc EXCEPT ![t] = "waiting"])
  BY DEF FindModule, WaitForImport, ModuleMissing, CanBegin, FailImport
<1>3. seen' \in [Threads -> [how : Endings, class : Class]]
  <2>1. seen' = seen \/ End(t, "imported", imported) \/ End(t, "ImportError", 0)
    BY DEF FindModule, WaitForImport, ModuleMissing, FailImport
  <2> QED BY <2>1, EndType, SmallClasses DEF ModuleTypeOK, Endings
<1>4. ModuleTypeOK' /\ LockInv'
  BY <1>1, <1>2, <1>3 DEF ModuleTypeOK, LockInv
<1>5. FirstInv' /\ BusyInv' /\ ClassInv' /\ ImportedInv'
  BY <1>1 DEF FirstInv, BusyInv, ClassInv, ImportedInv
<1> QED BY <1>4, <1>5

LEMMA ModuleNextIInv == ModuleIInv /\ [ModuleNext]_module_vars => ModuleIInv'
<1> SUFFICES ASSUME ModuleIInv, [ModuleNext]_module_vars PROVE ModuleIInv'
  OBVIOUS
<1>1. CASE ModuleNext
  <2> PICK t \in Threads : ImportStep(t) \/ ReturnNotOk(t)
    BY <1>1 DEF ModuleNext
  <2> QED BY BeginIInv, LeaveIInv, ReturnIInv, OtherIInv DEF ImportStep
<1>2. CASE UNCHANGED module_vars
  BY <1>2 DEF module_vars, registered, ModuleIInv, ModuleTypeOK, LockInv,
              FirstInv, BusyInv, ClassInv, ImportedInv
<1> QED BY <1>1, <1>2

THEOREM ModuleInvariance == ModuleSpec => []ModuleIInv
BY ModuleInitIInv, ModuleNextIInv, PTL DEF ModuleSpec

(* Every variable of the status module's life keeps its type; in           *)
(* particular MaxClasses is never reached by more than one class.          *)
THEOREM ModuleTypeCorrect == ModuleSpec => []ModuleTypeOK
<1>1. ModuleIInv => ModuleTypeOK
  BY DEF ModuleIInv
<1> QED BY <1>1, ModuleInvariance, PTL

(* There is only ever one class StatusNotOk, however often and wherever    *)
(* importing pybind11_abseil.status fails.                                 *)
THEOREM OneStatusNotOk == ModuleSpec => []StatusNotOkUnique
<1>1. ModuleIInv => StatusNotOkUnique
  BY DEF ModuleIInv, ClassInv, StatusNotOkUnique
<1> QED BY <1>1, ModuleInvariance, PTL

(* Once the module is imported, a non-OK status that C++ returns is raised *)
(* as the StatusNotOk of that module.                                      *)
THEOREM ImportedClassRaised == ModuleSpec => RaisesImportedClass
<1>1. ModuleIInv /\ [ModuleNext]_module_vars
        => [\A t \in Threads :
              (imported # 0 /\ ReturnNotOk(t))
                => seen'[t] = [how |-> "StatusNotOk", class |-> imported]]_module_vars
  <2> SUFFICES ASSUME ModuleIInv, NEW t \in Threads, imported # 0, ReturnNotOk(t)
               PROVE  seen'[t] = [how |-> "StatusNotOk", class |-> imported]
    OBVIOUS
  <2>1. CheckPasses /\ translator
    BY DEF ModuleIInv, ImportedInv, CheckPasses
  <2>2. TypeInUse = imported
    BY DEF ModuleIInv, ImportedInv, ClassInv, TypeInUse
  <2>3. End(t, "StatusNotOk", imported)
    BY <2>1, <2>2 DEF ReturnNotOk
  <2> QED BY <2>3 DEF End, ModuleIInv, ModuleTypeOK
<1> QED BY <1>1, ModuleInvariance, PTL DEF ModuleSpec, RaisesImportedClass
-----------------------------------------------------------------------------
(* Why imports end: the safety facts that ImportsEnd rests on.             *)

(* A thread that waits for the import never waits for nothing, nor for     *)
(* itself: the module is there, or the lock is free, or another thread is  *)
(* inside the initialisation and has its end before it.                    *)
THEOREM WaitersCanGoOn ==
  ModuleSpec =>
    [](\A t \in Threads : import_pc[t] = "waiting" =>
         \/ imported # 0
         \/ importer = NoThread
         \/ importer \in Threads \ {t} /\ import_pc[importer] = "exec")
<1>1. ModuleIInv => \A t \in Threads : import_pc[t] = "waiting" =>
        \/ imported # 0
        \/ importer = NoThread
        \/ importer \in Threads \ {t} /\ import_pc[importer] = "exec"
  BY DEF ModuleIInv, ModuleTypeOK, LockInv
<1> QED BY <1>1, ModuleInvariance, PTL

(* An attempt has got past the first registration, and is over.            *)
Decided == enum_registered /\ importer = NoThread

(* The first attempt to get past the registration of InitFromTag decides   *)
(* for good: whatever is imported later and by whom, the lock stays free,  *)
(* the module stays in sys.modules or out of it, no other class is ever    *)
(* defined and no registration with pybind11 changes.                      *)
THEOREM FirstAttemptDecides ==
  ModuleSpec =>
    [][Decided => /\ Decided'
                  /\ UNCHANGED <<imported, classes, type_registered, translator>>]_module_vars
<1> DEFINE Stays == /\ Decided'
                   /\ UNCHANGED <<imported, classes, type_registered, translator>>
<1>1. ASSUME ModuleIInv, Decided, ModuleNext PROVE Stays
  <2> PICK t \in Threads : ImportStep(t) \/ ReturnNotOk(t)
    BY <1>1 DEF ModuleNext
  <2>1. import_pc[t] # "exec"
    BY <1>1, ThreadsAssumption DEF ModuleIInv, LockInv, Decided
  <2>2. CASE ReturnNotOk(t) \/ FindModule(t) \/ WaitForImport(t) \/ ModuleMissing(t)
    BY <2>2, <1>1
       DEF ReturnNotOk, FindModule, WaitForImport, ModuleMissing, registered, Decided
  <2>3. CASE BeginInit(t)
    BY <2>3, <1>1 DEF BeginInit, Refused, Decided
  <2>4. ~(FailInExec(t) \/ EndInit(t) \/ FailAfterRegistering(t))
    BY <2>1 DEF FailInExec, EndInit, FailAfterRegistering, LeaveImport
  <2> QED BY <2>2, <2>3, <2>4 DEF ImportStep
<1>2. ModuleIInv /\ [ModuleNext]_module_vars => [Decided => Stays]_module_vars
  BY <1>1
<1> QED BY <1>2, ModuleInvariance, PTL DEF ModuleSpec
=============================================================================
