---------------------------- MODULE StatusModule ----------------------------
(***************************************************************************)
(* pybind11_abseil.status: how it comes to be imported and what a non-OK   *)
(* status that C++ returns to Python turns into meanwhile.                 *)
(*                                                                         *)
(* RegisterStatusBindings runs under the import system's lock for the      *)
(* module.  It is one step up to the embedded Python code that defines     *)
(* class StatusNotOk, where other threads may run, and one step from       *)
(* there to its end.  It can fail on either side (MemoryError, an          *)
(* interrupt); what it has registered with pybind11 by then stays.         *)
(***************************************************************************)
EXTENDS Naturals

CONSTANTS Threads,    \* Python threads
          NoThread,   \* nobody holds the import lock
          MayFail,    \* where an initialisation may fail
          Debug,      \* NDEBUG is not defined
          MaxClasses  \* StatusNotOk classes that there is room for

(* "missing": the module cannot be found.  "class": after InitFromTag is   *)
(* registered and before absl::Status is.  "exec": in the embedded code.   *)
(* "def": after the translator is in.                                      *)
AllFailures == {"missing", "class", "exec", "def"}

ASSUME ThreadsAssumption == NoThread \notin Threads
ASSUME MayFailAssumption == MayFail \subseteq AllFailures
ASSUME DebugAssumption == Debug \in BOOLEAN
ASSUME MaxClassesAssumption == MaxClasses \in Nat \ {0}

VARIABLES
  importer,         \* the thread that holds the module's import lock
  import_pc,        \* "out", "waiting" for the lock, or in "exec"
  imported,         \* the class of the module in sys.modules, 0: no module
  classes,          \* how many StatusNotOk classes have been defined
  this_module,      \* the class ThisModule() has as StatusNotOk, 0: none
  enum_registered,  \* pybind11 knows InitFromTag
  type_registered,  \* pybind11 knows absl::Status
  translator,       \* the exception translator is registered
  type_in_use,      \* static handle of PyStatusNotOkTypeInUse, 0: null
  seen              \* how each thread's last call or import ended

registered == <<classes, this_module, enum_registered, type_registered, translator>>
module_vars == <<importer, import_pc, imported, registered, type_in_use, seen>>

Class == 0..MaxClasses
Endings == {"nothing", "imported", "ImportError", "StatusNotOk",
            "RuntimeError", "TypeError", "AttributeError"}

ModuleTypeOK ==
  /\ importer \in Threads \cup {NoThread}
  /\ import_pc \in [Threads -> {"out", "waiting", "exec"}]
  /\ imported \in Class /\ classes \in Class
  /\ this_module \in Class /\ type_in_use \in Class
  /\ enum_registered \in BOOLEAN /\ type_registered \in BOOLEAN
  /\ translator \in BOOLEAN
  /\ seen \in [Threads -> [how : Endings, class : Class]]

ModuleInit ==
  /\ importer = NoThread
  /\ import_pc = [t \in Threads |-> "out"]
  /\ imported = 0 /\ classes = 0 /\ this_module = 0 /\ type_in_use = 0
  /\ enum_registered = FALSE /\ type_registered = FALSE /\ translator = FALSE
  /\ seen = [t \in Threads |-> [how |-> "nothing", class |-> 0]]

End(t, how, class) ==
  seen' = [seen EXCEPT ![t] = [how |-> how, class |-> class]]
-----------------------------------------------------------------------------
(* The module is in sys.modules: the import is over.                       *)
FindModule(t) ==
  /\ import_pc[t] # "exec"
  /\ imported # 0
  /\ import_pc' = [import_pc EXCEPT ![t] = "out"]
  /\ End(t, "imported", imported)
  /\ UNCHANGED <<importer, imported, registered, type_in_use>>

WaitForImport(t) ==
  /\ import_pc[t] = "out"
  /\ imported = 0
  /\ importer # NoThread
  /\ import_pc' = [import_pc EXCEPT ![t] = "waiting"]
  /\ UNCHANGED <<importer, imported, registered, type_in_use, seen>>

\* Mutant: registering twice is let pass.
NeverRefused == FALSE

(* pybind11 refuses a type that it already has: the enum is the first.     *)
Refused == enum_registered

FailImport(t) ==
  /\ import_pc' = [import_pc EXCEPT ![t] = "out"]
  /\ End(t, "ImportError", 0)

CanBegin(t) ==
  /\ import_pc[t] # "exec"
  /\ imported = 0
  /\ importer = NoThread

ModuleMissing(t) ==
  /\ "missing" \in MayFail
  /\ CanBegin(t)
  /\ FailImport(t)
  /\ UNCHANGED <<importer, imported, registered, type_in_use>>

(* RegisterStatusBindings up to pybind11::exec.  ThisModule() names the    *)
(* new module from the start, before it has a StatusNotOk.                 *)
BeginInit(t) ==
  /\ CanBegin(t)
  /\ this_module' = 0
  /\ UNCHANGED <<imported, classes, translator, type_in_use>>
  /\ \/ /\ Refused
        /\ FailImport(t)
        /\ UNCHANGED <<enum_registered, type_registered, importer>>
     \/ /\ ~Refused /\ "class" \in MayFail
        /\ FailImport(t)
        /\ enum_registered' = TRUE
        /\ UNCHANGED <<type_registered, importer>>
     \/ /\ ~Refused
        /\ enum_registered' = TRUE
        /\ type_registered' = TRUE
        /\ importer' = t
        /\ import_pc' = [import_pc EXCEPT ![t] = "exec"]
        /\ UNCHANGED seen

LeaveImport(t) ==
  /\ import_pc[t] = "exec"
  /\ importer' = NoThread
  /\ import_pc' = [import_pc EXCEPT ![t] = "out"]
  /\ UNCHANGED <<enum_registered, type_registered, type_in_use>>

FailInExec(t) ==
  /\ "exec" \in MayFail
  /\ LeaveImport(t)
  /\ End(t, "ImportError", 0)
  /\ UNCHANGED <<imported, classes, this_module, translator>>

\* Mutant: the translator is forgotten.
DefineOnly ==
  /\ classes' = classes + 1
  /\ this_module' = classes + 1
  /\ UNCHANGED translator

(* The class is defined, then the translator that needs it registered.     *)
DefineAndRegister ==
  /\ classes' = classes + 1
  /\ this_module' = classes + 1
  /\ translator' = TRUE

EndInit(t) ==
  /\ LeaveImport(t)
  /\ DefineAndRegister
  /\ imported' = classes + 1
  /\ End(t, "imported", classes + 1)

FailAfterRegistering(t) ==
  /\ "def" \in MayFail
  /\ LeaveImport(t)
  /\ DefineAndRegister
  /\ UNCHANGED imported
  /\ End(t, "ImportError", 0)

(* One step of thread t through `import pybind11_abseil.status`.           *)
ImportStep(t) ==
  \/ FindModule(t) \/ WaitForImport(t) \/ ModuleMissing(t) \/ BeginInit(t)
  \/ FailInExec(t) \/ EndInit(t) \/ FailAfterRegistering(t)
-----------------------------------------------------------------------------
CheckPasses == Debug => type_registered

(* PyStatusNotOkTypeInUse: cached, or looked up in ThisModule().           *)
TypeInUse == IF type_in_use # 0 THEN type_in_use ELSE this_module

(* A C++ function returns a non-OK status: cast_impl checks that the       *)
(* module is there, then throws StatusNotOk, which pybind11 turns into     *)
(* RuntimeError unless the translator is there to raise the Python type.   *)
ReturnNotOk(t) ==
  /\ import_pc[t] = "out"
  /\ \/ /\ ~CheckPasses
        /\ End(t, "TypeError", 0)
        /\ UNCHANGED type_in_use
     \/ /\ CheckPasses /\ ~translator
        /\ End(t, "RuntimeError", 0)
        /\ UNCHANGED type_in_use
     \/ /\ CheckPasses /\ translator /\ TypeInUse = 0
        /\ End(t, "AttributeError", 0)
        /\ UNCHANGED type_in_use
     \/ /\ CheckPasses /\ translator /\ TypeInUse # 0
        /\ type_in_use' = TypeInUse
        /\ End(t, "StatusNotOk", TypeInUse)
  /\ UNCHANGED <<importer, import_pc, imported, registered>>

ModuleNext == \E t \in Threads : ImportStep(t) \/ ReturnNotOk(t)

ModuleSpec == ModuleInit /\ [][ModuleNext]_module_vars

(* The system schedules every thread: one that waits for the import lock   *)
(* gets it when it stays free, and the embedded code that defines          *)
(* StatusNotOk, a class statement, comes to its end.                       *)
ImportFairness ==
  \A t \in Threads : WF_module_vars(import_pc[t] # "out" /\ ImportStep(t))

FairModuleSpec == ModuleSpec /\ ImportFairness
-----------------------------------------------------------------------------
(* Over any number of failed and repeated imports there is only ever one   *)
(* class StatusNotOk, so that an `except StatusNotOk` written against one  *)
(* import catches what is raised for another.                              *)
StatusNotOkUnique == classes <= 1

(* After the module is imported every non-OK status surfaces as the very   *)
(* class that the module shows: never as RuntimeError, never as another    *)
(* attempt's class, whatever was raised, cached or refused before.         *)
RaisesImportedClass ==
  [][\A t \in Threads :
       (imported # 0 /\ ReturnNotOk(t))
         => seen'[t] = [how |-> "StatusNotOk", class |-> imported]]_module_vars

(* Nobody waits for the import for ever, with fairness as weak as          *)
(* scheduling alone: an initialisation that fails leaves the enum          *)
(* registered, so that the next ones are refused at once and the lock,     *)
(* free again, stays free for those that wait.                             *)
ImportsEnd == \A t \in Threads : import_pc[t] # "out" ~> import_pc[t] = "out"
=============================================================================
