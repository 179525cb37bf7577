SPECIFICATION FairModuleSpec
CONSTANTS
  Threads = {t1, t2, t3}
  NoThread = NoThread
  MayFail = {"missing", "class", "exec", "def"}
  Debug = TRUE
  MaxClasses = 2
INVARIANTS ModuleTypeOK StatusNotOkUnique
PROPERTIES RaisesImportedClass ImportsEnd
