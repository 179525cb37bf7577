SPECIFICATION FairSpec
CONSTANTS
  Threads = {t1, t2}
  NoThread = NoThread
  MayFail = {"missing", "exec", "def"}
  Debug = TRUE
  MaxClasses = 1
INVARIANTS TypeOK
PROPERTIES OkOnlyByOwnStatus CodeLostOnlyByFailedLookup ImplementsLazyCell LookupsEnd
CHECK_DEADLOCK FALSE
