SPECIFICATION Spec
CONSTANTS
  Threads = {t1, t2}
  NoThread = NoThread
  MayFail = {"missing", "exec", "def"}
  Debug = TRUE
  MaxClasses = 1
PROPERTIES NoneMeansNotRaised
CHECK_DEADLOCK FALSE
