SPECIFICATION Spec
CONSTANTS
  Threads = {t1, t2}
  NoThread = NoThread
  MaxCalls = 1
  ImportOutcomes = {"missing", "no_make_fn", "make_fails", "usable"}
INVARIANTS NoneLoadsAsOk
CHECK_DEADLOCK FALSE
