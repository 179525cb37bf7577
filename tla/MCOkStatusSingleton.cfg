SPECIFICATION Spec
CONSTANTS
  Threads = {t1, t2, t3}
  NoThread = NoThread
  MaxCalls = 2
  ImportOutcomes = {"missing", "no_make_fn", "make_fails", "usable"}
INVARIANTS TypeOK RefsCoverOwners StatusObjectUnique
PROPERTIES AnswerIsFinal ImplementsLazyCell
CHECK_DEADLOCK FALSE
