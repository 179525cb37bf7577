SPECIFICATION Spec
CONSTANTS
  Threads = {t1, t2, t3}
  Capsules = {c1, c2, c3}
  Misnamed = {c3}
  NoCapsule = NoCapsule
INVARIANTS TypeOK CapsuleRefsExact UseCountExact CopyReadsLiveCapsule RawPtrIsLive
PROPERTIES ImplementsSharedOwners
CHECK_DEADLOCK FALSE
