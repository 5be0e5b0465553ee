SPECIFICATION LockSpec
CONSTANTS
  Caller = {t1, t2, t3, t4}
  locked = TRUE
INVARIANTS
  MutualExclusion
  WordMatchesHolder
PROPERTY
  ImplementsMutex
