\* Two clients connect at the same time.
CONSTANTS
  Threads = {t1, t2}
  Chunks = {c1, c2}
  MaxId = 2
  NULL = NULL
SPECIFICATION Spec
INVARIANT IdIsOfItsSession
CHECK_DEADLOCK FALSE
