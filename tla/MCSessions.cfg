\* Three clients, whose sessions are three nodes of the list, and ids to
\* create a session again after one has been closed.
CONSTANTS
  Threads = {t1, t2, t3}
  Chunks = {c1, c2, c3}
  MaxId = 4
  NULL = NULL
SPECIFICATION Spec
INVARIANTS TypeOK LookupsEnd OwnDocument
PROPERTY CloseFreesOwn
CHECK_DEADLOCK FALSE
SYMMETRY Symmetry
