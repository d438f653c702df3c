\* Four slabs of two objects: every list holds up to four slabs, so that an
\* element is deleted from the head, the middle and the end of a list.
CONSTANTS
  Slabs = {s1, s2, s3, s4}
  PagesPerSlab = 1
  ObjsPerPage = 2
  ObjsFirstPage = 2
  MaxFreeSlabs = 1
  NULL = NULL
SPECIFICATION PtrSpec
INVARIANT WellLinked
PROPERTY CacheSpec
CHECK_DEADLOCK FALSE
