\* Four slabs of three objects, so that a slab can stay partial through a free;
\* free list limited to one slab, so that the freeing policy drops a slab and
\* the cache still has slabs to work with.
CONSTANTS
  Slabs = {s1, s2, s3, s4}
  PagesPerSlab = 1
  ObjsPerPage = 3
  ObjsFirstPage = 3
  MaxFreeSlabs = 1
SPECIFICATION Spec
INVARIANTS TypeOK ChainHoldsTheRest ListsByFill ListCounters Totals
PROPERTIES PoolSpec
CHECK_DEADLOCK FALSE
