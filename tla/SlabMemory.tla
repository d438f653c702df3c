----------------------------- MODULE SlabMemory -----------------------------
(***************************************************************************)
(* What SlabCache and SlabPtr share: the sizes of a cache of slab.c, the   *)
(* addresses of its slabs, and the part of its state that is the same      *)
(* whether its lists are sequences or pointers.                            *)
(***************************************************************************)
EXTENDS Integers, FiniteSets

CONSTANTS
  Slabs,          \* the descriptors the process can obtain: bounds mmap
  PagesPerSlab,   \* pages_per_slab of _objs_cache_init
  ObjsPerPage,    \* objects that fit in a page
  ObjsFirstPage,  \* ... in the page that also holds an on-slab descriptor
  MaxFreeSlabs    \* DEFAULT_MAX_FREE_SLABS_ALLOWED

(* objs_per_slab as _objs_cache_init computes it, and the number of objects
   create_slab really puts on the chain: the two formulas differ. *)
ObjsPerSlab == ObjsPerPage + ObjsFirstPage * (PagesPerSlab - 1)
SlabObjs    == ObjsFirstPage + (PagesPerSlab - 1) * ObjsPerPage

ASSUME SizesAssumption ==
  /\ PagesPerSlab \in Nat \ {0}
  /\ ObjsPerPage \in Nat \ {0}
  /\ ObjsFirstPage \in 1..ObjsPerPage
  /\ MaxFreeSlabs \in Nat

(* The caches of objects proper keep their descriptors in another cache
   (objs_cache_init passes no SLAB_DESCR_ON_SLAB): every page is alike. *)
OffSlab == ObjsFirstPage = ObjsPerPage

VARIABLES
  free_objs_count, used_objs_count, slab_count,   \* the cache's totals
  slab_free,  \* per slab: its own free_objs_count
  created,    \* descriptors obtained for this cache so far
  mapped,     \* page ranges mmap returned and munmap has not taken back
  held        \* objects handed to the callers

totals == <<free_objs_count, used_objs_count, slab_count>>

(* Addresses.  A descriptor never starts a page: on the slab it follows the
   page's back pointer, off the slab it is an object of another slab.  munmap
   refuses (EINVAL) an address that does not start a page. *)
PagesOf(s) == <<"pages", s>>
DescrOf(s) == <<"descriptor", s>>
PageStarts == {PagesOf(s) : s \in Slabs}
Munmap(addresses) == mapped' = mapped \ (addresses \cap PageStarts)
=============================================================================
