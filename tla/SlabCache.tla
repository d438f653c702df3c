----------------------------- MODULE SlabCache -----------------------------
(***************************************************************************)
(* One `struct Objs_cache` of slab.c: a cache of equally sized objects     *)
(* carved out of slabs.  A slab is on one of three lists by its fill       *)
(* level, and keeps its free objects on a chain of its own.  A list or a   *)
(* chain is the sequence its pointers spell, head first; SlabPtr models    *)
(* the same handlers on the pointers themselves.                           *)
(*                                                                         *)
(* A slab is identified with its descriptor (struct Userland_slab), an     *)
(* object is the pair of its slab and its index in it, so that             *)
(* get_owning_slab, which reads the descriptor's address at the start of   *)
(* the object's page, is the first projection.                             *)
(***************************************************************************)
EXTENDS SlabMemory, SequencesExt

VARIABLES
  free_slabs, partial_slabs, full_slabs,          \* the three lists
  free_slabs_count, partial_slabs_count, full_slabs_count,
  chain       \* per slab: its free objects, first_free_obj first

lists    == <<free_slabs, partial_slabs, full_slabs,
              free_slabs_count, partial_slabs_count, full_slabs_count>>
slabs    == <<chain, slab_free, created>>
vars     == <<lists, totals, slabs, mapped, held>>

Objects   == Slabs \X (1..SlabObjs)
Owner(o)  == o[1]                       \* get_owning_slab
OnLists   == ToSet(free_slabs) \cup ToSet(partial_slabs) \cup ToSet(full_slabs)

-----------------------------------------------------------------------------
(* slab level *)

(* create_slab: the chain initialize_page_free_objs_list builds. *)
NewChain == [i \in 1..SlabObjs |-> i]

(* Seeded fault: the head of the chain stays where it is. *)
TakeFromKeepingHead(s, objs, count) ==
  /\ chain' = [chain EXCEPT ![s] = objs]
  /\ slab_free' = [slab_free EXCEPT ![s] = count - 1]
  /\ held' = held \cup {<<s, Head(objs)>>}

(* alloc_obj_from_slab *)
TakeFrom(s, objs, count) ==
  /\ chain' = [chain EXCEPT ![s] = Tail(objs)]
  /\ slab_free' = [slab_free EXCEPT ![s] = count - 1]
  /\ held' = held \cup {<<s, Head(objs)>>}

(* free_obj_from_slab *)
PutBack(o) ==
  /\ chain' = [chain EXCEPT ![Owner(o)] = <<o[2]>> \o @]
  /\ slab_free' = [slab_free EXCEPT ![Owner(o)] = @ + 1]
  /\ held' = held \ {o}

(* Seeded fault: the loop stops one slab late. *)
FreeingPolicyOffByOne(list, count) ==
  LET drop == IF count > MaxFreeSlabs + 1 THEN count - MaxFreeSlabs - 1 ELSE 0
  IN /\ free_slabs' = SubSeq(list, drop + 1, Len(list))
     /\ free_slabs_count' = count - drop
     /\ Munmap({DescrOf(list[i]) : i \in 1..drop})

(* default_slab_freeing_policy, on the free list as the caller left it. *)
FreeingPolicy(list, count) ==
  LET drop == IF count > MaxFreeSlabs THEN count - MaxFreeSlabs ELSE 0
  IN /\ free_slabs' = SubSeq(list, drop + 1, Len(list))
     /\ free_slabs_count' = count - drop
     /\ Munmap({DescrOf(list[i]) : i \in 1..drop})

-----------------------------------------------------------------------------
(* _objs_cache_init: also what running it again on a cache in use does. *)
InitLists ==
  /\ free_slabs = <<>> /\ partial_slabs = <<>> /\ full_slabs = <<>>
  /\ free_slabs_count = 0 /\ partial_slabs_count = 0 /\ full_slabs_count = 0
  /\ free_objs_count = 0 /\ used_objs_count = 0 /\ slab_count = 0

Init ==
  /\ InitLists
  /\ chain = [s \in Slabs |-> <<>>]
  /\ slab_free = [s \in Slabs |-> 0]
  /\ created = {}
  /\ mapped = {}
  /\ held = {}

(* objs_cache_alloc, partially used slab first *)
AllocFromPartial ==
  /\ partial_slabs /= <<>>
  /\ LET s == Head(partial_slabs)
     IN /\ TakeFrom(s, chain[s], slab_free[s])
        /\ IF slab_free'[s] = 0
           THEN /\ partial_slabs' = Tail(partial_slabs)
                /\ full_slabs' = <<s>> \o full_slabs
                /\ partial_slabs_count' = partial_slabs_count - 1
                /\ full_slabs_count' = full_slabs_count + 1
           ELSE UNCHANGED <<partial_slabs, full_slabs,
                            partial_slabs_count, full_slabs_count>>
  /\ free_objs_count' = free_objs_count - 1
  /\ used_objs_count' = used_objs_count + 1
  /\ UNCHANGED <<free_slabs, free_slabs_count, slab_count, created, mapped>>

(* The slab s that heads the free list leaves it, one object less. *)
LeaveFreeList(s, list, count) ==
  /\ free_slabs' = Tail(list)
  /\ free_slabs_count' = count - 1
  /\ IF slab_free'[s] /= 0
     THEN /\ partial_slabs' = <<s>> \o partial_slabs
          /\ partial_slabs_count' = partial_slabs_count + 1
          /\ UNCHANGED <<full_slabs, full_slabs_count>>
     ELSE /\ full_slabs' = <<s>> \o full_slabs
          /\ full_slabs_count' = full_slabs_count + 1
          /\ UNCHANGED <<partial_slabs, partial_slabs_count>>

(* Seeded fault: a free slab is used before the partial ones, and its object
   is not counted in use. *)
AllocFromFreeUncounted ==
  /\ free_slabs /= <<>>
  /\ LET s == Head(free_slabs)
     IN /\ TakeFrom(s, chain[s], slab_free[s])
        /\ LeaveFreeList(s, free_slabs, free_slabs_count)
  /\ free_objs_count' = free_objs_count - 1
  /\ UNCHANGED <<used_objs_count, slab_count, created, mapped>>

AllocFromFree ==
  /\ partial_slabs = <<>>
  /\ free_slabs /= <<>>
  /\ LET s == Head(free_slabs)
     IN /\ TakeFrom(s, chain[s], slab_free[s])
        /\ LeaveFreeList(s, free_slabs, free_slabs_count)
  /\ free_objs_count' = free_objs_count - 1
  /\ used_objs_count' = used_objs_count + 1
  /\ UNCHANGED <<slab_count, created, mapped>>

(* Seeded fault: the objects of the new slab are not counted free. *)
AllocFromNewUncounted(s) ==
  /\ partial_slabs = <<>>
  /\ free_slabs = <<>>
  /\ s \notin created
  /\ PagesOf(s) \notin mapped
  /\ created' = created \cup {s}
  /\ mapped' = mapped \cup {PagesOf(s)}
  /\ TakeFrom(s, NewChain, SlabObjs)
  /\ LeaveFreeList(s, <<s>>, free_slabs_count + 1)
  /\ slab_count' = slab_count + 1
  /\ free_objs_count' = free_objs_count - 1
  /\ used_objs_count' = used_objs_count + 1

(* ... from a slab create_slab has just made.  mmap never returns a range
   that is still mapped, and a descriptor never goes back to its cache. *)
AllocFromNew(s) ==
  /\ partial_slabs = <<>>
  /\ free_slabs = <<>>
  /\ s \notin created
  /\ PagesOf(s) \notin mapped
  /\ created' = created \cup {s}
  /\ mapped' = mapped \cup {PagesOf(s)}
  /\ TakeFrom(s, NewChain, SlabObjs)
  /\ LeaveFreeList(s, <<s>>, free_slabs_count + 1)
  /\ slab_count' = slab_count + 1
  /\ free_objs_count' = free_objs_count + ObjsPerSlab - 1
  /\ used_objs_count' = used_objs_count + 1

Alloc == AllocFromPartial \/ AllocFromFree \/ \E s \in Slabs : AllocFromNew(s)

-----------------------------------------------------------------------------
(* objs_cache_free, by the change of state of the slab *)

WasFull(s) == slab_free[s] = 0
(* Seeded fault: a slab is taken for free while an object of it is in use. *)
NowFreeOffByOne(s) == slab_free'[s] >= ObjsPerSlab - 1
NowFree(s) == slab_free'[s] = ObjsPerSlab

PartialToFree(s) ==
  /\ ~WasFull(s) /\ NowFree(s)
  /\ partial_slabs' = RemoveFirst(partial_slabs, s)
  /\ partial_slabs_count' = partial_slabs_count - 1
  /\ UNCHANGED <<full_slabs, full_slabs_count>>
  /\ FreeingPolicy(<<s>> \o free_slabs, free_slabs_count + 1)

(* Seeded fault: a full slab that is freed from stays on the full list. *)
FullToPartialCopied(s) ==
  /\ WasFull(s) /\ ~NowFree(s)
  /\ partial_slabs' = <<s>> \o partial_slabs
  /\ partial_slabs_count' = partial_slabs_count + 1
  /\ UNCHANGED <<full_slabs, full_slabs_count>>
  /\ FreeingPolicy(free_slabs, free_slabs_count)

FullToPartial(s) ==
  /\ WasFull(s) /\ ~NowFree(s)
  /\ full_slabs' = RemoveFirst(full_slabs, s)
  /\ full_slabs_count' = full_slabs_count - 1
  /\ partial_slabs' = <<s>> \o partial_slabs
  /\ partial_slabs_count' = partial_slabs_count + 1
  /\ FreeingPolicy(free_slabs, free_slabs_count)

FullToFree(s) ==
  /\ WasFull(s) /\ NowFree(s)
  /\ full_slabs' = RemoveFirst(full_slabs, s)
  /\ full_slabs_count' = full_slabs_count - 1
  /\ UNCHANGED <<partial_slabs, partial_slabs_count>>
  /\ FreeingPolicy(<<s>> \o free_slabs, free_slabs_count + 1)

StaysPartial(s) ==
  /\ ~WasFull(s) /\ ~NowFree(s)
  /\ UNCHANGED <<partial_slabs, partial_slabs_count, full_slabs, full_slabs_count>>
  /\ FreeingPolicy(free_slabs, free_slabs_count)

(* The callers only free what they hold (expr.c, sheet.c). *)
Free(o) ==
  /\ o \in held
  /\ PutBack(o)
  /\ \/ PartialToFree(Owner(o))
     \/ FullToPartial(Owner(o))
     \/ FullToFree(Owner(o))
     \/ StaysPartial(Owner(o))
  /\ free_objs_count' = free_objs_count + 1
  /\ used_objs_count' = used_objs_count - 1
  /\ UNCHANGED <<slab_count, created>>

Next == Alloc \/ \E o \in Objects : Free(o)

Spec == Init /\ [][Next]_vars

-----------------------------------------------------------------------------
(* Properties *)

TypeOK ==
  /\ free_slabs \in Seq(Slabs) /\ partial_slabs \in Seq(Slabs) /\ full_slabs \in Seq(Slabs)
  /\ free_slabs_count \in Nat /\ partial_slabs_count \in Nat /\ full_slabs_count \in Nat
  /\ free_objs_count \in Nat /\ used_objs_count \in Nat /\ slab_count \in Nat
  /\ chain \in [Slabs -> Seq(1..SlabObjs)]
  /\ slab_free \in [Slabs -> Nat]
  /\ created \subseteq Slabs
  /\ mapped \subseteq PageStarts
  /\ held \subseteq Objects

HeldOf(s) == {o \in held : Owner(o) = s}

(* Every object of a slab is either on the slab's chain, once, or in a
   caller's hands, never both: objs_cache_alloc cannot hand out an object
   twice and no object is lost (slab.c:190-216). *)
ChainHoldsTheRest ==
  \A s \in created :
    /\ IsInjective(chain[s])
    /\ ToSet(chain[s]) = {i \in 1..SlabObjs : <<s, i>> \notin held}
    /\ slab_free[s] = Len(chain[s])

(* The list a slab is on is its fill level, so it is on one list only, and
   it is there once: what objs_cache_alloc relies on when it takes the head of a list
   without looking (slab.c:355-432, 459-487). *)
ListsByFill ==
  /\ IsInjective(free_slabs) /\ IsInjective(partial_slabs) /\ IsInjective(full_slabs)
  /\ \A s \in ToSet(free_slabs) : HeldOf(s) = {}
  /\ \A s \in ToSet(partial_slabs) : HeldOf(s) /= {} /\ chain[s] /= <<>>
  /\ \A s \in ToSet(full_slabs) : chain[s] = <<>>
  /\ OnLists \subseteq created
  /\ \A o \in held : Owner(o) \in OnLists

(* The counters of the lists are their lengths, and the freeing policy keeps
   the free list within its limit (slab.c:218-227). *)
ListCounters ==
  /\ free_slabs_count = Len(free_slabs)
  /\ partial_slabs_count = Len(partial_slabs)
  /\ full_slabs_count = Len(full_slabs)
  /\ free_slabs_count <= MaxFreeSlabs

(* The totals: objects in use are counted exactly; free objects are not,
   since the policy forgets a slab and leaves its objects in free_objs_count
   and the slab in slab_count (slab.c:218-227, 400, 456). *)
Totals ==
  /\ used_objs_count = Cardinality(held)
  /\ slab_count = Cardinality(created)
  /\ free_objs_count + used_objs_count = slab_count * ObjsPerSlab

(* The cache implements the abstract pool. *)
Pool == INSTANCE ObjPool WITH live <- held, pool <- OnLists
PoolSpec == Pool!Spec
=============================================================================
