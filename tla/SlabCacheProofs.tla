-------------------------- MODULE SlabCacheProofs --------------------------
(***************************************************************************)
(* Theorems about SlabCache, for any number of slabs, any slab size and    *)
(* any limit on the free list.  They assume OffSlab, as every cache whose  *)
(* objects are ever freed is initialised: on the slab, objs_per_slab is    *)
(* not the number of objects of a slab, and a slab is moved to the free    *)
(* list on a wrong count.  The second half shows that the pointer code of  *)
(* SlabPtr implements SlabCache, in any finite memory.                     *)
(***************************************************************************)
EXTENDS SlabCache, SlabPtr, Lemmas

(* Finiteness, and the number of objects of all slabs ever made. *)
Counting ==
  /\ IsFiniteSet(held) /\ IsFiniteSet(created)
  /\ IsFiniteSet(created \X (1..SlabObjs))
  /\ Cardinality(created \X (1..SlabObjs)) = slab_count * SlabObjs

(* The inductive invariant.  Which list a slab is on depends on the length
   of its chain, what a caller holds on the elements of it: neither
   ListsByFill nor ChainHoldsTheRest is inductive without the other, and
   the counters need both. *)
IInv == TypeOK /\ ChainHoldsTheRest /\ ListsByFill /\ ListCounters /\ Totals /\ Counting

LEMMA Sizes ==
  ASSUME OffSlab
  PROVE  SlabObjs \in Nat \ {0} /\ ObjsPerSlab = SlabObjs
BY SizesAssumption DEF OffSlab, SlabObjs, ObjsPerSlab

(* A slab with no object in a caller's hands is a slab whose chain has all
   of its objects, and one with an empty chain has all of them out. *)
LEMMA FillLevels ==
  ASSUME OffSlab, TypeOK, ChainHoldsTheRest, NEW s \in created
  PROVE  /\ HeldOf(s) = {} <=> Len(chain[s]) = SlabObjs
         /\ chain[s] = <<>> => HeldOf(s) /= {}
         /\ slab_free[s] = Len(chain[s])
         /\ chain[s] = <<>> <=> Len(chain[s]) = 0
<1>1. s \in Slabs /\ chain[s] \in Seq(1..SlabObjs) /\ IsInjective(chain[s])
  BY DEF TypeOK, ChainHoldsTheRest
<1>2. ToSet(chain[s]) = {i \in 1..SlabObjs : <<s, i>> \notin held}
  BY DEF ChainHoldsTheRest
<1>3. Len(chain[s]) = SlabObjs <=> ToSet(chain[s]) = 1..SlabObjs
  BY <1>1, Sizes, InjectiveFull
<1>4. HeldOf(s) = {} <=> \A i \in 1..SlabObjs : <<s, i>> \notin held
  <2>1. ASSUME NEW o \in HeldOf(s)
        PROVE  \E i \in 1..SlabObjs : o = <<s, i>> /\ <<s, i>> \in held
    <3>1. o \in Slabs \X (1..SlabObjs) /\ o \in held /\ o[1] = s
      BY <2>1 DEF HeldOf, Owner, TypeOK, Objects
    <3>. QED BY <3>1
  <2>2. ASSUME NEW i \in 1..SlabObjs, <<s, i>> \in held PROVE <<s, i>> \in HeldOf(s)
    BY <2>2 DEF HeldOf, Owner
  <2>. QED BY <2>1, <2>2
<1>5. HeldOf(s) = {} <=> ToSet(chain[s]) = 1..SlabObjs
  BY <1>2, <1>4
<1>6. chain[s] = <<>> <=> Len(chain[s]) = 0
  BY <1>1
<1>7. slab_free[s] = Len(chain[s])
  BY DEF ChainHoldsTheRest
<1>. QED BY <1>3, <1>5, <1>6, <1>7, Sizes

(* alloc_obj_from_slab: the object is new to the callers, and the other
   slabs are as they were. *)
LEMMA TakeStep ==
  ASSUME OffSlab, IInv, NEW s \in Slabs, NEW objs \in Seq(1..SlabObjs), objs /= <<>>,
         IsInjective(objs), ToSet(objs) = {i \in 1..SlabObjs : <<s, i>> \notin held},
         TakeFrom(s, objs, Len(objs)), created' = created \cup {s}
  PROVE  /\ ChainHoldsTheRest'
         /\ chain' \in [Slabs -> Seq(1..SlabObjs)] /\ slab_free' \in [Slabs -> Nat]
         /\ held' \subseteq Objects
         /\ \E o \in Objects \ held : held' = held \cup {o} /\ Owner(o) = s
         /\ \A t \in Slabs \ {s} : chain'[t] = chain[t] /\ HeldOf(t)' = HeldOf(t)
         /\ HeldOf(s)' /= {} /\ slab_free'[s] = Len(chain'[s])
         /\ IsFiniteSet(held') /\ Cardinality(held') = Cardinality(held) + 1
<1> DEFINE o == <<s, Head(objs)>>
<1>1. /\ Head(objs) \in 1..SlabObjs /\ Head(objs) \in ToSet(objs)
      /\ Tail(objs) \in Seq(1..SlabObjs) /\ Len(Tail(objs)) = Len(objs) - 1 /\ Len(objs) > 0
      /\ IsInjective(Tail(objs)) /\ ToSet(Tail(objs)) = ToSet(objs) \ {Head(objs)}
  BY TailProperties
<1>2. o \in Objects \ held /\ Owner(o) = s
  BY <1>1 DEF Objects, Owner
<1>3. held' = held \cup {o} /\ held' \subseteq Objects
  BY <1>2 DEF TakeFrom, IInv, TypeOK
<1>4. /\ chain' = [chain EXCEPT ![s] = Tail(objs)]
      /\ slab_free' = [slab_free EXCEPT ![s] = Len(objs) - 1]
      /\ Len(objs) - 1 \in Nat
  BY <1>1 DEF TakeFrom
<1>5. /\ chain' \in [Slabs -> Seq(1..SlabObjs)] /\ slab_free' \in [Slabs -> Nat]
      /\ chain'[s] = Tail(objs) /\ slab_free'[s] = Len(objs) - 1
      /\ \A t \in Slabs \ {s} : chain'[t] = chain[t] /\ slab_free'[t] = slab_free[t]
  BY <1>1, <1>4 DEF IInv, TypeOK
<1>6. \A t \in Slabs \ {s} : HeldOf(t)' = HeldOf(t)
  BY <1>2, <1>3 DEF HeldOf, Owner
<1>7. HeldOf(s)' /= {}
  BY <1>2, <1>3 DEF HeldOf
<1>8. ChainHoldsTheRest'
  <2> SUFFICES ASSUME NEW t \in created'
               PROVE  /\ IsInjective(chain'[t])
                      /\ ToSet(chain'[t]) = {i \in 1..SlabObjs : <<t, i>> \notin held'}
                      /\ slab_free'[t] = Len(chain'[t])
    BY DEF ChainHoldsTheRest
  <2>1. CASE t = s
    BY <1>1, <1>3, <1>5, <2>1
  <2>2. CASE t /= s
    <3>1. t \in created /\ t \in Slabs
      BY <2>2 DEF IInv, TypeOK
    <3>2. \A i \in 1..SlabObjs : <<t, i>> \in held' <=> <<t, i>> \in held
      BY <1>3, <2>2
    <3>. QED BY <1>5, <2>2, <3>1, <3>2 DEF IInv, ChainHoldsTheRest
  <2>. QED BY <2>1, <2>2
<1>9. IsFiniteSet(held') /\ Cardinality(held') = Cardinality(held) + 1
  BY <1>2, <1>3, FS_AddElement DEF IInv, Counting
<1>. QED BY <1>1, <1>2, <1>3, <1>5, <1>6, <1>7, <1>8, <1>9

(* free_obj_from_slab: the object's slab is not full any more, and the test
   is_slab_empty says whether a caller still holds an object of it. *)
LEMMA PutStep ==
  ASSUME OffSlab, IInv, NEW o \in held, PutBack(o), created' = created
  PROVE  /\ ChainHoldsTheRest'
         /\ Owner(o) \in OnLists /\ Owner(o) \in created /\ Owner(o) \in Slabs
         /\ chain' \in [Slabs -> Seq(1..SlabObjs)] /\ slab_free' \in [Slabs -> Nat]
         /\ held' = held \ {o} /\ held' \subseteq Objects
         /\ \A t \in Slabs \ {Owner(o)} : chain'[t] = chain[t] /\ HeldOf(t)' = HeldOf(t)
         /\ WasFull(Owner(o)) <=> chain[Owner(o)] = <<>>
         /\ NowFree(Owner(o)) <=> HeldOf(Owner(o))' = {}
         /\ chain'[Owner(o)] /= <<>>
         /\ HeldOf(Owner(o)) /= {}
         /\ IsFiniteSet(held') /\ Cardinality(held') = Cardinality(held) - 1
<1> DEFINE s == Owner(o)
           i == o[2]
<1>1. s \in Slabs /\ i \in 1..SlabObjs /\ o = <<s, i>>
  BY DEF IInv, TypeOK, Objects, Owner
<1>2. s \in OnLists /\ s \in created
  BY DEF IInv, ListsByFill
<1>3. held' = held \ {o} /\ held' \subseteq Objects
  BY DEF PutBack, IInv, TypeOK
<1>4. /\ chain[s] \in Seq(1..SlabObjs) /\ IsInjective(chain[s])
      /\ i \notin ToSet(chain[s]) /\ slab_free[s] = Len(chain[s])
      /\ ToSet(chain[s]) = {j \in 1..SlabObjs : <<s, j>> \notin held}
  BY <1>1, <1>2 DEF IInv, TypeOK, ChainHoldsTheRest
<1>5. /\ <<i>> \o chain[s] \in Seq(1..SlabObjs)
      /\ Len(<<i>> \o chain[s]) = Len(chain[s]) + 1
      /\ ToSet(<<i>> \o chain[s]) = {i} \cup ToSet(chain[s])
      /\ IsInjective(<<i>> \o chain[s])
  BY <1>1, <1>4, ConsProperties
<1>6. /\ chain' = [chain EXCEPT ![s] = <<i>> \o chain[s]]
      /\ slab_free' = [slab_free EXCEPT ![s] = slab_free[s] + 1]
  BY DEF PutBack
<1>7. /\ chain' \in [Slabs -> Seq(1..SlabObjs)] /\ slab_free' \in [Slabs -> Nat]
      /\ chain'[s] = <<i>> \o chain[s] /\ slab_free'[s] = Len(chain[s]) + 1
      /\ \A t \in Slabs \ {s} : chain'[t] = chain[t] /\ slab_free'[t] = slab_free[t]
  BY <1>1, <1>4, <1>5, <1>6 DEF IInv, TypeOK
<1>8. \A t \in Slabs \ {s} : HeldOf(t)' = HeldOf(t)
  BY <1>3 DEF HeldOf
<1>9. ChainHoldsTheRest'
  <2> SUFFICES ASSUME NEW t \in created'
               PROVE  /\ IsInjective(chain'[t])
                      /\ ToSet(chain'[t]) = {j \in 1..SlabObjs : <<t, j>> \notin held'}
                      /\ slab_free'[t] = Len(chain'[t])
    BY DEF ChainHoldsTheRest
  <2>1. CASE t = s
    <3>1. {j \in 1..SlabObjs : <<s, j>> \notin held'}
            = {i} \cup {j \in 1..SlabObjs : <<s, j>> \notin held}
      BY <1>1, <1>3
    <3>. QED BY <1>4, <1>5, <1>7, <2>1, <3>1
  <2>2. CASE t /= s
    <3>1. t \in created /\ t \in Slabs
      BY DEF IInv, TypeOK
    <3>2. \A j \in 1..SlabObjs : <<t, j>> \in held' <=> <<t, j>> \in held
      BY <1>1, <1>3, <2>2
    <3>. QED BY <1>7, <2>2, <3>1, <3>2 DEF IInv, ChainHoldsTheRest
  <2>. QED BY <2>1, <2>2
<1>10. NowFree(s) <=> HeldOf(s)' = {}
  <2>1. Len(chain'[s]) = SlabObjs <=> ToSet(chain'[s]) = 1..SlabObjs
    BY <1>5, <1>7, Sizes, InjectiveFull, ZenonT(40)
  <2>2. ToSet(chain'[s]) = {j \in 1..SlabObjs : <<s, j>> \notin held'}
    BY <1>2, <1>9 DEF ChainHoldsTheRest
  <2>3. HeldOf(s)' = {} <=> \A j \in 1..SlabObjs : <<s, j>> \notin held'
    <3>1. ASSUME NEW p \in HeldOf(s)'
          PROVE  \E j \in 1..SlabObjs : p = <<s, j>> /\ <<s, j>> \in held'
      BY <3>1, <1>3 DEF HeldOf, Owner, Objects
    <3>2. ASSUME NEW j \in 1..SlabObjs, <<s, j>> \in held' PROVE <<s, j>> \in HeldOf(s)'
      BY <3>2 DEF HeldOf, Owner
    <3>. QED BY <3>1, <3>2
  <2>. QED BY <1>5, <1>7, <2>1, <2>2, <2>3, Sizes DEF NowFree
<1>11. WasFull(s) <=> chain[s] = <<>>
  BY <1>4 DEF WasFull
<1>12. chain'[s] /= <<>> /\ HeldOf(s) /= {}
  <2>1. Len(chain[s]) + 1 > 0
    BY <1>4
  <2>2. chain'[s] /= <<>>
    BY <1>5, <1>7, <2>1
  <2>. QED BY <2>2 DEF HeldOf
<1>13. IsFiniteSet(held') /\ Cardinality(held') = Cardinality(held) - 1
  BY <1>3, FS_RemoveElement DEF IInv, Counting
<1>. QED BY <1>1, <1>2, <1>3, <1>7, <1>8, <1>9, <1>10, <1>11, <1>12, <1>13

-----------------------------------------------------------------------------
(* An object of a slab of the cache that no caller holds is counted free. *)
LEMMA FreeObjectCounted ==
  ASSUME OffSlab, IInv, NEW s \in created, chain[s] /= <<>>
  PROVE  free_objs_count > 0
<1> DEFINE all == created \X (1..SlabObjs)
<1>1. held \subseteq all
  <2> SUFFICES ASSUME NEW o \in held PROVE o \in all
    OBVIOUS
  <2>1. o \in Slabs \X (1..SlabObjs) /\ o[1] \in created
    BY DEF IInv, TypeOK, Objects, ListsByFill, Owner
  <2>. QED BY <2>1
<1>2. held /= all
  <2>1. s \in Slabs /\ chain[s] \in Seq(1..SlabObjs)
    BY DEF IInv, TypeOK
  <2>2. Head(chain[s]) \in ToSet(chain[s]) /\ Head(chain[s]) \in 1..SlabObjs
    BY <2>1, TailProperties
  <2>3. <<s, Head(chain[s])>> \notin held
    BY <2>2 DEF IInv, ChainHoldsTheRest
  <2>. QED BY <2>2, <2>3
<1>3. Cardinality(held) < Cardinality(all)
  <2>1. IsFiniteSet(all) /\ IsFiniteSet(held)
    BY DEF IInv, Counting
  <2>2. Cardinality(held) \in Nat /\ Cardinality(all) \in Nat
    BY <2>1, FS_CardinalityType
  <2>3. Cardinality(held) <= Cardinality(all) /\ Cardinality(held) /= Cardinality(all)
    BY <1>1, <1>2, <2>1, FS_Subset
  <2>. QED BY <2>2, <2>3
<1>4. /\ Cardinality(all) = slab_count * SlabObjs
      /\ free_objs_count + used_objs_count = slab_count * SlabObjs
      /\ used_objs_count = Cardinality(held)
      /\ free_objs_count \in Nat /\ used_objs_count \in Nat
  BY Sizes DEF IInv, Counting, Totals, TypeOK
<1> HIDE DEF all
<1> DEFINE m == slab_count * SlabObjs
<1>5. m = Cardinality(all) /\ free_objs_count + used_objs_count = m
  BY <1>4
<1> HIDE DEF m
<1>. QED BY <1>3, <1>4, <1>5

(* The step of objs_cache_alloc that leaves the set of slabs alone keeps the
   totals. *)
LEMMA TotalsAfterAlloc ==
  ASSUME OffSlab, IInv, NEW s \in created, chain[s] /= <<>>,
         IsFiniteSet(held'), Cardinality(held') = Cardinality(held) + 1,
         free_objs_count' = free_objs_count - 1, used_objs_count' = used_objs_count + 1,
         slab_count' = slab_count, created' = created
  PROVE  /\ Totals' /\ Counting'
         /\ free_objs_count' \in Nat /\ used_objs_count' \in Nat /\ slab_count' \in Nat
<1>1. /\ free_objs_count' \in Nat /\ used_objs_count' \in Nat /\ slab_count' \in Nat
      /\ free_objs_count' + used_objs_count' = free_objs_count + used_objs_count
  BY FreeObjectCounted DEF IInv, TypeOK
<1>2. Totals'
  BY <1>1 DEF Totals, IInv
<1>3. Counting'
  BY DEF Counting, IInv
<1>. QED BY <1>1, <1>2, <1>3

LEMMA AllocFromPartialStep ==
  ASSUME OffSlab, IInv, AllocFromPartial
  PROVE  /\ IInv'
         /\ OnLists' = OnLists
         /\ \E o \in Objects \ held : held' = held \cup {o} /\ Owner(o) \in OnLists
<1>1. /\ partial_slabs \in Seq(Slabs) /\ partial_slabs /= <<>> /\ IsInjective(partial_slabs)
      /\ full_slabs \in Seq(Slabs) /\ IsInjective(full_slabs)
      /\ free_slabs \in Seq(Slabs) /\ IsInjective(free_slabs)
  BY DEF AllocFromPartial, IInv, TypeOK, ListsByFill
<1>2. PICK s \in Slabs :
        /\ s = Head(partial_slabs) /\ s \in ToSet(partial_slabs)
        /\ Tail(partial_slabs) \in Seq(Slabs)
        /\ Len(Tail(partial_slabs)) = Len(partial_slabs) - 1 /\ Len(partial_slabs) > 0
        /\ IsInjective(Tail(partial_slabs))
        /\ ToSet(Tail(partial_slabs)) = ToSet(partial_slabs) \ {s}
  BY <1>1, TailProperties
<1>3. /\ s \in created /\ chain[s] /= <<>> /\ HeldOf(s) /= {}
      /\ s \notin ToSet(free_slabs) /\ s \notin ToSet(full_slabs)
  BY <1>2 DEF IInv, ListsByFill, OnLists
<1>4. PICK objs \in Seq(1..SlabObjs) :
        /\ objs = chain[s] /\ IsInjective(objs) /\ slab_free[s] = Len(objs)
        /\ ToSet(objs) = {i \in 1..SlabObjs : <<s, i>> \notin held}
  BY <1>2, <1>3 DEF IInv, TypeOK, ChainHoldsTheRest
<1>5. created' = created /\ created' = created \cup {s} /\ TakeFrom(s, objs, Len(objs))
  BY <1>2, <1>3, <1>4 DEF AllocFromPartial
<1>6. /\ ChainHoldsTheRest'
      /\ chain' \in [Slabs -> Seq(1..SlabObjs)] /\ slab_free' \in [Slabs -> Nat]
      /\ held' \subseteq Objects
      /\ \E o \in Objects \ held : held' = held \cup {o} /\ Owner(o) = s
      /\ \A t \in Slabs \ {s} : chain'[t] = chain[t] /\ HeldOf(t)' = HeldOf(t)
      /\ HeldOf(s)' /= {} /\ slab_free'[s] = Len(chain'[s])
      /\ IsFiniteSet(held') /\ Cardinality(held') = Cardinality(held) + 1
  BY <1>3, <1>4, <1>5, TakeStep
<1>7. /\ free_slabs' = free_slabs /\ free_slabs_count' = free_slabs_count
      /\ slab_count' = slab_count /\ mapped' = mapped
      /\ free_objs_count' = free_objs_count - 1 /\ used_objs_count' = used_objs_count + 1
  BY DEF AllocFromPartial
<1>8. /\ Totals' /\ Counting'
      /\ free_objs_count' \in Nat /\ used_objs_count' \in Nat /\ slab_count' \in Nat
  BY <1>3, <1>5, <1>6, <1>7, TotalsAfterAlloc
<1>9. CASE slab_free'[s] = 0
  <2>1. /\ partial_slabs' = Tail(partial_slabs) /\ full_slabs' = <<s>> \o full_slabs
        /\ partial_slabs_count' = partial_slabs_count - 1
        /\ full_slabs_count' = full_slabs_count + 1
    BY <1>2, <1>9 DEF AllocFromPartial
  <2>2. /\ full_slabs' \in Seq(Slabs) /\ Len(full_slabs') = Len(full_slabs) + 1
        /\ ToSet(full_slabs') = {s} \cup ToSet(full_slabs) /\ IsInjective(full_slabs')
    BY <1>1, <1>2, <1>3, <2>1, ConsProperties
  <2>3. chain'[s] = <<>>
    <3>1. chain'[s] \in Seq(1..SlabObjs) /\ Len(chain'[s]) = 0
      BY <1>6, <1>9
    <3>. QED BY <3>1
  <2>4. ListCounters' /\ partial_slabs_count' \in Nat /\ full_slabs_count' \in Nat
    BY <1>1, <1>2, <1>7, <2>1, <2>2 DEF IInv, TypeOK, ListCounters
  <2>5. OnLists' = OnLists
    BY <1>2, <1>7, <2>1, <2>2 DEF OnLists
  <2>6. ListsByFill'
    <3>1. \A o \in held' : Owner(o) \in OnLists'
      BY <1>2, <1>6, <2>5 DEF IInv, ListsByFill, OnLists
    <3>2. \A t \in ToSet(free_slabs') \cup ToSet(full_slabs) \cup ToSet(partial_slabs') : t \in Slabs \ {s}
      BY <1>1, <1>2, <1>3, <1>7, <2>1, ElementsOf
    <3>. QED BY <1>1, <1>2, <1>5, <1>6, <1>7, <2>1, <2>2, <2>3, <2>5, <3>1, <3>2
             DEF IInv, ListsByFill
  <2>7. IInv'
    BY <1>1, <1>2, <1>5, <1>6, <1>7, <1>8, <2>1, <2>2, <2>4, <2>6 DEF IInv, TypeOK
  <2>. QED BY <1>2, <1>6, <2>5, <2>7 DEF OnLists
<1>10. CASE slab_free'[s] /= 0
  <2>1. UNCHANGED <<partial_slabs, full_slabs, partial_slabs_count, full_slabs_count>>
    BY <1>2, <1>10 DEF AllocFromPartial
  <2>2. chain'[s] /= <<>>
    BY <1>6, <1>10
  <2>3. ListCounters' /\ OnLists' = OnLists
    BY <1>7, <2>1 DEF IInv, ListCounters, OnLists
  <2>4. ListsByFill'
    <3>1. \A o \in held' : Owner(o) \in OnLists'
      BY <1>2, <1>6, <2>3 DEF IInv, ListsByFill, OnLists
    <3>2. \A t \in ToSet(free_slabs) \cup ToSet(full_slabs) : t \in Slabs \ {s}
      BY <1>1, <1>3, ElementsOf
    <3>3. \A t \in ToSet(partial_slabs) : t \in Slabs
      BY <1>1, ElementsOf
    <3>. QED BY <1>1, <1>2, <1>5, <1>6, <1>7, <2>1, <2>2, <2>3, <3>1, <3>2, <3>3
             DEF IInv, ListsByFill
  <2>5. IInv'
    BY <1>1, <1>5, <1>6, <1>7, <1>8, <2>1, <2>3, <2>4 DEF IInv, TypeOK
  <2>. QED BY <1>2, <1>6, <2>3, <2>5 DEF OnLists
<1>. QED BY <1>9, <1>10

(* A slab that leaves the head of the free list, whether it was there or was
   made for the purpose, goes to the list of its new fill level. *)
LEMMA LeaveFreeListStep ==
  ASSUME OffSlab, IInv, NEW s \in Slabs, NEW list \in Seq(Slabs), list /= <<>>,
         s = Head(list), IsInjective(list), Len(list) - 1 <= MaxFreeSlabs,
         s \notin ToSet(full_slabs), partial_slabs = <<>>,
         \A t \in ToSet(list) \ {s} : t \in created /\ HeldOf(t) = {},
         \A o \in held : Owner(o) \in ToSet(list) \cup ToSet(full_slabs),
         LeaveFreeList(s, list, Len(list)), created' = created \cup {s},
         chain' \in [Slabs -> Seq(1..SlabObjs)],
         \E o \in Objects \ held : held' = held \cup {o} /\ Owner(o) = s,
         \A t \in Slabs \ {s} : chain'[t] = chain[t] /\ HeldOf(t)' = HeldOf(t),
         HeldOf(s)' /= {}, slab_free'[s] = Len(chain'[s])
  PROVE  /\ ListsByFill' /\ ListCounters'
         /\ OnLists' = ToSet(list) \cup ToSet(full_slabs)
         /\ free_slabs' \in Seq(Slabs) /\ partial_slabs' \in Seq(Slabs)
         /\ full_slabs' \in Seq(Slabs)
         /\ free_slabs_count' \in Nat /\ partial_slabs_count' \in Nat
         /\ full_slabs_count' \in Nat
<1>1. /\ Tail(list) \in Seq(Slabs) /\ Len(Tail(list)) = Len(list) - 1 /\ Len(list) > 0
      /\ IsInjective(Tail(list)) /\ ToSet(Tail(list)) = ToSet(list) \ {s}
      /\ s \in ToSet(list)
  BY TailProperties
<1>2. /\ full_slabs \in Seq(Slabs) /\ IsInjective(full_slabs)
      /\ full_slabs_count = Len(full_slabs) /\ full_slabs_count \in Nat
      /\ partial_slabs_count = 0 /\ ToSet(partial_slabs) = {}
      /\ \A t \in ToSet(full_slabs) : t \in created /\ t \in Slabs \ {s} /\ chain[t] = <<>>
  <2>1. /\ full_slabs \in Seq(Slabs) /\ IsInjective(full_slabs)
        /\ full_slabs_count = Len(full_slabs) /\ full_slabs_count \in Nat
    BY DEF IInv, TypeOK, ListsByFill, ListCounters
  <2>2. partial_slabs_count = 0 /\ ToSet(partial_slabs) = {}
    BY DEF IInv, ListCounters, ToSet
  <2>3. \A t \in ToSet(full_slabs) : t \in created /\ chain[t] = <<>>
    BY DEF IInv, ListsByFill, OnLists
  <2>4. \A t \in ToSet(full_slabs) : t \in Slabs \ {s}
    BY <2>1, ElementsOf
  <2>. QED BY <2>1, <2>2, <2>3, <2>4
<1>3. /\ <<s>> \o partial_slabs \in Seq(Slabs) /\ Len(<<s>> \o partial_slabs) = 1
      /\ ToSet(<<s>> \o partial_slabs) = {s} /\ IsInjective(<<s>> \o partial_slabs)
  <2>2. <<s>> \o partial_slabs = <<s>>
    BY ConcatEmptySeq
  <2>3. /\ <<s>> \in Seq(Slabs) /\ Len(<<s>>) = 1
        /\ ToSet(<<s>>) = {s} /\ IsInjective(<<s>>)
    BY DEF ToSet, IsInjective
  <2>. QED BY <2>2, <2>3
<1>4. /\ <<s>> \o full_slabs \in Seq(Slabs) /\ Len(<<s>> \o full_slabs) = Len(full_slabs) + 1
      /\ ToSet(<<s>> \o full_slabs) = {s} \cup ToSet(full_slabs)
      /\ IsInjective(<<s>> \o full_slabs)
  BY <1>2, ConsProperties
<1>5. /\ free_slabs' = Tail(list) /\ free_slabs_count' = Len(list) - 1
      /\ Len(list) - 1 \in Nat
  BY <1>1 DEF LeaveFreeList
<1>6. \A t \in ToSet(free_slabs') : t \in created /\ HeldOf(t)' = {}
  <2>1. \A t \in ToSet(free_slabs') : t \in Slabs \ {s} /\ t \in ToSet(list) \ {s}
    BY <1>1, <1>5, ElementsOf
  <2>. QED BY <2>1
<1>7. \A o \in held' : Owner(o) \in ToSet(list) \cup ToSet(full_slabs)
  BY <1>1
<1>8. CASE slab_free'[s] /= 0
  <2>1. /\ partial_slabs' = <<s>> \o partial_slabs /\ full_slabs' = full_slabs
        /\ partial_slabs_count' = 1 /\ full_slabs_count' = full_slabs_count
    BY <1>2, <1>8 DEF LeaveFreeList
  <2>2. chain'[s] /= <<>>
    BY <1>8
  <2>3. OnLists' = ToSet(list) \cup ToSet(full_slabs)
    <3>1. ToSet(free_slabs') = ToSet(list) \ {s}
      BY <1>1, <1>5
    <3>2. ToSet(partial_slabs') = {s} /\ ToSet(full_slabs') = ToSet(full_slabs)
      BY <1>3, <2>1
    <3>. QED BY <1>1, <3>1, <3>2, ZenonT(40) DEF OnLists
  <2>4. ListsByFill'
    BY <1>1, <1>2, <1>3, <1>5, <1>6, <1>7, <2>1, <2>2, <2>3 DEF ListsByFill
  <2>5. ListCounters'
    BY <1>1, <1>2, <1>3, <1>5, <2>1 DEF ListCounters
  <2>. QED BY <1>1, <1>2, <1>3, <1>5, <2>1, <2>3, <2>4, <2>5
<1>9. CASE slab_free'[s] = 0
  <2>1. /\ full_slabs' = <<s>> \o full_slabs /\ partial_slabs' = partial_slabs
        /\ full_slabs_count' = full_slabs_count + 1 /\ partial_slabs_count' = 0
    BY <1>2, <1>9 DEF LeaveFreeList
  <2>2. chain'[s] = <<>>
    <3>1. chain'[s] \in Seq(1..SlabObjs) /\ Len(chain'[s]) = 0
      BY <1>9
    <3>. QED BY <3>1
  <2>3. OnLists' = ToSet(list) \cup ToSet(full_slabs)
    BY <1>1, <1>2, <1>4, <1>5, <2>1, ZenonT(40) DEF OnLists
  <2>4. partial_slabs \in Seq(Slabs) /\ Len(partial_slabs) = 0 /\ IsInjective(partial_slabs)
    BY DEF IInv, TypeOK, ListsByFill
  <2>5. ListsByFill'
    BY <1>1, <1>2, <1>4, <1>5, <1>6, <1>7, <2>1, <2>2, <2>3, <2>4 DEF ListsByFill
  <2>6. ListCounters'
    BY <1>1, <1>2, <1>4, <1>5, <2>1, <2>4 DEF ListCounters
  <2>. QED BY <1>1, <1>2, <1>4, <1>5, <2>1, <2>3, <2>4, <2>5, <2>6
<1>. QED BY <1>8, <1>9

LEMMA AllocFromFreeStep ==
  ASSUME OffSlab, IInv, AllocFromFree
  PROVE  /\ IInv'
         /\ OnLists' = OnLists
         /\ \E o \in Objects \ held : held' = held \cup {o} /\ Owner(o) \in OnLists
<1>1. PICK list \in Seq(Slabs) : list = free_slabs /\ list /= <<>> /\ IsInjective(list)
  BY DEF AllocFromFree, IInv, TypeOK, ListsByFill
<1>2. PICK s \in Slabs : s = Head(list) /\ s \in ToSet(list)
  BY <1>1, TailProperties
<1>3. s \in created /\ HeldOf(s) = {}
  BY <1>1, <1>2 DEF IInv, ListsByFill, OnLists
<1>4. s \notin ToSet(full_slabs) /\ chain[s] /= <<>>
  BY <1>3, FillLevels DEF IInv, ListsByFill
<1>5. PICK objs \in Seq(1..SlabObjs) :
        /\ objs = chain[s] /\ IsInjective(objs) /\ slab_free[s] = Len(objs)
        /\ ToSet(objs) = {i \in 1..SlabObjs : <<s, i>> \notin held}
  BY <1>2, <1>3 DEF IInv, TypeOK, ChainHoldsTheRest
<1>6. created' = created /\ created' = created \cup {s} /\ TakeFrom(s, objs, Len(objs))
  BY <1>1, <1>2, <1>3, <1>5 DEF AllocFromFree
<1>7. /\ ChainHoldsTheRest'
      /\ chain' \in [Slabs -> Seq(1..SlabObjs)] /\ slab_free' \in [Slabs -> Nat]
      /\ held' \subseteq Objects
      /\ \E o \in Objects \ held : held' = held \cup {o} /\ Owner(o) = s
      /\ \A t \in Slabs \ {s} : chain'[t] = chain[t] /\ HeldOf(t)' = HeldOf(t)
      /\ HeldOf(s)' /= {} /\ slab_free'[s] = Len(chain'[s])
      /\ IsFiniteSet(held') /\ Cardinality(held') = Cardinality(held) + 1
  BY <1>4, <1>5, <1>6, TakeStep
<1>8. /\ slab_count' = slab_count /\ mapped' = mapped
      /\ free_objs_count' = free_objs_count - 1 /\ used_objs_count' = used_objs_count + 1
      /\ partial_slabs = <<>> /\ LeaveFreeList(s, list, Len(list))
  BY <1>1, <1>2 DEF AllocFromFree, IInv, ListCounters
<1>9. /\ Totals' /\ Counting'
      /\ free_objs_count' \in Nat /\ used_objs_count' \in Nat /\ slab_count' \in Nat
  BY <1>3, <1>4, <1>6, <1>7, <1>8, TotalsAfterAlloc
<1>10. \A t \in ToSet(list) \ {s} : t \in created /\ HeldOf(t) = {}
  BY <1>1 DEF IInv, ListsByFill, OnLists
<1>11. \A o \in held : Owner(o) \in ToSet(list) \cup ToSet(full_slabs)
  <2>1. ToSet(partial_slabs) = {}
    BY <1>8 DEF ToSet
  <2>. QED BY <1>1, <2>1 DEF IInv, ListsByFill, OnLists
<1>12. Len(list) - 1 <= MaxFreeSlabs
  BY <1>1, SizesAssumption DEF IInv, ListCounters
<1>13. /\ ListsByFill' /\ ListCounters'
       /\ OnLists' = ToSet(list) \cup ToSet(full_slabs)
       /\ free_slabs' \in Seq(Slabs) /\ partial_slabs' \in Seq(Slabs)
       /\ full_slabs' \in Seq(Slabs)
       /\ free_slabs_count' \in Nat /\ partial_slabs_count' \in Nat
       /\ full_slabs_count' \in Nat
  BY <1>1, <1>2, <1>4, <1>6, <1>7, <1>8, <1>10, <1>11, <1>12, LeaveFreeListStep
<1>14. IInv'
  BY <1>6, <1>7, <1>8, <1>9, <1>13 DEF IInv, TypeOK
<1>15. OnLists' = OnLists /\ s \in OnLists
  <2>1. ToSet(partial_slabs) = {}
    BY <1>8 DEF ToSet
  <2>. QED BY <1>1, <1>2, <1>13, <2>1 DEF OnLists
<1>. QED BY <1>7, <1>14, <1>15

LEMMA AllocFromNewStep ==
  ASSUME OffSlab, IInv, NEW s \in Slabs, AllocFromNew(s)
  PROVE  /\ IInv'
         /\ OnLists' = OnLists \cup {s} /\ OnLists = ToSet(full_slabs)
         /\ \E o \in Objects \ held : held' = held \cup {o} /\ Owner(o) = s
<1>1. /\ partial_slabs = <<>> /\ free_slabs = <<>> /\ s \notin created
      /\ created' = created \cup {s} /\ mapped' = mapped \cup {PagesOf(s)}
      /\ slab_count' = slab_count + 1
      /\ free_objs_count' = free_objs_count + SlabObjs - 1
      /\ used_objs_count' = used_objs_count + 1
  BY Sizes DEF AllocFromNew
<1>2. /\ NewChain \in Seq(1..SlabObjs) /\ Len(NewChain) = SlabObjs /\ NewChain /= <<>>
      /\ IsInjective(NewChain) /\ ToSet(NewChain) = 1..SlabObjs
  <2>1. SlabObjs \in Nat \ {0}
    BY Sizes
  <2>2. NewChain \in [1..SlabObjs -> 1..SlabObjs] /\ \A i \in 1..SlabObjs : NewChain[i] = i
    BY DEF NewChain
  <2>3. NewChain \in Seq(1..SlabObjs) /\ Len(NewChain) = SlabObjs
    BY <2>1, <2>2 DEF NewChain
  <2>. QED BY <2>1, <2>2, <2>3 DEF IsInjective, ToSet
<1>3. HeldOf(s) = {} /\ \A i \in 1..SlabObjs : <<s, i>> \notin held
  BY <1>1 DEF IInv, ListsByFill, HeldOf, Owner
<1>4. ToSet(NewChain) = {i \in 1..SlabObjs : <<s, i>> \notin held}
  BY <1>2, <1>3
<1>5. TakeFrom(s, NewChain, Len(NewChain))
  BY <1>2 DEF AllocFromNew
<1>6. /\ ChainHoldsTheRest'
      /\ chain' \in [Slabs -> Seq(1..SlabObjs)] /\ slab_free' \in [Slabs -> Nat]
      /\ held' \subseteq Objects
      /\ \E o \in Objects \ held : held' = held \cup {o} /\ Owner(o) = s
      /\ \A t \in Slabs \ {s} : chain'[t] = chain[t] /\ HeldOf(t)' = HeldOf(t)
      /\ HeldOf(s)' /= {} /\ slab_free'[s] = Len(chain'[s])
      /\ IsFiniteSet(held') /\ Cardinality(held') = Cardinality(held) + 1
  <2>1. PICK objs \in Seq(1..SlabObjs) : objs = NewChain
    BY <1>2
  <2>. QED BY <1>1, <1>2, <1>4, <1>5, <2>1, TakeStep
<1>7. /\ ListsByFill' /\ ListCounters'
      /\ OnLists' = {s} \cup ToSet(full_slabs)
      /\ free_slabs' \in Seq(Slabs) /\ partial_slabs' \in Seq(Slabs)
      /\ full_slabs' \in Seq(Slabs)
      /\ free_slabs_count' \in Nat /\ partial_slabs_count' \in Nat
      /\ full_slabs_count' \in Nat
  <2>1. /\ <<s>> \in Seq(Slabs) /\ <<s>> /= <<>> /\ Head(<<s>>) = s /\ Len(<<s>>) = 1
        /\ IsInjective(<<s>>) /\ ToSet(<<s>>) = {s}
    BY DEF IsInjective, ToSet
  <2>2. LeaveFreeList(s, <<s>>, Len(<<s>>))
    BY <1>1, <2>1 DEF AllocFromNew, IInv, ListCounters
  <2>3. s \notin ToSet(full_slabs)
    BY <1>1 DEF IInv, ListsByFill, OnLists
  <2>4. \A o \in held : Owner(o) \in ToSet(<<s>>) \cup ToSet(full_slabs)
    BY <1>1 DEF IInv, ListsByFill, OnLists, ToSet
  <2>5. \A t \in ToSet(<<s>>) \ {s} : t \in created /\ HeldOf(t) = {}
    BY <2>1
  <2>6. Len(<<s>>) - 1 <= MaxFreeSlabs
    BY <2>1, SizesAssumption
  <2>7. PICK list \in Seq(Slabs) : list = <<s>>
    BY <2>1
  <2>. QED BY <1>1, <1>6, <2>1, <2>2, <2>3, <2>4, <2>5, <2>6, <2>7, LeaveFreeListStep
<1>8. Counting'
  <2> DEFINE old == created \X (1..SlabObjs)
             new == {s} \X (1..SlabObjs)
  <2>1. IsFiniteSet(created') /\ Cardinality(created') = Cardinality(created) + 1
    BY <1>1, FS_AddElement DEF IInv, Counting
  <2>2. IsFiniteSet(new) /\ Cardinality(new) = SlabObjs
    <3> DEFINE f == [i \in 1..SlabObjs |-> <<s, i>>]
    <3>1. f \in Bijection(1..SlabObjs, new)
      <4>1. f \in [1..SlabObjs -> new]
        OBVIOUS
      <4>2. IsInjective(f)
        BY DEF IsInjective
      <4>3. \A p \in new : \E i \in 1..SlabObjs : f[i] = p
        OBVIOUS
      <4>. QED BY <4>1, <4>2, <4>3 DEF Bijection, Injection, Surjection
    <3>2. IsFiniteSet(1..SlabObjs) /\ Cardinality(1..SlabObjs) = SlabObjs
      BY Sizes, FS_Interval
    <3>. QED BY <3>1, <3>2, FS_Bijection DEF ExistsBijection
  <2>3. IsFiniteSet(old) /\ Cardinality(old) = slab_count * SlabObjs
    BY DEF IInv, Counting
  <2>4. old \cap new = {} /\ created' \X (1..SlabObjs) = old \cup new
    BY <1>1
  <2>5. slab_count \in Nat /\ SlabObjs \in Nat
    BY Sizes DEF IInv, TypeOK
  <2>6. slab_count' * SlabObjs = slab_count * SlabObjs + SlabObjs
    BY <1>1, <2>5
  <2>7. slab_count * SlabObjs \in Nat
    BY <2>5
  <2> DEFINE m == slab_count * SlabObjs
  <2>8. /\ IsFiniteSet(old \cup new)
        /\ Cardinality(old \cup new) = m + SlabObjs
    <3>1. Cardinality(old \cap new) = 0
      BY <2>4, FS_EmptySet
    <3>2. m \in Nat /\ Cardinality(old) = m /\ IsFiniteSet(old)
      BY <2>3, <2>7
    <3>3. SlabObjs \in Nat
      BY <2>5
    <3>4. IsFiniteSet(new) /\ Cardinality(new) = SlabObjs
      BY <2>2
    <3> HIDE DEF old, new, m
    <3>5. /\ IsFiniteSet(old \cup new)
          /\ Cardinality(old \cup new)
               = Cardinality(old) + Cardinality(new) - Cardinality(old \cap new)
      BY <3>2, <3>4, FS_Union
    <3>. QED BY <3>1, <3>2, <3>3, <3>4, <3>5
  <2>. QED BY <1>6, <2>1, <2>4, <2>6, <2>8 DEF Counting
<1>9. /\ Totals'
      /\ free_objs_count' \in Nat /\ used_objs_count' \in Nat /\ slab_count' \in Nat
  <2>1. /\ slab_count \in Nat /\ SlabObjs \in Nat \ {0} /\ ObjsPerSlab = SlabObjs
        /\ free_objs_count \in Nat /\ used_objs_count \in Nat
    BY Sizes DEF IInv, TypeOK
  <2>2. slab_count' * SlabObjs = slab_count * SlabObjs + SlabObjs
    BY <1>1, <2>1
  <2>3. free_objs_count + used_objs_count = slab_count * SlabObjs
    BY <2>1 DEF IInv, Totals
  <2>4. free_objs_count' + used_objs_count' = free_objs_count + used_objs_count + SlabObjs
    BY <1>1, <2>1
  <2>5. Cardinality(created') = slab_count' /\ used_objs_count' = Cardinality(held')
    BY <1>1, <1>6, FS_AddElement DEF IInv, Counting, Totals
  <2>6. Totals'
    BY <2>1, <2>2, <2>3, <2>4, <2>5 DEF Totals, ObjsPerSlab, SlabObjs
  <2>. QED BY <1>1, <2>1, <2>6
<1>10. created' \subseteq Slabs /\ mapped' \subseteq PageStarts
  BY <1>1 DEF IInv, TypeOK, PageStarts
<1>11. IInv'
  BY <1>6, <1>7, <1>8, <1>9, <1>10 DEF IInv, TypeOK
<1>12. OnLists = ToSet(full_slabs)
  BY <1>1 DEF OnLists, ToSet
<1>. QED BY <1>6, <1>7, <1>11, <1>12

-----------------------------------------------------------------------------
(* default_slab_freeing_policy leaves a suffix of the list it is given, as
   long as the limit allows. *)
LEMMA PolicyStep ==
  ASSUME NEW list \in Seq(Slabs), IsInjective(list), FreeingPolicy(list, Len(list)),
         mapped \subseteq PageStarts
  PROVE  /\ free_slabs' \in Seq(Slabs) /\ IsInjective(free_slabs')
         /\ ToSet(free_slabs') \subseteq ToSet(list)
         /\ free_slabs_count' = Len(free_slabs') /\ free_slabs_count' \in Nat
         /\ free_slabs_count' <= MaxFreeSlabs
         /\ mapped' \subseteq PageStarts
<1>1. PICK drop \in 0..Len(list) :
        /\ drop = IF Len(list) > MaxFreeSlabs THEN Len(list) - MaxFreeSlabs ELSE 0
        /\ Len(list) - drop <= MaxFreeSlabs
  BY SizesAssumption
<1>2. /\ free_slabs' = SubSeq(list, drop + 1, Len(list))
      /\ free_slabs_count' = Len(list) - drop
      /\ mapped' \subseteq mapped
  BY <1>1 DEF FreeingPolicy, Munmap
<1>3. /\ free_slabs' \in Seq(Slabs) /\ Len(free_slabs') = Len(list) - drop
      /\ ToSet(free_slabs') \subseteq ToSet(list) /\ IsInjective(free_slabs')
  BY <1>2, DropProperties
<1>. QED BY <1>1, <1>2, <1>3, SMTT(20)

(* The lists after objs_cache_free, given where it put the object's slab. *)
LEMMA ListsAfterFree ==
  ASSUME IInv, NEW list \in Seq(Slabs), IsInjective(list), FreeingPolicy(list, Len(list)),
         \A t \in ToSet(list) : HeldOf(t)' = {} /\ t \in OnLists,
         created' = created,
         partial_slabs' \in Seq(Slabs), IsInjective(partial_slabs'),
         partial_slabs_count' = Len(partial_slabs'),
         \A t \in ToSet(partial_slabs') : HeldOf(t)' /= {} /\ chain'[t] /= <<>> /\ t \in OnLists,
         full_slabs' \in Seq(Slabs), IsInjective(full_slabs'),
         full_slabs_count' = Len(full_slabs'),
         \A t \in ToSet(full_slabs') : chain'[t] = <<>> /\ t \in OnLists,
         \A p \in held' : Owner(p) \in ToSet(partial_slabs') \cup ToSet(full_slabs')
  PROVE  /\ ListsByFill' /\ ListCounters'
         /\ OnLists' \subseteq OnLists
         /\ free_slabs' \in Seq(Slabs) /\ free_slabs_count' \in Nat
         /\ partial_slabs_count' \in Nat /\ full_slabs_count' \in Nat
         /\ mapped' \subseteq PageStarts
<1>1. /\ free_slabs' \in Seq(Slabs) /\ IsInjective(free_slabs')
      /\ ToSet(free_slabs') \subseteq ToSet(list)
      /\ free_slabs_count' = Len(free_slabs') /\ free_slabs_count' \in Nat
      /\ free_slabs_count' <= MaxFreeSlabs
      /\ mapped' \subseteq PageStarts
  BY PolicyStep DEF IInv, TypeOK
<1>2. OnLists' \subseteq OnLists
  BY <1>1 DEF OnLists
<1>3. ListsByFill'
  <2>1. OnLists \subseteq created
    BY DEF IInv, ListsByFill
  <2>2. \A p \in held' : Owner(p) \in OnLists'
    BY DEF OnLists
  <2>. QED BY <1>1, <1>2, <2>1, <2>2 DEF ListsByFill
<1>4. ListCounters'
  BY <1>1 DEF ListCounters
<1>5. partial_slabs_count' \in Nat /\ full_slabs_count' \in Nat
  OBVIOUS
<1>. QED BY <1>1, <1>2, <1>3, <1>4, <1>5

LEMMA FreeStep ==
  ASSUME OffSlab, IInv, NEW o \in held, Free(o)
  PROVE  IInv' /\ OnLists' \subseteq OnLists /\ held' = held \ {o}
<1>1. PICK s \in Slabs : s = Owner(o)
  BY DEF IInv, TypeOK, Objects, Owner
<1>2. PutBack(o) /\ created' = created /\ slab_count' = slab_count
  BY DEF Free
<1>3. /\ ChainHoldsTheRest'
      /\ s \in OnLists /\ s \in created
      /\ chain' \in [Slabs -> Seq(1..SlabObjs)] /\ slab_free' \in [Slabs -> Nat]
      /\ held' = held \ {o} /\ held' \subseteq Objects
      /\ \A t \in Slabs \ {s} : chain'[t] = chain[t] /\ HeldOf(t)' = HeldOf(t)
      /\ WasFull(s) <=> chain[s] = <<>>
      /\ NowFree(s) <=> HeldOf(s)' = {}
      /\ chain'[s] /= <<>>
      /\ HeldOf(s) /= {}
      /\ IsFiniteSet(held') /\ Cardinality(held') = Cardinality(held) - 1
  BY <1>1, <1>2, PutStep
<1>4. /\ Totals' /\ Counting'
      /\ free_objs_count' \in Nat /\ used_objs_count' \in Nat /\ slab_count' \in Nat
  <2>1. Cardinality(held') \in Nat
    BY <1>3, FS_CardinalityType
  <2>2. /\ used_objs_count = Cardinality(held) /\ used_objs_count \in Nat
        /\ free_objs_count \in Nat /\ slab_count \in Nat
        /\ free_objs_count + used_objs_count = slab_count * ObjsPerSlab
        /\ slab_count = Cardinality(created)
    BY DEF IInv, Totals, TypeOK
  <2>3. free_objs_count' = free_objs_count + 1 /\ used_objs_count' = used_objs_count - 1
    BY DEF Free
  <2>4. free_objs_count' + used_objs_count' = free_objs_count + used_objs_count
    BY <2>2, <2>3
  <2>5. Totals'
    BY <1>2, <1>3, <2>2, <2>3, <2>4 DEF Totals
  <2>6. Counting'
    BY <1>2, <1>3 DEF IInv, Counting
  <2>. QED BY <1>2, <1>3, <2>1, <2>2, <2>3, <2>5, <2>6
<1>5. /\ free_slabs \in Seq(Slabs) /\ IsInjective(free_slabs)
      /\ free_slabs_count = Len(free_slabs)
      /\ partial_slabs \in Seq(Slabs) /\ IsInjective(partial_slabs)
      /\ partial_slabs_count = Len(partial_slabs)
      /\ full_slabs \in Seq(Slabs) /\ IsInjective(full_slabs)
      /\ full_slabs_count = Len(full_slabs)
  BY DEF IInv, TypeOK, ListsByFill, ListCounters
<1>6. \A t \in ToSet(free_slabs) : t \in Slabs \ {s} /\ HeldOf(t)' = {} /\ t \in OnLists
  BY <1>3, <1>5, ElementsOf DEF IInv, ListsByFill, OnLists
<1>7. \A t \in ToSet(partial_slabs) \ {s} :
        t \in Slabs /\ HeldOf(t)' /= {} /\ chain'[t] /= <<>> /\ t \in OnLists
  BY <1>3, <1>5, ElementsOf DEF IInv, ListsByFill, OnLists
<1>8. \A t \in ToSet(full_slabs) \ {s} : t \in Slabs /\ chain'[t] = <<>> /\ t \in OnLists
  BY <1>3, <1>5, ElementsOf DEF IInv, ListsByFill, OnLists
<1>9. /\ WasFull(s) => s \in ToSet(full_slabs) /\ s \notin ToSet(partial_slabs)
      /\ ~WasFull(s) => s \in ToSet(partial_slabs) /\ s \notin ToSet(full_slabs)
  BY <1>3, <1>6 DEF IInv, ListsByFill, OnLists
<1>10. \A p \in held' : Owner(p) \in ToSet(partial_slabs) \cup ToSet(full_slabs)
  <2> SUFFICES ASSUME NEW p \in held' PROVE Owner(p) \in ToSet(partial_slabs) \cup ToSet(full_slabs)
    OBVIOUS
  <2>1. p \in held /\ p \in HeldOf(Owner(p))
    BY <1>3 DEF HeldOf
  <2>2. Owner(p) \notin ToSet(free_slabs)
    BY <2>1 DEF IInv, ListsByFill
  <2>. QED BY <2>1, <2>2 DEF IInv, ListsByFill, OnLists
<1>11. /\ <<s>> \o free_slabs \in Seq(Slabs) /\ IsInjective(<<s>> \o free_slabs)
       /\ Len(<<s>> \o free_slabs) = Len(free_slabs) + 1
       /\ ToSet(<<s>> \o free_slabs) = {s} \cup ToSet(free_slabs)
  BY <1>5, <1>6, ConsProperties
<1>12. ~NowFree(s) => HeldOf(s)' /= {}
  BY <1>3
<1>13. NowFree(s) => \A p \in held' : Owner(p) /= s
  BY <1>3 DEF HeldOf
<1> DEFINE Goal == /\ ListsByFill' /\ ListCounters'
                   /\ OnLists' \subseteq OnLists
                   /\ free_slabs' \in Seq(Slabs) /\ free_slabs_count' \in Nat
                   /\ partial_slabs' \in Seq(Slabs) /\ partial_slabs_count' \in Nat
                   /\ full_slabs' \in Seq(Slabs) /\ full_slabs_count' \in Nat
                   /\ mapped' \subseteq PageStarts
<1>14. ASSUME PartialToFree(s) PROVE Goal
  <2>1. /\ NowFree(s) /\ s \in ToSet(partial_slabs) /\ s \notin ToSet(full_slabs)
        /\ partial_slabs' = RemoveFirst(partial_slabs, s)
        /\ partial_slabs_count' = partial_slabs_count - 1
        /\ full_slabs' = full_slabs /\ full_slabs_count' = full_slabs_count
        /\ FreeingPolicy(<<s>> \o free_slabs, Len(<<s>> \o free_slabs))
    BY <1>5, <1>9, <1>11, <1>14 DEF PartialToFree
  <2>2. /\ partial_slabs' \in Seq(Slabs) /\ IsInjective(partial_slabs')
        /\ Len(partial_slabs') = Len(partial_slabs) - 1
        /\ ToSet(partial_slabs') = ToSet(partial_slabs) \ {s}
    BY <1>5, <2>1, RemoveFirstProperties
  <2>3. PICK list \in Seq(Slabs) : list = <<s>> \o free_slabs
    BY <1>11
  <2>4. \A t \in ToSet(list) : HeldOf(t)' = {} /\ t \in OnLists
    BY <1>3, <1>6, <1>11, <2>1, <2>3
  <2>5. Goal
    BY <1>2, <1>5, <1>7, <1>8, <1>10, <1>11, <1>13, <2>1, <2>2, <2>3, <2>4, ListsAfterFree
  <2>. QED BY <2>5
<1>15. ASSUME FullToPartial(s) PROVE Goal
  <2>1. /\ ~NowFree(s) /\ s \in ToSet(full_slabs) /\ s \notin ToSet(partial_slabs)
        /\ full_slabs' = RemoveFirst(full_slabs, s)
        /\ full_slabs_count' = full_slabs_count - 1
        /\ partial_slabs' = <<s>> \o partial_slabs
        /\ partial_slabs_count' = partial_slabs_count + 1
        /\ FreeingPolicy(free_slabs, Len(free_slabs))
    BY <1>5, <1>9, <1>15 DEF FullToPartial
  <2>2. /\ full_slabs' \in Seq(Slabs) /\ IsInjective(full_slabs')
        /\ Len(full_slabs') = Len(full_slabs) - 1
        /\ ToSet(full_slabs') = ToSet(full_slabs) \ {s}
    BY <1>5, <2>1, RemoveFirstProperties
  <2>3. /\ partial_slabs' \in Seq(Slabs) /\ IsInjective(partial_slabs')
        /\ Len(partial_slabs') = Len(partial_slabs) + 1
        /\ ToSet(partial_slabs') = {s} \cup ToSet(partial_slabs)
    BY <1>5, <2>1, ConsProperties
  <2>4. PICK list \in Seq(Slabs) : list = free_slabs
    BY <1>5
  <2>5. \A t \in ToSet(partial_slabs') : HeldOf(t)' /= {} /\ chain'[t] /= <<>> /\ t \in OnLists
    BY <1>3, <1>7, <1>12, <2>1, <2>3
  <2>6. Goal
    BY <1>2, <1>5, <1>6, <1>8, <1>10, <2>1, <2>2, <2>3, <2>4, <2>5, ListsAfterFree
  <2>. QED BY <2>6
<1>16. ASSUME FullToFree(s) PROVE Goal
  <2>1. /\ NowFree(s) /\ s \in ToSet(full_slabs) /\ s \notin ToSet(partial_slabs)
        /\ full_slabs' = RemoveFirst(full_slabs, s)
        /\ full_slabs_count' = full_slabs_count - 1
        /\ partial_slabs' = partial_slabs /\ partial_slabs_count' = partial_slabs_count
        /\ FreeingPolicy(<<s>> \o free_slabs, Len(<<s>> \o free_slabs))
    BY <1>5, <1>9, <1>11, <1>16 DEF FullToFree
  <2>2. /\ full_slabs' \in Seq(Slabs) /\ IsInjective(full_slabs')
        /\ Len(full_slabs') = Len(full_slabs) - 1
        /\ ToSet(full_slabs') = ToSet(full_slabs) \ {s}
    BY <1>5, <2>1, RemoveFirstProperties
  <2>3. PICK list \in Seq(Slabs) : list = <<s>> \o free_slabs
    BY <1>11
  <2>4. \A t \in ToSet(list) : HeldOf(t)' = {} /\ t \in OnLists
    BY <1>3, <1>6, <1>11, <2>1, <2>3
  <2>5. Goal
    BY <1>2, <1>5, <1>7, <1>8, <1>10, <1>11, <1>13, <2>1, <2>2, <2>3, <2>4, ListsAfterFree
  <2>. QED BY <2>5
<1>17. ASSUME StaysPartial(s) PROVE Goal
  <2>1. /\ ~NowFree(s) /\ s \in ToSet(partial_slabs) /\ s \notin ToSet(full_slabs)
        /\ partial_slabs' = partial_slabs /\ partial_slabs_count' = partial_slabs_count
        /\ full_slabs' = full_slabs /\ full_slabs_count' = full_slabs_count
        /\ FreeingPolicy(free_slabs, Len(free_slabs))
    BY <1>5, <1>9, <1>17 DEF StaysPartial
  <2>2. PICK list \in Seq(Slabs) : list = free_slabs
    BY <1>5
  <2>3. \A t \in ToSet(partial_slabs') : HeldOf(t)' /= {} /\ chain'[t] /= <<>> /\ t \in OnLists
    BY <1>3, <1>7, <1>12, <2>1
  <2>4. Goal
    BY <1>2, <1>5, <1>6, <1>8, <1>10, <2>1, <2>2, <2>3, ListsAfterFree
  <2>. QED BY <2>4
<1>18. Goal
  BY <1>1, <1>14, <1>15, <1>16, <1>17 DEF Free
<1>. QED BY <1>2, <1>3, <1>4, <1>18 DEF IInv, TypeOK

LEMMA InitInv == ASSUME Init PROVE IInv
<1>1. TypeOK /\ ListCounters /\ ListsByFill
  BY SizesAssumption DEF Init, InitLists, TypeOK, ListCounters, ListsByFill, IsInjective, ToSet,
                         OnLists, Objects, PageStarts
<1>2. ChainHoldsTheRest
  BY DEF Init, ChainHoldsTheRest
<1>3. Totals /\ Counting
  <2>1. created = {} /\ held = {} /\ created \X (1..SlabObjs) = {}
    BY DEF Init
  <2>2. slab_count = 0 /\ free_objs_count = 0 /\ used_objs_count = 0
    BY DEF Init, InitLists
  <2>3. 0 * ObjsPerSlab = 0 /\ 0 * SlabObjs = 0
    BY SizesAssumption DEF ObjsPerSlab, SlabObjs
  <2>. QED BY <2>1, <2>2, <2>3, FS_EmptySet DEF Totals, Counting
<1>. QED BY <1>1, <1>2, <1>3 DEF IInv

LEMMA StepInv == ASSUME OffSlab, IInv, [Next]_vars PROVE IInv'
<1>1. CASE UNCHANGED vars
  BY <1>1 DEF vars, lists, totals, slabs, IInv, TypeOK, ChainHoldsTheRest, ListsByFill,
              HeldOf, OnLists, ListCounters, Totals, Counting
<1>2. CASE AllocFromPartial
  BY <1>2, AllocFromPartialStep
<1>3. CASE AllocFromFree
  BY <1>3, AllocFromFreeStep
<1>4. ASSUME NEW s \in Slabs, AllocFromNew(s) PROVE IInv'
  BY <1>4, AllocFromNewStep
<1>5. ASSUME NEW o \in Objects, Free(o) PROVE IInv'
  BY <1>5, FreeStep DEF Free
<1>. QED BY <1>1, <1>2, <1>3, <1>4, <1>5 DEF Next, Alloc

(* The invariant holds of every behaviour of the cache. *)
THEOREM Invariance == ASSUME OffSlab PROVE Spec => []IInv
<1>1. Init => IInv
  BY InitInv
<1>2. IInv /\ [Next]_vars => IInv'
  BY StepInv
<1>. QED BY <1>1, <1>2, PTL DEF Spec

(* The state of a cache is well-typed; in particular none of the unsigned
   counters of struct Objs_cache or struct Userland_slab ever goes below
   zero (slab.c:362, 371, 456, 469). *)
THEOREM TypeCorrect == ASSUME OffSlab PROVE Spec => []TypeOK
<1>1. IInv => TypeOK
  BY DEF IInv
<1>. QED BY <1>1, Invariance, PTL

(* Between the chain of a slab and the callers no object is lost and none is
   in two places: objs_cache_alloc never hands out an object in use
   (slab.c:190-216). *)
THEOREM NoObjectTwice == ASSUME OffSlab PROVE Spec => []ChainHoldsTheRest
<1>1. IInv => ChainHoldsTheRest
  BY DEF IInv
<1>. QED BY <1>1, Invariance, PTL

(* The list a slab is on is its fill level, whatever the order of calls
   (slab.c:355-432, 459-487). *)
THEOREM ListsCorrect == ASSUME OffSlab PROVE Spec => []ListsByFill
<1>1. IInv => ListsByFill
  BY DEF IInv
<1>. QED BY <1>1, Invariance, PTL

(* The counters of the lists are the lengths of the lists, and the free list
   never outgrows its limit (slab.c:218-227). *)
THEOREM CountersCorrect == ASSUME OffSlab PROVE Spec => []ListCounters
<1>1. IInv => ListCounters
  BY DEF IInv
<1>. QED BY <1>1, Invariance, PTL

(* Objects in use are counted exactly, and free objects and slabs as if no slab
   was ever dropped, through every call (slab.c:218-227, 349-496). *)
THEOREM TotalsCorrect == ASSUME OffSlab PROVE Spec => []Totals
<1>1. IInv => Totals
  BY DEF IInv
<1>. QED BY <1>1, Invariance, PTL

-----------------------------------------------------------------------------
(* Refinement *)

LEMMA StepImplements == ASSUME OffSlab, IInv, [Next]_vars PROVE [Pool!Next]_(Pool!vars)
<1> USE DEF Pool!ObjectsOf
<1>1. CASE UNCHANGED vars
  BY <1>1 DEF vars, lists, OnLists, Pool!vars
<1>2. ASSUME OnLists' = OnLists,
             \E o \in Objects \ held : held' = held \cup {o} /\ Owner(o) \in OnLists
      PROVE  Pool!Reuse
  <2>1. PICK o \in Objects \ held : held' = held \cup {o} /\ Owner(o) \in OnLists
    BY <1>2
  <2>2. o \in (OnLists \X (1..SlabObjs)) \ held
    BY <2>1 DEF Objects, Owner
  <2>. QED BY <1>2, <2>1, <2>2 DEF Pool!Reuse
<1>3. CASE AllocFromPartial
  BY <1>2, <1>3, AllocFromPartialStep DEF Pool!Next
<1>4. CASE AllocFromFree
  BY <1>2, <1>4, AllocFromFreeStep DEF Pool!Next
<1>5. ASSUME NEW s \in Slabs, AllocFromNew(s) PROVE Pool!Grow
  <2>1. /\ OnLists' = OnLists \cup {s} /\ OnLists = ToSet(full_slabs)
        /\ s \notin created /\ OnLists \subseteq created
    BY <1>5, AllocFromNewStep DEF AllocFromNew, IInv, ListsByFill
  <2>2. PICK o \in Objects \ held : held' = held \cup {o} /\ Owner(o) = s
    BY <1>5, AllocFromNewStep
  <2>3. o \in {s} \X (1..SlabObjs)
    BY <2>2 DEF Objects, Owner
  <2>4. ASSUME NEW t \in OnLists, NEW i \in 1..SlabObjs PROVE <<t, i>> \in held
    <3>1. chain[t] = <<>> /\ t \in created
      BY <2>1 DEF IInv, ListsByFill
    <3>2. ToSet(chain[t]) = {} /\ ToSet(chain[t]) = {j \in 1..SlabObjs : <<t, j>> \notin held}
      BY <3>1 DEF ToSet, IInv, ChainHoldsTheRest
    <3>. QED BY <3>2
  <2>5. OnLists \X (1..SlabObjs) \subseteq held
    BY <2>4
  <2>. QED BY <2>1, <2>2, <2>3, <2>5 DEF Pool!Grow
<1>6. ASSUME NEW o \in held, Free(o) PROVE Pool!Free
  <2>1. IInv' /\ OnLists' \subseteq OnLists /\ held' = held \ {o}
    BY <1>6, FreeStep
  <2>2. ASSUME NEW s \in OnLists \ OnLists', NEW p \in ({s} \X (1..SlabObjs)) \cap held'
        PROVE  FALSE
    <3>1. Owner(p) = s /\ Owner(p) \in OnLists'
      BY <2>1, <2>2 DEF IInv, ListsByFill, Owner
    <3>. QED BY <2>2, <3>1
  <2>. QED BY <2>1, <2>2 DEF Pool!Free
<1>. QED BY <1>1, <1>3, <1>4, <1>5, <1>6 DEF Next, Alloc, Free, Pool!Next

(* The slab cache implements the abstract pool: no object is handed out
   twice, memory is asked for only when every object on the lists is in use,
   and only slabs nobody uses are forgotten (slab.c:349-496). *)
THEOREM Implements == ASSUME OffSlab PROVE Spec => PoolSpec
<1>1. Init => Pool!Init
  BY DEF Init, InitLists, Pool!Init, OnLists, ToSet
<1>2. IInv /\ [Next]_vars => [Pool!Next]_(Pool!vars)
  BY StepImplements
<1>. QED BY <1>1, <1>2, Invariance, PTL DEF Spec, PoolSpec, Pool!Spec

-----------------------------------------------------------------------------
(* The pointers of SlabPtr, which has the same objects, totals and pages.
   SlabPtr computes the lists and chains of SlabCache from its pointers; here
   both are variables, and Spelt, below, says that the first are what the
   second spell.  Whatever the pointers do, there are values for
   the variables of SlabCache that make []Spelt true, so that it restricts
   no behaviour of SlabPtr. *)
(* The i-th element of a list, for every number i. *)
At(q, i, null) == IF i \in 1..Len(q) THEN q[i] ELSE null

(* A walk along links that spell a sequence returns that sequence. *)
LEMMA WalkSpells ==
  ASSUME NEW A, NEW null, null \notin A, NEW q \in Seq(A), NEW n \in Nat, Len(q) < n,
         NEW start, start = At(q, 1, null), NEW nxt,
         \A i \in 1..Len(q) : nxt[q[i]] = At(q, i+1, null)
  PROVE  Walk(start, nxt, null, n) = q
<1>. DEFINE W(f) == [i \in 1..n |-> IF i = 1 THEN start
                                    ELSE IF f[i-1] = null THEN null ELSE nxt[f[i-1]]]
            w == [i \in 1..n |-> At(q, i, null)]
            node == CHOOSE f : f = W(f)
<1>1. Len(q) \in Nat /\ (\A i \in 1..Len(q) : q[i] \in A /\ q[i] /= null)
  OBVIOUS
<1>2. ASSUME NEW i \in 2..n
      PROVE  At(q, i, null) = IF At(q, i-1, null) = null THEN null ELSE nxt[At(q, i-1, null)]
  <2>1. CASE i - 1 \in 1..Len(q)
    <3>1. At(q, i-1, null) = q[i-1] /\ q[i-1] /= null /\ (i-1)+1 = i
      BY <1>1, <2>1 DEF At
    <3>. QED BY <2>1, <3>1
  <2>2. CASE i - 1 \notin 1..Len(q)
    <3>1. At(q, i-1, null) = null
      BY <2>2 DEF At
    <3>2. i \notin 1..Len(q)
      BY <1>1, <2>2
    <3>. QED BY <3>1, <3>2 DEF At
  <2>. QED BY <2>1, <2>2
<1>3. w = W(w)
  <2>1. \A i \in 1..n : w[i] = W(w)[i]
    <3>. SUFFICES ASSUME NEW i \in 1..n PROVE w[i] = W(w)[i]
      OBVIOUS
    <3>1. CASE i = 1
      BY <3>1
    <3>2. CASE i /= 1
      <4>1. i \in 2..n /\ i - 1 \in 1..n
        BY <3>2
      <4>2. w[i] = At(q, i, null) /\ w[i-1] = At(q, i-1, null)
        BY <4>1
      <4>. QED BY <1>2, <3>2, <4>1, <4>2
    <3>. QED BY <3>1, <3>2
  <2>. QED BY <2>1
<1>4. node = W(node)
  <2>. HIDE DEF W, w
  <2>. QED BY <1>3
<1>5. \A i \in 1..n : node[i] = IF i = 1 THEN start
                                ELSE IF node[i-1] = null THEN null ELSE nxt[node[i-1]]
  <2>. DEFINE v == node
  <2>. HIDE DEF node
  <2>1. \A i \in 1..n : W(node)[i] = IF i = 1 THEN start
                                ELSE IF node[i-1] = null THEN null ELSE nxt[node[i-1]]
    OBVIOUS
  <2>. HIDE DEF W
  <2>. QED BY <1>4, <2>1
<1>6. Walk(start, nxt, null, n)
        = [i \in 1..Cardinality({i \in 1..n : node[i] /= null}) |-> node[i]]
  BY DEF Walk
<1>. HIDE DEF node, W, w
<1>7. \A i \in 1..n : node[i] = At(q, i, null)
  <2>. DEFINE N == {k \in 0..n-1 : node[k+1] = At(q, k+1, null)}
  <2>1. 0 \in N /\ n - 1 \in Nat
    BY <1>1, <1>5
  <2>2. ASSUME NEW k \in 0..(n-1)-1, k \in N PROVE k + 1 \in N
    <3>1. /\ k + 2 \in 2..n /\ k + 2 \in 1..n /\ k + 2 /= 1 /\ k + 1 \in 0..n-1
          /\ (k+2)-1 = k+1 /\ (k+1)+1 = k+2
      OBVIOUS
    <3>2. node[k+2] = IF node[k+1] = null THEN null ELSE nxt[node[k+1]]
      BY <1>5, <3>1
    <3>3. node[k+1] = At(q, k+1, null)
      BY <2>2
    <3>4. At(q, k+2, null) = IF At(q, k+1, null) = null THEN null ELSE nxt[At(q, k+1, null)]
      BY <1>2, <3>1
    <3>. QED BY <3>1, <3>2, <3>3, <3>4
  <2>3. 0..n-1 \subseteq N
    <3>. HIDE DEF N
    <3>. QED BY <2>1, <2>2, BoundedInduction
  <2>. SUFFICES ASSUME NEW i \in 1..n PROVE node[i] = At(q, i, null)
    OBVIOUS
  <2>4. i - 1 \in 0..n-1 /\ (i-1)+1 = i
    OBVIOUS
  <2>. QED BY <2>3, <2>4
<1>8. {i \in 1..n : node[i] /= null} = 1..Len(q)
  BY <1>1, <1>7 DEF At
<1>9. Cardinality(1..Len(q)) = Len(q)
  <2>1. \A k \in Nat : Cardinality(1..k) = k
    BY FS_Interval
  <2>. QED BY <1>1, <2>1
<1>10. \A i \in 1..Len(q) : node[i] = q[i]
  BY <1>1, <1>7 DEF At
<1>11. q = [i \in 1..Len(q) |-> q[i]]
  OBVIOUS
<1>12. [i \in 1..Len(q) |-> node[i]] = [i \in 1..Len(q) |-> q[i]]
  BY <1>10
<1>. QED BY <1>6, <1>8, <1>9, <1>11, <1>12

(* The memory of the lists. *)
Links == [head : [Lists -> Slabs \cup {NULL}],
          prev : [Slabs -> Slabs \cup {NULL}], next : [Slabs -> Slabs \cup {NULL}]]

(* Every slab is in one place at most. *)
Apart(Q) ==
  /\ Q \in [Lists -> Seq(Slabs)]
  /\ \A k, l \in Lists : \A i \in 1..Len(Q[k]), j \in 1..Len(Q[l]) :
       Q[k][i] = Q[l][j] => k = l /\ i = j

Off(Q, s) == \A l \in Lists : \A i \in 1..Len(Q[l]) : Q[l][i] /= s

(* The links spell the lists Q, in both directions, and a slab on none of
   them has none. *)
Linked(m, Q) ==
  /\ \A l \in Lists :
       /\ m.head[l] = At(Q[l], 1, NULL)
       /\ \A i \in 1..Len(Q[l]) : /\ m.next[Q[l][i]] = At(Q[l], i+1, NULL)
                                  /\ m.prev[Q[l][i]] = At(Q[l], i-1, NULL)
  /\ \A s \in Slabs : Off(Q, s) => m.prev[s] = NULL /\ m.next[s] = NULL

Spells(m, Q) == m \in Links /\ Apart(Q) /\ Linked(m, Q)

(* dlist_push_head_generic *)
LEMMA PushSpells ==
  ASSUME NEW m, NEW Q, Spells(m, Q), NEW l \in Lists, NEW e \in Slabs, Off(Q, e)
  PROVE  Spells(PushHead(m, l, e), [Q EXCEPT ![l] = <<e>> \o Q[l]])
<1>. DEFINE P == [Q EXCEPT ![l] = <<e>> \o Q[l]]
            n == PushHead(m, l, e)
            h == m.head[l]
<1>1. /\ Q \in [Lists -> Seq(Slabs)] /\ \A k \in Lists : Q[k] \in Seq(Slabs) /\ Len(Q[k]) \in Nat
      /\ h = At(Q[l], 1, NULL) /\ h \in Slabs \cup {NULL}
      /\ \A k \in Lists : \A i \in 1..Len(Q[k]) : Q[k][i] \in Slabs
  BY DEF Spells, Apart, Linked, Links
<1>2. /\ P \in [Lists -> Seq(Slabs)] /\ P[l] = <<e>> \o Q[l]
      /\ \A k \in Lists \ {l} : P[k] = Q[k]
  BY <1>1, ConsProperties
<1>3. /\ Len(P[l]) = Len(Q[l]) + 1 /\ P[l][1] = e
      /\ \A i \in 2..Len(P[l]) : i - 1 \in 1..Len(Q[l]) /\ P[l][i] = Q[l][i-1]
  <2>1. Len(<<e>> \o Q[l]) = Len(Q[l]) + 1
    BY <1>1, ConsProperties
  <2>2. \A i \in 1..Len(Q[l])+1 : (<<e>> \o Q[l])[i] = IF i = 1 THEN e ELSE Q[l][i-1]
    BY <1>1
  <2>. QED BY <1>1, <1>2, <2>1, <2>2
<1>. HIDE DEF P
<1>4. Apart(P)
  <2>. SUFFICES ASSUME NEW k \in Lists, NEW j \in Lists,
                       NEW a \in 1..Len(P[k]), NEW b \in 1..Len(P[j]), P[k][a] = P[j][b]
                PROVE  k = j /\ a = b
    BY <1>2 DEF Apart
  <2>1. \A x \in Lists : \A i \in 1..Len(P[x]) :
          \/ x = l /\ i = 1 /\ P[x][i] = e
          \/ x = l /\ i /= 1 /\ i - 1 \in 1..Len(Q[x]) /\ P[x][i] = Q[x][i-1]
          \/ x /= l /\ i \in 1..Len(Q[x]) /\ P[x][i] = Q[x][i]
    <3>. SUFFICES ASSUME NEW x \in Lists, NEW i \in 1..Len(P[x])
                  PROVE  \/ x = l /\ i = 1 /\ P[x][i] = e
                         \/ x = l /\ i /= 1 /\ i - 1 \in 1..Len(Q[x]) /\ P[x][i] = Q[x][i-1]
                         \/ x /= l /\ i \in 1..Len(Q[x]) /\ P[x][i] = Q[x][i]
      OBVIOUS
    <3>1. CASE x /= l
      BY <1>2, <3>1
    <3>2. CASE x = l /\ i = 1
      BY <1>3, <3>2
    <3>3. CASE x = l /\ i /= 1
      <4>1. i \in 2..Len(P[l])
        BY <1>1, <1>3, <3>3
      <4>. QED BY <1>3, <3>3, <4>1
    <3>. QED BY <3>1, <3>2, <3>3
  <2>2. \A x \in Lists : \A i \in 1..Len(Q[x]) : Q[x][i] /= e
    BY DEF Off
  <2>3. \A x, y \in Lists : \A i \in 1..Len(Q[x]), o \in 1..Len(Q[y]) :
          Q[x][i] = Q[y][o] => x = y /\ i = o
    BY DEF Spells, Apart
  <2>4. a \in Int /\ b \in Int
    BY <1>1, <1>2, <1>3
  <2>5. CASE P[k][a] = e
    <3>1. k = l /\ a = 1
      BY <2>1, <2>2, <2>5
    <3>2. j = l /\ b = 1
      <4>1. P[j][b] = e
        BY <2>5
      <4>. QED BY <2>1, <2>2, <4>1
    <3>. QED BY <3>1, <3>2
  <2>6. CASE P[k][a] /= e
    <3>1. PICK i \in 1..Len(Q[k]) : P[k][a] = Q[k][i] /\ a = (IF k = l THEN i + 1 ELSE i)
      BY <2>1, <2>4, <2>6
    <3>2. PICK o \in 1..Len(Q[j]) : P[j][b] = Q[j][o] /\ b = (IF j = l THEN o + 1 ELSE o)
      BY <2>1, <2>4, <2>6
    <3>3. k = j /\ i = o
      <4>1. Q[k][i] = Q[j][o]
        BY <3>1, <3>2
      <4>. QED BY <2>3, <4>1
    <3>. QED BY <3>1, <3>2, <3>3
  <2>. QED BY <2>5, <2>6
<1>5. /\ n = [head |-> n.head, prev |-> n.prev, next |-> n.next]
      /\ n.head = [m.head EXCEPT ![l] = e]
      /\ n.next = [m.next EXCEPT ![e] = h]
      /\ n.prev = [IF h /= NULL THEN [m.prev EXCEPT ![h] = e] ELSE m.prev EXCEPT ![e] = NULL]
  BY DEF PushHead
<1>. HIDE DEF n
<1>6. /\ m.head \in [Lists -> Slabs \cup {NULL}]
      /\ m.prev \in [Slabs -> Slabs \cup {NULL}] /\ m.next \in [Slabs -> Slabs \cup {NULL}]
  BY DEF Spells, Links
<1>7. n \in Links
  <2>1. n.head \in [Lists -> Slabs \cup {NULL}] /\ n.next \in [Slabs -> Slabs \cup {NULL}]
    BY <1>1, <1>5, <1>6
  <2>2. n.prev \in [Slabs -> Slabs \cup {NULL}]
    <3>1. CASE h /= NULL
      <4>1. [m.prev EXCEPT ![h] = e] \in [Slabs -> Slabs \cup {NULL}]
        BY <1>1, <1>6, <3>1
      <4>2. n.prev = [[m.prev EXCEPT ![h] = e] EXCEPT ![e] = NULL]
        BY <1>5, <3>1
      <4>. HIDE DEF h
      <4>. QED BY <4>1, <4>2
    <3>2. CASE h = NULL
      BY <1>5, <1>6, <3>2
    <3>. QED BY <3>1, <3>2
  <2>. QED BY <1>5, <2>1, <2>2 DEF Links
<1>8. /\ n.head[l] = e /\ (\A k \in Lists \ {l} : n.head[k] = m.head[k])
      /\ n.next[e] = h /\ n.prev[e] = NULL
      /\ \A s \in Slabs \ {e} : n.next[s] = m.next[s]
      /\ \A s \in Slabs \ {e} : s /= h => n.prev[s] = m.prev[s]
      /\ h \in Slabs /\ h /= e => n.prev[h] = e
  BY <1>1, <1>5, <1>6, PtrAssumption
<1>9. ASSUME NEW k \in Lists
      PROVE  /\ n.head[k] = At(P[k], 1, NULL)
             /\ \A i \in 1..Len(P[k]) : /\ n.next[P[k][i]] = At(P[k], i+1, NULL)
                                        /\ n.prev[P[k][i]] = At(P[k], i-1, NULL)
  <2>0. m.head[k] = At(Q[k], 1, NULL)
    BY DEF Spells, Linked
  <2>1. \A i \in 1..Len(Q[k]) : /\ m.next[Q[k][i]] = At(Q[k], i+1, NULL)
                                /\ m.prev[Q[k][i]] = At(Q[k], i-1, NULL)
                                /\ Q[k][i] /= e /\ Q[k][i] \in Slabs
    BY <1>1 DEF Spells, Linked, Off
  <2>2. CASE k /= l
    <3>1. P[k] = Q[k]
      BY <1>2, <2>2
    <3>2. \A i \in 1..Len(Q[k]) : Q[k][i] /= h
      BY <1>1, <2>2, PtrAssumption DEF At, Spells, Apart
    <3>. QED BY <1>8, <2>0, <2>1, <2>2, <3>1, <3>2
  <2>3. CASE k = l
    <3>1. n.head[l] = At(P[l], 1, NULL)
      BY <1>1, <1>3, <1>8 DEF At
    <3>2. n.next[e] = At(P[l], 2, NULL) /\ n.prev[e] = At(P[l], 0, NULL)
      BY <1>1, <1>3, <1>8 DEF At
    <3>3. ASSUME NEW i \in 2..Len(P[l])
          PROVE  /\ n.next[P[l][i]] = At(P[l], i+1, NULL)
                 /\ n.prev[P[l][i]] = At(P[l], i-1, NULL)
      <4>. DEFINE x == Q[l][i-1]
      <4>1. i - 1 \in 1..Len(Q[l]) /\ P[l][i] = x /\ x /= e /\ x \in Slabs /\ i \in Int
        BY <1>1, <1>3, <2>1, <2>3
      <4>2. n.next[x] = At(Q[l], (i-1)+1, NULL)
        <5>1. m.next[x] = At(Q[l], (i-1)+1, NULL)
          BY <2>1, <2>3, <4>1
        <5>2. n.next[x] = m.next[x]
          BY <1>8, <4>1
        <5>. QED BY <5>1, <5>2
      <4>3. At(Q[l], (i-1)+1, NULL) = At(P[l], i+1, NULL)
        <5>1. (i-1)+1 = i /\ (i \in 1..Len(Q[l]) <=> i + 1 \in 1..Len(P[l]))
          BY <1>1, <1>3, <4>1
        <5>2. i \in 1..Len(Q[l]) => i + 1 \in 2..Len(P[l]) /\ (i+1)-1 = i
          BY <1>1, <1>3, <4>1
        <5>3. i \in 1..Len(Q[l]) => P[l][i+1] = Q[l][i]
          BY <1>3, <5>2
        <5>. QED BY <5>1, <5>3 DEF At
      <4>4. CASE i = 2
        <5>1. x = h /\ h \in Slabs
          BY <1>1, <4>1, <4>4 DEF At
        <5>2. At(P[l], i-1, NULL) = e
          BY <1>1, <1>3, <4>4 DEF At
        <5>. QED BY <1>8, <4>1, <4>2, <4>3, <5>1, <5>2
      <4>5. CASE i /= 2
        <5>1. x /= h
          BY <1>1, <4>1, <4>5, PtrAssumption DEF At, Spells, Apart
        <5>2. n.prev[x] = At(Q[l], (i-1)-1, NULL)
          <6>1. m.prev[x] = At(Q[l], (i-1)-1, NULL)
            BY <2>1, <2>3, <4>1
          <6>2. n.prev[x] = m.prev[x]
            BY <1>8, <4>1, <5>1
          <6>. QED BY <6>1, <6>2
        <5>3. At(Q[l], (i-1)-1, NULL) = At(P[l], i-1, NULL)
          BY <1>1, <1>3, <4>1, <4>5 DEF At
        <5>. QED BY <4>1, <4>2, <4>3, <5>2, <5>3
      <4>. QED BY <4>4, <4>5
    <3>4. \A i \in 1..Len(P[l]) : i = 1 \/ i \in 2..Len(P[l])
      BY <1>1, <1>3
    <3>5. ASSUME NEW i \in 1..Len(P[l])
          PROVE  /\ n.next[P[l][i]] = At(P[l], i+1, NULL)
                 /\ n.prev[P[l][i]] = At(P[l], i-1, NULL)
      <4>1. CASE i = 1
        BY <1>3, <3>2, <4>1
      <4>. QED BY <3>3, <3>4, <4>1
    <3>. QED BY <2>3, <3>1, <3>5
  <2>. QED BY <2>2, <2>3
<1>10. ASSUME NEW s \in Slabs, Off(P, s) PROVE n.prev[s] = NULL /\ n.next[s] = NULL
  <2>1. s /= e
    BY <1>1, <1>3, <1>10 DEF Off
  <2>2. \A k \in Lists : \A i \in 1..Len(Q[k]) : Q[k][i] /= s
    <3>. SUFFICES ASSUME NEW k \in Lists, NEW i \in 1..Len(Q[k]) PROVE Q[k][i] /= s
      OBVIOUS
    <3>1. CASE k /= l
      BY <1>2, <1>10, <3>1 DEF Off
    <3>2. CASE k = l
      <4>1. i + 1 \in 2..Len(P[l]) /\ i + 1 \in 1..Len(P[l]) /\ (i+1)-1 = i
        BY <1>1, <1>3, <3>2
      <4>2. P[l][i+1] = Q[l][i]
        BY <1>3, <4>1
      <4>. QED BY <1>10, <3>2, <4>1, <4>2 DEF Off
    <3>. QED BY <3>1, <3>2
  <2>3. s /= h
    BY <1>1, <2>2, PtrAssumption DEF At
  <2>4. Off(Q, s)
    BY <2>2 DEF Off
  <2>. QED BY <1>8, <2>1, <2>3, <2>4 DEF Spells, Linked
<1>11. Linked(n, P)
  BY <1>9, <1>10 DEF Linked
<1>. QED BY <1>4, <1>7, <1>11 DEF Spells, n, P

(* R is q without its k-th element. *)
Without(q, k, R) ==
  /\ R \in Seq(Slabs) /\ Len(R) = Len(q) - 1
  /\ \A i \in 1..Len(R) : R[i] = IF i < k THEN q[i] ELSE q[i+1]

LEMMA WithoutAt ==
  ASSUME NEW q \in Seq(Slabs), NEW k \in 1..Len(q), NEW R, Without(q, k, R), NULL \notin Slabs
  PROVE  \A i \in Nat : At(R, i, NULL) = IF i < k THEN At(q, i, NULL) ELSE At(q, i+1, NULL)
<1>. SUFFICES ASSUME NEW i \in Nat
              PROVE  At(R, i, NULL) = IF i < k THEN At(q, i, NULL) ELSE At(q, i+1, NULL)
  OBVIOUS
<1>1. Len(q) \in Nat /\ Len(R) = Len(q) - 1 /\ k \in Nat /\ k >= 1 /\ k <= Len(q)
  BY DEF Without
<1>2. CASE i \in 1..Len(R)
  BY <1>1, <1>2 DEF At, Without
<1>3. CASE i \notin 1..Len(R)
  <2>1. IF i < k THEN i \notin 1..Len(q) ELSE i + 1 \notin 1..Len(q)
    BY <1>1, <1>3
  <2>. QED BY <1>3, <2>1 DEF At
<1>. QED BY <1>2, <1>3

(* Without one element the lists are apart, and the element is nowhere. *)
LEMMA WithoutApart ==
  ASSUME NEW Q, Apart(Q), NEW l \in Lists, NEW k \in 1..Len(Q[l]), NEW R, Without(Q[l], k, R),
         NEW P, P = [Q EXCEPT ![l] = R]
  PROVE  Apart(P) /\ Off(P, Q[l][k])
<1>. DEFINE from(x, i) == IF x = l /\ i >= k THEN i + 1 ELSE i
<1>1. /\ Q \in [Lists -> Seq(Slabs)] /\ \A x \in Lists : Q[x] \in Seq(Slabs) /\ Len(Q[x]) \in Nat
      /\ R \in Seq(Slabs) /\ Len(R) = Len(Q[l]) - 1 /\ k \in Nat
      /\ \A i \in 1..Len(R) : R[i] = IF i < k THEN Q[l][i] ELSE Q[l][i+1]
  BY DEF Apart, Without
<1>2. P \in [Lists -> Seq(Slabs)] /\ P[l] = R /\ \A x \in Lists \ {l} : P[x] = Q[x]
  BY <1>1
<1>3. \A x, y \in Lists : \A i \in 1..Len(Q[x]), j \in 1..Len(Q[y]) :
        Q[x][i] = Q[y][j] => x = y /\ i = j
  BY DEF Apart
<1>4. \A x \in Lists : \A i \in 1..Len(P[x]) :
        from(x, i) \in 1..Len(Q[x]) /\ P[x][i] = Q[x][from(x, i)] /\ i \in Nat
  <2>. SUFFICES ASSUME NEW x \in Lists, NEW i \in 1..Len(P[x])
                PROVE  from(x, i) \in 1..Len(Q[x]) /\ P[x][i] = Q[x][from(x, i)] /\ i \in Nat
    OBVIOUS
  <2>1. CASE x = l
    BY <1>1, <1>2, <2>1
  <2>2. CASE x /= l
    BY <1>1, <1>2, <2>2
  <2>. QED BY <2>1, <2>2
<1>5. Apart(P)
  <2>. SUFFICES ASSUME NEW x \in Lists, NEW y \in Lists,
                       NEW i \in 1..Len(P[x]), NEW j \in 1..Len(P[y]), P[x][i] = P[y][j]
                PROVE  x = y /\ i = j
    BY <1>2 DEF Apart
  <2>1. Q[x][from(x, i)] = Q[y][from(y, j)]
    <3>. HIDE DEF from
    <3>1. P[x][i] = Q[x][from(x, i)] /\ P[y][j] = Q[y][from(y, j)]
      BY <1>4
    <3>. QED BY <3>1
  <2>2. x = y /\ from(x, i) = from(y, j)
    <3>. HIDE DEF from
    <3>. QED BY <1>3, <1>4, <2>1
  <2>3. i \in Nat /\ j \in Nat
    BY <1>4
  <2>. QED BY <1>1, <2>2, <2>3
<1>6. Off(P, Q[l][k])
  <2>. SUFFICES ASSUME NEW x \in Lists, NEW i \in 1..Len(P[x]), P[x][i] = Q[l][k] PROVE FALSE
    BY DEF Off
  <2>1. x = l /\ from(x, i) = k
    <3>. HIDE DEF from
    <3>1. from(x, i) \in 1..Len(Q[x]) /\ Q[x][from(x, i)] = Q[l][k]
      <4>1. from(x, i) \in 1..Len(Q[x]) /\ P[x][i] = Q[x][from(x, i)]
        BY <1>4
      <4>. QED BY <4>1
    <3>. QED BY <1>3, <3>1
  <2>. QED BY <1>1, <1>4, <2>1
<1>. QED BY <1>5, <1>6

(* No other slab leaves its place. *)
LEMMA WithoutOff ==
  ASSUME NEW Q, Apart(Q), NEW l \in Lists, NEW k \in 1..Len(Q[l]), NEW R, Without(Q[l], k, R),
         NEW P, P = [Q EXCEPT ![l] = R], NEW s, Off(P, s), s /= Q[l][k]
  PROVE  Off(Q, s)
<1>1. /\ Q \in [Lists -> Seq(Slabs)] /\ \A x \in Lists : Q[x] \in Seq(Slabs) /\ Len(Q[x]) \in Nat
      /\ R \in Seq(Slabs) /\ Len(R) = Len(Q[l]) - 1 /\ k \in Nat
      /\ \A i \in 1..Len(R) : R[i] = IF i < k THEN Q[l][i] ELSE Q[l][i+1]
  BY DEF Apart, Without
<1>2. P[l] = R /\ \A x \in Lists \ {l} : P[x] = Q[x]
  BY <1>1
<1>. SUFFICES ASSUME NEW x \in Lists, NEW i \in 1..Len(Q[x]), Q[x][i] = s PROVE FALSE
  BY DEF Off
<1>3. CASE x /= l
  BY <1>2, <1>3 DEF Off
<1>4. CASE x = l
  <2>. DEFINE j == IF i < k THEN i ELSE i - 1
  <2>1. j \in 1..Len(R) /\ R[j] = Q[l][i]
    BY <1>1, <1>4
  <2>. QED BY <1>2, <1>4, <2>1 DEF Off
<1>. QED BY <1>3, <1>4

(* The links of n are those of m but for the neighbours of the k-th element
   of a list, which point past it, and that element, which has none. *)
PointPast(m, n, Q, l, k) ==
  /\ n \in Links
  /\ n.head[l] = At(Q[l], IF k = 1 THEN 2 ELSE 1, NULL)
  /\ \A x \in Lists \ {l} : n.head[x] = m.head[x]
  /\ \A s \in Slabs :
       n.next[s] = IF s = Q[l][k] THEN NULL
                   ELSE IF s = At(Q[l], k-1, NULL) THEN At(Q[l], k+1, NULL) ELSE m.next[s]
  /\ \A s \in Slabs :
       n.prev[s] = IF s = Q[l][k] THEN NULL
                   ELSE IF s = At(Q[l], k+1, NULL) THEN At(Q[l], k-1, NULL) ELSE m.prev[s]

LEMMA PastSpells ==
  ASSUME NEW m, NEW Q, Spells(m, Q), NEW l \in Lists, NEW k \in 1..Len(Q[l]),
         NEW R, Without(Q[l], k, R), NEW n, PointPast(m, n, Q, l, k)
  PROVE  Spells(n, [Q EXCEPT ![l] = R])
<1>. DEFINE P == [Q EXCEPT ![l] = R]
            q == Q[l]
<1>1. /\ Q \in [Lists -> Seq(Slabs)] /\ \A x \in Lists : Q[x] \in Seq(Slabs) /\ Len(Q[x]) \in Nat
      /\ R \in Seq(Slabs) /\ Len(R) = Len(q) - 1 /\ k \in Nat
      /\ \A i \in 1..Len(R) : R[i] = IF i < k THEN q[i] ELSE q[i+1]
      /\ \A x \in Lists : \A i \in 1..Len(Q[x]) : Q[x][i] \in Slabs /\ Q[x][i] /= NULL
  BY PtrAssumption DEF Spells, Apart, Without
<1>2. P \in [Lists -> Seq(Slabs)] /\ P[l] = R /\ \A x \in Lists \ {l} : P[x] = Q[x]
  BY <1>1
<1>3. /\ Apart(P) /\ Off(P, q[k])
      /\ \A s \in Slabs : Off(P, s) => Off(Q, s) \/ s = q[k]
  <2>1. Apart(Q)
    BY DEF Spells
  <2>2. P = [Q EXCEPT ![l] = R]
    OBVIOUS
  <2>. HIDE DEF P
  <2>3. Apart(P)
    BY <2>1, <2>2, WithoutApart
  <2>4. Off(P, q[k])
    BY <2>1, <2>2, WithoutApart
  <2>5. ASSUME NEW s \in Slabs, Off(P, s) PROVE Off(Q, s) \/ s = q[k]
    <3>1. CASE s /= Q[l][k]
      BY <2>1, <2>2, <2>5, <3>1, WithoutOff
    <3>. QED BY <3>1 DEF q
  <2>. QED BY <2>3, <2>4, <2>5
<1>. HIDE DEF P, q
<1>4. \A x, y \in Lists : \A i \in 1..Len(Q[x]), j \in 1..Len(Q[y]) :
        Q[x][i] = Q[y][j] => x = y /\ i = j
  BY DEF Spells, Apart
<1>5. \A x \in Lists : /\ m.head[x] = At(Q[x], 1, NULL)
                       /\ \A i \in 1..Len(Q[x]) : /\ m.next[Q[x][i]] = At(Q[x], i+1, NULL)
                                                  /\ m.prev[Q[x][i]] = At(Q[x], i-1, NULL)
  BY DEF Spells, Linked
<1>6. \A i \in Nat : At(R, i, NULL) = IF i < k THEN At(q, i, NULL) ELSE At(q, i+1, NULL)
  BY WithoutAt, PtrAssumption DEF q, Spells, Apart
<1>7. \A i, j \in 1..Len(q) : q[i] = q[j] => i = j
  BY <1>4 DEF q
<1>8. ASSUME NEW i \in 1..Len(R)
      PROVE  /\ n.next[R[i]] = At(R, i+1, NULL)
             /\ n.prev[R[i]] = At(R, i-1, NULL)
  <2>. DEFINE j == IF i < k THEN i ELSE i + 1
  <2>1. j \in 1..Len(q) /\ R[i] = q[j] /\ j /= k /\ i \in Nat /\ i >= 1 /\ i - 1 \in Nat /\ i + 1 \in Nat
    BY <1>1
  <2>2. /\ q[j] \in Slabs /\ q[j] /= q[k]
        /\ m.next[q[j]] = At(q, j+1, NULL) /\ m.prev[q[j]] = At(q, j-1, NULL)
    <3>. HIDE DEF j
    <3>. QED BY <1>1, <1>5, <1>7, <2>1 DEF q
  <2>3. q[j] = At(q, k-1, NULL) <=> j = k - 1
    <3>. HIDE DEF j
    <3>. QED BY <1>1, <1>7, <2>1, <2>2 DEF At, q
  <2>4. q[j] = At(q, k+1, NULL) <=> j = k + 1
    <3>. HIDE DEF j
    <3>. QED BY <1>1, <1>7, <2>1, <2>2 DEF At, q
  <2>5. n.next[q[j]] = IF j = k - 1 THEN At(q, k+1, NULL) ELSE At(q, j+1, NULL)
    <3>. HIDE DEF j
    <3>. QED BY <2>2, <2>3 DEF q, PointPast
  <2>6. n.prev[q[j]] = IF j = k + 1 THEN At(q, k-1, NULL) ELSE At(q, j-1, NULL)
    <3>. HIDE DEF j
    <3>. QED BY <2>2, <2>4 DEF q, PointPast
  <2>7. At(R, i+1, NULL) = IF j = k - 1 THEN At(q, k+1, NULL) ELSE At(q, j+1, NULL)
    <3>1. CASE i < k
      <4>1. At(R, i+1, NULL) = IF i + 1 < k THEN At(q, i+1, NULL) ELSE At(q, (i+1)+1, NULL)
        BY <1>6, <2>1
      <4>2. i + 1 < k \/ (i + 1)  = k
        BY <1>1, <2>1, <3>1
      <4>. QED BY <1>1, <2>1, <3>1, <4>1, <4>2
    <3>2. CASE ~(i < k)
      <4>1. At(R, i+1, NULL) = At(q, (i+1)+1, NULL)
        BY <1>1, <1>6, <2>1, <3>2
      <4>. QED BY <1>1, <2>1, <3>2, <4>1
    <3>. QED BY <3>1, <3>2
  <2>8. At(R, i-1, NULL) = IF j = k + 1 THEN At(q, k-1, NULL) ELSE At(q, j-1, NULL)
    <3>1. At(R, i-1, NULL) = IF i - 1 < k THEN At(q, i-1, NULL) ELSE At(q, (i-1)+1, NULL)
      BY <1>6, <2>1
    <3>2. CASE i < k
      BY <1>1, <2>1, <3>1, <3>2
    <3>3. CASE i = k
      BY <1>1, <2>1, <3>1, <3>3
    <3>4. CASE i > k
      BY <1>1, <2>1, <3>1, <3>4
    <3>. QED BY <1>1, <2>1, <3>2, <3>3, <3>4
  <2>. QED BY <2>1, <2>5, <2>6, <2>7, <2>8
<1>9. ASSUME NEW x \in Lists
      PROVE  /\ n.head[x] = At(P[x], 1, NULL)
             /\ \A i \in 1..Len(P[x]) : /\ n.next[P[x][i]] = At(P[x], i+1, NULL)
                                        /\ n.prev[P[x][i]] = At(P[x], i-1, NULL)
  <2>1. CASE x = l
    <3>1. At(R, 1, NULL) = At(q, IF k = 1 THEN 2 ELSE 1, NULL)
      <4>1. At(R, 1, NULL) = IF 1 < k THEN At(q, 1, NULL) ELSE At(q, 1+1, NULL)
        BY <1>6
      <4>2. k \in Nat /\ k >= 1 /\ 1+1 = 2
        BY <1>1
      <4>. QED BY <4>1, <4>2
    <3>. QED BY <1>2, <1>8, <2>1, <3>1 DEF PointPast, q
  <2>2. CASE x /= l
    <3>1. ASSUME NEW i \in 1..Len(Q[x]), NEW j
          PROVE  Q[x][i] /= At(q, j, NULL)
      BY <1>1, <1>4, <2>2 DEF At, q
    <3>2. q[k] = At(q, k, NULL)
      BY DEF At, q
    <3>3. \A i \in 1..Len(Q[x]) : /\ n.next[Q[x][i]] = m.next[Q[x][i]]
                                 /\ n.prev[Q[x][i]] = m.prev[Q[x][i]]
      BY <1>1, <3>1, <3>2 DEF q, PointPast
    <3>. QED BY <1>2, <1>5, <2>2, <3>3 DEF PointPast
  <2>. QED BY <2>1, <2>2
<1>10. ASSUME NEW s \in Slabs, Off(P, s) PROVE n.prev[s] = NULL /\ n.next[s] = NULL
  <2>1. CASE s = q[k]
    BY <2>1 DEF q, PointPast
  <2>2. CASE s /= q[k]
    <3>1. Off(Q, s)
      BY <1>3, <1>10, <2>2
    <3>2. m.prev[s] = NULL /\ m.next[s] = NULL
      BY <3>1 DEF Spells, Linked
    <3>3. s /= At(q, k-1, NULL) /\ s /= At(q, k+1, NULL)
      BY <3>1, PtrAssumption DEF At, Off, q
    <3>. QED BY <2>2, <3>2, <3>3 DEF q, PointPast
  <2>. QED BY <2>1, <2>2
<1>. QED BY <1>3, <1>9, <1>10 DEF Spells, Linked, P, PointPast

(* dlist_delete_head_generic *)
LEMMA DeleteHeadPast ==
  ASSUME NEW m, NEW Q, Spells(m, Q), NEW l \in Lists, Len(Q[l]) > 0
  PROVE  PointPast(m, DeleteHead(m, l), Q, l, 1)
<1>. DEFINE q == Q[l]
            h == m.head[l]
            second == m.next[h]
            n == DeleteHead(m, l)
<1>1. /\ q \in Seq(Slabs) /\ Len(q) \in Nat /\ 1 \in 1..Len(q) /\ q[1] \in Slabs
      /\ \A i \in 1..Len(q) : q[i] \in Slabs /\ q[i] /= NULL
      /\ \A i, j \in 1..Len(q) : q[i] = q[j] => i = j
  BY PtrAssumption DEF Spells, Apart
<1>2. /\ m = [head |-> m.head, prev |-> m.prev, next |-> m.next]
      /\ m.head \in [Lists -> Slabs \cup {NULL}]
      /\ m.prev \in [Slabs -> Slabs \cup {NULL}] /\ m.next \in [Slabs -> Slabs \cup {NULL}]
  BY DEF Spells, Links
<1>3. h = q[1] /\ second = At(q, 2, NULL) /\ m.prev[h] = NULL
  <2>1. h = At(q, 1, NULL) /\ m.next[q[1]] = At(q, 1+1, NULL) /\ m.prev[q[1]] = At(q, 1-1, NULL)
    BY <1>1 DEF Spells, Linked
  <2>2. At(q, 1, NULL) = q[1] /\ At(q, 0, NULL) = NULL
    BY <1>1 DEF At
  <2>. QED BY <2>1, <2>2
<1>4. At(q, 0, NULL) = NULL /\ NULL \notin Slabs
  BY PtrAssumption DEF At
<1>5. CASE second = NULL
  <2>1. n = [m EXCEPT !.head[l] = NULL]
    BY <1>5 DEF DeleteHead
  <2>. HIDE DEF n, h, second, q
  <2>2. /\ n = [head |-> n.head, prev |-> n.prev, next |-> n.next]
        /\ n.head = [m.head EXCEPT ![l] = NULL] /\ n.prev = m.prev /\ n.next = m.next
    BY <1>2, <2>1
  <2>3. n \in Links
    BY <1>2, <2>2 DEF Links
  <2>4. /\ n.head[l] = At(q, 2, NULL) /\ \A x \in Lists \ {l} : n.head[x] = m.head[x]
    BY <1>2, <1>3, <1>5, <2>2
  <2>5. m.next[q[1]] = NULL /\ m.prev[q[1]] = NULL /\ At(q, 2, NULL) = NULL
    BY <1>3, <1>5 DEF second
  <2>6. PointPast(m, n, Q, l, 1)
    BY <1>4, <2>2, <2>3, <2>4, <2>5 DEF PointPast, q
  <2>. QED BY <2>6 DEF n
<1>6. CASE second /= NULL
  <2>1. n = [head |-> [m.head EXCEPT ![l] = second],
             prev |-> [m.prev EXCEPT ![second] = NULL, ![h] = NULL],
             next |-> [m.next EXCEPT ![h] = NULL]]
    BY <1>6 DEF DeleteHead
  <2>2. second = q[2] /\ second \in Slabs /\ second /= h /\ h \in Slabs
    BY <1>1, <1>3, <1>6 DEF At
  <2>. HIDE DEF n, h, second, q
  <2>3. /\ n.head[l] = second /\ \A x \in Lists \ {l} : n.head[x] = m.head[x]
        /\ \A s \in Slabs : n.next[s] = IF s = h THEN NULL ELSE m.next[s]
        /\ \A s \in Slabs : n.prev[s] = IF s = h THEN NULL
                                         ELSE IF s = second THEN NULL ELSE m.prev[s]
    BY <1>2, <2>1, <2>2
  <2>4. n \in Links
    BY <1>2, <2>1, <2>2 DEF Links
  <2>5. At(q, 1-1, NULL) = NULL /\ At(q, 1+1, NULL) = second /\ h = q[1] /\ h \in Slabs
    BY <1>3, <1>4, <2>2
  <2>6. PointPast(m, n, Q, l, 1)
    BY <1>3, <1>4, <2>2, <2>3, <2>4, <2>5 DEF PointPast, q
  <2>. QED BY <2>6 DEF n
<1>. QED BY <1>5, <1>6

(* dlist_delete_el_generic *)
LEMMA DeleteElPast ==
  ASSUME NEW m, NEW Q, Spells(m, Q), NEW l \in Lists, NEW k \in 1..Len(Q[l])
  PROVE  PointPast(m, DeleteEl(m, l, Q[l][k]), Q, l, k)
<1>. DEFINE q == Q[l]
            e == q[k]
            n == DeleteEl(m, l, e)
<1>1. /\ q \in Seq(Slabs) /\ Len(q) \in Nat /\ Len(q) > 0 /\ 1 \in 1..Len(q)
      /\ \A i \in 1..Len(q) : q[i] \in Slabs /\ q[i] /= NULL
      /\ \A i, j \in 1..Len(q) : q[i] = q[j] => i = j
  BY PtrAssumption DEF Spells, Apart
<1>2. /\ m = [head |-> m.head, prev |-> m.prev, next |-> m.next]
      /\ m.head \in [Lists -> Slabs \cup {NULL}]
      /\ m.prev \in [Slabs -> Slabs \cup {NULL}] /\ m.next \in [Slabs -> Slabs \cup {NULL}]
  BY DEF Spells, Links
<1>3. /\ m.head[l] = q[1] /\ m.next[e] = At(q, k+1, NULL) /\ m.prev[e] = At(q, k-1, NULL)
      /\ At(q, 1, NULL) = q[1]
  <2>1. m.head[l] = At(q, 1, NULL) /\ m.next[e] = At(q, k+1, NULL) /\ m.prev[e] = At(q, k-1, NULL)
    BY DEF Spells, Linked
  <2>2. At(q, 1, NULL) = q[1]
    BY <1>1 DEF At
  <2>. QED BY <2>1, <2>2
<1>4. CASE k = 1
  <2>1. n = DeleteHead(m, l)
    BY <1>3, <1>4 DEF DeleteEl
  <2>. QED BY <1>1, <1>4, <2>1, DeleteHeadPast
<1>5. CASE k /= 1
  <2>. DEFINE p == At(q, k-1, NULL)
              x == At(q, k+1, NULL)
              back == IF x /= NULL THEN [m.prev EXCEPT ![x] = p] ELSE m.prev
  <2>1. m.head[l] /= e
    BY <1>1, <1>3, <1>5
  <2>2. p \in Slabs /\ p /= e /\ p /= NULL /\ x \in Slabs \cup {NULL} /\ x /= e /\ e \in Slabs
    BY <1>1, <1>5 DEF At
  <2>3. n = [head |-> m.head, prev |-> [back EXCEPT ![e] = NULL],
             next |-> [[m.next EXCEPT ![p] = x] EXCEPT ![e] = NULL]]
    BY <1>3, <2>1 DEF DeleteEl
  <2>. HIDE DEF n, e, q, p, x
  <2>4. back \in [Slabs -> Slabs \cup {NULL}] /\ \A s \in Slabs : back[s] = IF s = x THEN p ELSE m.prev[s]
    <3>1. CASE x = NULL
      BY <1>2, <2>2, <3>1, PtrAssumption
    <3>2. CASE x /= NULL
      BY <1>2, <2>2, <3>2
    <3>. QED BY <3>1, <3>2
  <2>. HIDE DEF back
  <2>5. /\ n.head = m.head
        /\ \A s \in Slabs : n.next[s] = IF s = e THEN NULL ELSE IF s = p THEN x ELSE m.next[s]
        /\ \A s \in Slabs : n.prev[s] = IF s = e THEN NULL ELSE IF s = x THEN p ELSE m.prev[s]
    BY <1>2, <2>2, <2>3, <2>4
  <2>6. n \in Links
    BY <1>2, <2>2, <2>3, <2>4 DEF Links
  <2>7. n.head[l] = At(q, 1, NULL) /\ e = Q[l][k] /\ p = At(Q[l], k-1, NULL) /\ x = At(Q[l], k+1, NULL)
    BY <1>3, <2>5 DEF q, e, p, x
  <2>8. PointPast(m, n, Q, l, k)
    BY <1>5, <2>5, <2>6, <2>7 DEF PointPast, q
  <2>. QED BY <2>8 DEF n, e, q
<1>. QED BY <1>4, <1>5

(* munmap of a descriptor frees no page. *)
LEMMA PageStays ==
  ASSUME NEW A, Munmap({DescrOf(a) : a \in A})
  PROVE  mapped' = mapped
<1>1. \A a \in A : \A s \in Slabs : <<"descriptor", a>> /= <<"pages", s>>
  OBVIOUS
<1>. QED BY <1>1 DEF Munmap, DescrOf, PageStarts, PagesOf

Dropped(q) == IF Len(q) > MaxFreeSlabs THEN Len(q) - MaxFreeSlabs ELSE 0
Kept(q) == SubSeq(q, Dropped(q) + 1, Len(q))

(* default_slab_freeing_policy *)
LEMMA PolicySpells ==
  ASSUME NEW m, NEW Q, Spells(m, Q), NEW c \in [Lists -> Int],
         c["free"] = Len(Q["free"]), PtrFreeingPolicy(m, c)
  PROVE  /\ Spells(mem', [Q EXCEPT !["free"] = Kept(Q["free"])])
         /\ count' = [c EXCEPT !["free"] = Len(Q["free"]) - Dropped(Q["free"])]
         /\ mapped' = mapped
<1>. DEFINE q == Q["free"]
            drop == Dropped(q)
            A(f) == [k \in 0..drop |-> IF k = 0 THEN m ELSE DeleteHead(f[k-1], "free")]
            after == CHOOSE f : f = A(f)
<1>1. /\ "free" \in Lists /\ q \in Seq(Slabs) /\ Len(q) \in Nat
      /\ drop \in 0..Len(q) /\ drop \in Nat /\ NULL \notin Slabs
  BY SizesAssumption, PtrAssumption DEF Spells, Apart, Lists, Dropped
<1>2. \E f : f = A(f)
  <2>. DEFINE G(f, n) == f = [k \in 0..n |-> IF k = 0 THEN m ELSE DeleteHead(f[k-1], "free")]
              N == {n \in Nat : \E f : G(f, n)}
  <2>1. 0 \in N
    <3>1. G([k \in 0..0 |-> m], 0)
      OBVIOUS
    <3>. QED BY <3>1
  <2>2. ASSUME NEW n \in Nat, n \in N PROVE n + 1 \in N
    <3>1. PICK f : G(f, n)
      BY <2>2
    <3>. DEFINE g == [k \in 0..n+1 |-> IF k = n + 1 THEN DeleteHead(f[n], "free") ELSE f[k]]
                t == [k \in 0..n+1 |-> IF k = 0 THEN m ELSE DeleteHead(g[k-1], "free")]
    <3>2. \A k \in 0..n : f[k] = IF k = 0 THEN m ELSE DeleteHead(f[k-1], "free")
      BY <3>1
    <3>3. \A k \in 0..n+1 : g[k] = t[k]
      <4>. SUFFICES ASSUME NEW k \in 0..n+1 PROVE g[k] = t[k]
        OBVIOUS
      <4>1. CASE k = n + 1
        <5>1. g[n] = f[n] /\ k /= 0 /\ k - 1 = n
          BY <4>1
        <5>. QED BY <4>1, <5>1
      <4>2. CASE k /= n + 1 /\ k /= 0
        <5>1. k \in 0..n /\ k - 1 \in 0..n /\ k - 1 /= n + 1 /\ k - 1 \in 0..n+1
          BY <4>2
        <5>2. g[k] = f[k] /\ g[k-1] = f[k-1]
          BY <4>2, <5>1
        <5>3. t[k] = DeleteHead(g[k-1], "free")
          BY <4>2
        <5>. QED BY <3>2, <4>2, <5>1, <5>2, <5>3
      <4>3. CASE k = 0
        <5>1. 0 \in 0..n /\ 0 /= n + 1
          OBVIOUS
        <5>. QED BY <3>2, <4>3, <5>1
      <4>. QED BY <4>1, <4>2, <4>3
    <3>4. g = t
      BY <3>3
    <3>5. G(g, n+1)
      BY <3>4
    <3>. HIDE DEF g, G
    <3>. QED BY <3>5
  <2>3. Nat \subseteq N
    <3>. HIDE DEF N
    <3>. QED BY <2>1, <2>2, SetInduction
  <2>. HIDE DEF drop
  <2>4. \E f : G(f, drop)
    BY <1>1, <2>3
  <2>. QED BY <2>4
<1>3. after = A(after)
  <2>. HIDE DEF A
  <2>. QED BY <1>2
<1>4. \A k \in 0..drop : after[k] = IF k = 0 THEN m ELSE DeleteHead(after[k-1], "free")
  <2>. HIDE DEF after, drop
  <2>1. \A k \in 0..drop : A(after)[k] = IF k = 0 THEN m ELSE DeleteHead(after[k-1], "free")
    OBVIOUS
  <2>. HIDE DEF A
  <2>. QED BY <1>3, <2>1
<1>5. /\ mem' = after[drop]
      /\ count' = [c EXCEPT !["free"] = Len(q) - drop]
      /\ Munmap({DescrOf(after[k].head["free"]) : k \in 0..drop-1})
  BY DEF PtrFreeingPolicy, Dropped
<1>6. mapped' = mapped
  <2>. HIDE DEF after, drop
  <2>. DEFINE B == {after[k].head["free"] : k \in 0..drop-1}
  <2>1. {DescrOf(after[k].head["free"]) : k \in 0..drop-1} = {DescrOf(a) : a \in B}
    OBVIOUS
  <2>. HIDE DEF B
  <2>. QED BY <1>5, <2>1, PageStays
<1>. HIDE DEF after, A, drop
<1>7. Spells(after[drop], [Q EXCEPT !["free"] = SubSeq(q, drop+1, Len(q))])
  <2>. DEFINE Sub(k) == SubSeq(q, k+1, Len(q))
              N == {k \in 0..drop : Spells(after[k], [Q EXCEPT !["free"] = Sub(k)])}
  <2>1. 0 \in N
    <3>1. Sub(0) = q /\ after[0] = m /\ [Q EXCEPT !["free"] = q] = Q
      BY <1>1, <1>4, SubSeqFull DEF Spells, Apart
    <3>. HIDE DEF Sub, q
    <3>2. 0 \in 0..drop
      BY <1>1
    <3>. QED BY <3>1, <3>2
  <2>2. ASSUME NEW k \in 0..drop-1, k \in N PROVE k + 1 \in N
    <3>. DEFINE P == [Q EXCEPT !["free"] = Sub(k)]
    <3>1. k \in Nat /\ k < Len(q) /\ k + 1 \in 0..Len(q) /\ k + 1 \in 0..drop /\ k \in 0..Len(q)
      BY <1>1
    <3>2. /\ Sub(k) \in Seq(Slabs) /\ Len(Sub(k)) = Len(q) - k
          /\ \A i \in 1..Len(q)-k : Sub(k)[i] = q[k+i]
      BY <1>1, <3>1
    <3>3. /\ Sub(k+1) \in Seq(Slabs) /\ Len(Sub(k+1)) = Len(q) - (k+1)
          /\ \A i \in 1..Len(q)-(k+1) : Sub(k+1)[i] = q[k+1+i]
      BY <1>1, <3>1
    <3>4. P["free"] = Sub(k) /\ [P EXCEPT !["free"] = Sub(k+1)] = [Q EXCEPT !["free"] = Sub(k+1)]
      BY <1>1 DEF Spells, Apart
    <3>5. Spells(after[k], P)
      BY <2>2
    <3>. HIDE DEF Sub, P
    <3>6. Without(P["free"], 1, Sub(k+1))
      <4>1. \A i \in 1..Len(Sub(k+1)) : Sub(k+1)[i] = Sub(k)[i+1] /\ ~(i < 1)
        <5>. SUFFICES ASSUME NEW i \in 1..Len(q)-(k+1)
                      PROVE Sub(k+1)[i] = Sub(k)[i+1] /\ ~(i < 1)
          BY <3>3
        <5>1. i + 1 \in 1..Len(q)-k /\ k + (i + 1) = k + 1 + i /\ ~(i < 1)
          BY <1>1, <3>1
        <5>. QED BY <3>2, <3>3, <5>1
      <4>2. Len(Sub(k+1)) = Len(Sub(k)) - 1
        BY <1>1, <3>1, <3>2, <3>3
      <4>. QED BY <3>3, <3>4, <4>1, <4>2 DEF Without
    <3>7. Len(P["free"]) > 0 /\ 1 \in 1..Len(P["free"])
      BY <1>1, <3>1, <3>2, <3>4
    <3>8. after[k+1] = DeleteHead(after[k], "free")
      BY <1>4, <3>1
    <3>9. PointPast(after[k], after[k+1], P, "free", 1)
      BY <1>1, <3>5, <3>7, <3>8, DeleteHeadPast
    <3>10. Spells(after[k+1], [P EXCEPT !["free"] = Sub(k+1)])
      BY <1>1, <3>5, <3>6, <3>7, <3>9, PastSpells
    <3>. QED BY <3>1, <3>4, <3>10
  <2>3. 0..drop \subseteq N
    <3>. HIDE DEF N
    <3>. QED BY <1>1, <2>1, <2>2, BoundedInduction
  <2>4. drop \in 0..drop
    BY <1>1
  <2>. QED BY <2>3, <2>4
<1>. QED BY <1>5, <1>6, <1>7 DEF Kept, drop

(* The list of each fill level, and the chain of each slab, are read off the
   pointers. *)
Ls == [l \in Lists |-> IF l = "free" THEN free_slabs
                       ELSE IF l = "partial" THEN partial_slabs ELSE full_slabs]

ChainSpells(c, fst, nxt) ==
  /\ c \in Seq(1..SlabObjs) /\ IsInjective(c)
  /\ fst = At(c, 1, 0)
  /\ nxt \in [1..SlabObjs -> 0..SlabObjs]
  /\ \A i \in 1..Len(c) : nxt[c[i]] = At(c, i+1, 0)

AllSpell(C) == \A s \in Slabs : ChainSpells(C[s], first[s], next_free[s])

(* The variables of SlabCache are what the pointers spell. *)
Spelt ==
  /\ free_slabs = ListOf("free") /\ free_slabs_count = count["free"]
  /\ partial_slabs = ListOf("partial") /\ partial_slabs_count = count["partial"]
  /\ full_slabs = ListOf("full") /\ full_slabs_count = count["full"]
  /\ chain = [s \in Slabs |-> ChainOf(s)]

PtrInv ==
  /\ IInv /\ Spells(mem, Ls) /\ AllSpell(chain)
  /\ count \in [Lists -> Int]
  /\ first \in [Slabs -> 0..SlabObjs]
  /\ next_free \in [Slabs -> [1..SlabObjs -> 0..SlabObjs]]

LEMMA ListNames == Lists = {"free", "partial", "full"}
BY DEF Lists

(* ListOf and ChainOf return what is spelt. *)
LEMMA ListRead ==
  ASSUME NEW m, NEW Q, Spells(m, Q), NEW l \in Lists
  PROVE  Walk(m.head[l], m.next, NULL, Cardinality(Slabs) + 1) = Q[l]
<1>1. /\ Q[l] \in Seq(Slabs) /\ NULL \notin Slabs /\ IsFiniteSet(Slabs)
      /\ \A i, j \in 1..Len(Q[l]) : Q[l][i] = Q[l][j] => i = j
  BY PtrAssumption DEF Spells, Apart
<1>2. IsInjective(Q[l])
  BY <1>1 DEF IsInjective
<1>3. Cardinality(ToSet(Q[l])) = Len(Q[l]) /\ ToSet(Q[l]) \subseteq Slabs
  BY <1>1, <1>2, InjectiveLen, ElementsOf
<1>4. Len(Q[l]) <= Cardinality(Slabs) /\ Cardinality(Slabs) \in Nat
  BY <1>1, <1>3, FS_Subset, FS_CardinalityType
<1>5. Len(Q[l]) < Cardinality(Slabs) + 1 /\ Cardinality(Slabs) + 1 \in Nat
  BY <1>1, <1>4
<1>6. /\ m.head[l] = At(Q[l], 1, NULL)
      /\ \A i \in 1..Len(Q[l]) : m.next[Q[l][i]] = At(Q[l], i+1, NULL)
  BY DEF Spells, Linked
<1>7. Walk(m.head[l], m.next, NULL, Cardinality(Slabs) + 1) = Q[l]
  <2>. DEFINE q == Q[l]
              n == Cardinality(Slabs) + 1
              start == m.head[l]
              nxt == m.next
  <2>1. q \in Seq(Slabs) /\ n \in Nat /\ Len(q) < n /\ start = At(q, 1, NULL)
    BY <1>1, <1>5, <1>6
  <2>2. \A i \in 1..Len(q) : nxt[q[i]] = At(q, i+1, NULL)
    BY <1>6
  <2>. HIDE DEF q, n, start, nxt
  <2>3. Walk(start, nxt, NULL, n) = q
    BY <1>1, <2>1, <2>2, WalkSpells
  <2>. QED BY <2>3 DEF q, n, start, nxt
<1>. QED BY <1>7

LEMMA ChainRead ==
  ASSUME OffSlab, NEW c, NEW fst, NEW nxt, ChainSpells(c, fst, nxt)
  PROVE  Walk(fst, nxt, 0, SlabObjs + 1) = c
<1>1. c \in Seq(1..SlabObjs) /\ SlabObjs \in Nat /\ IsInjective(c) /\ 0 \notin 1..SlabObjs
  BY Sizes DEF ChainSpells
<1>2. Len(c) <= SlabObjs /\ Len(c) \in Nat
  BY <1>1, InjectiveFull
<1>3. SlabObjs + 1 \in Nat /\ Len(c) < SlabObjs + 1
  BY <1>1, <1>2
<1>4. fst = At(c, 1, 0) /\ \A i \in 1..Len(c) : nxt[c[i]] = At(c, i+1, 0)
  BY DEF ChainSpells
<1>5. Walk(fst, nxt, 0, SlabObjs + 1) = c
  <2>. DEFINE A == 1..SlabObjs
              n == SlabObjs + 1
  <2>1. 0 \notin A /\ c \in Seq(A) /\ n \in Nat /\ Len(c) < n
    BY <1>1, <1>3
  <2>. HIDE DEF A, n
  <2>2. Walk(fst, nxt, 0, n) = c
    BY <1>4, <2>1, WalkSpells
  <2>. QED BY <2>2 DEF n
<1>. QED BY <1>5, ListNames

(* Before a step and after it, the lists and chains are those spelt. *)
LEMMA ReadNow ==
  ASSUME OffSlab, Spelt, NEW Q, Spells(mem, Q),
         NEW C \in [Slabs -> Seq(1..SlabObjs)], AllSpell(C)
  PROVE  Ls = Q /\ chain = C
<1>1. \A l \in Lists : ListOf(l) = Q[l]
  BY ListRead DEF ListOf
<1>2. \A s \in Slabs : ChainOf(s) = C[s]
  BY ChainRead DEF ChainOf, AllSpell
<1>3. Q = [l \in Lists |-> Q[l]]
  BY DEF Spells, Apart
<1>4. Ls = [l \in Lists |-> Q[l]]
  BY <1>1, ListNames DEF Spelt, Ls
<1>5. chain = [s \in Slabs |-> C[s]]
  BY <1>2 DEF Spelt
<1>. QED BY <1>3, <1>4, <1>5

LEMMA ReadNext ==
  ASSUME OffSlab, Spelt', NEW Q, Spells(mem', Q),
         NEW C \in [Slabs -> Seq(1..SlabObjs)],
         \A s \in Slabs : ChainSpells(C[s], first'[s], next_free'[s])
  PROVE  Ls' = Q /\ chain' = C
<1>1. \A l \in Lists : ListOf(l)' = Q[l]
  BY ListRead DEF ListOf
<1>2. \A s \in Slabs : ChainOf(s)' = C[s]
  BY ChainRead DEF ChainOf
<1>3. Q = [l \in Lists |-> Q[l]]
  BY DEF Spells, Apart
<1>4. Ls' = [l \in Lists |-> Q[l]]
  BY <1>1, ListNames DEF Spelt, Ls
<1>5. chain' = [s \in Slabs |-> C[s]]
  BY <1>2 DEF Spelt
<1>. QED BY <1>3, <1>4, <1>5

LEMMA LsAre ==
  /\ Ls["free"] = free_slabs /\ Ls["partial"] = partial_slabs /\ Ls["full"] = full_slabs
  /\ Ls'["free"] = free_slabs' /\ Ls'["partial"] = partial_slabs' /\ Ls'["full"] = full_slabs'
BY ListNames DEF Ls

-----------------------------------------------------------------------------
(* alloc_obj_from_slab and free_obj_from_slab on a chain. *)
LEMMA TakeChain ==
  ASSUME OffSlab, NEW c, NEW fst, NEW nxt, ChainSpells(c, fst, nxt), c /= <<>>
  PROVE  /\ fst = Head(c) /\ fst \in 1..SlabObjs
         /\ ChainSpells(Tail(c), nxt[fst], [nxt EXCEPT ![fst] = 0])
<1>1. /\ c \in Seq(1..SlabObjs) /\ IsInjective(c) /\ Len(c) \in Nat /\ Len(c) > 0
      /\ nxt \in [1..SlabObjs -> 0..SlabObjs] /\ SlabObjs \in Nat
  BY TailProperties, Sizes DEF ChainSpells
<1>2. fst = Head(c) /\ fst = c[1] /\ fst \in 1..SlabObjs
  BY <1>1 DEF ChainSpells, At
<1>3. /\ Tail(c) \in Seq(1..SlabObjs) /\ IsInjective(Tail(c)) /\ Len(Tail(c)) = Len(c) - 1
      /\ \A i \in 1..Len(c)-1 : Tail(c)[i] = c[i+1]
  BY <1>1, TailProperties, HeadTailProperties
<1>. DEFINE t == Tail(c)
            nx == [nxt EXCEPT ![fst] = 0]
<1>4. nx \in [1..SlabObjs -> 0..SlabObjs]
  <2>1. 0 \in 0..SlabObjs
    BY <1>1
  <2>. QED BY <1>1, <2>1
<1>5. \A i \in Nat : i > 0 => At(t, i, 0) = At(c, i+1, 0)
  BY <1>1, <1>3 DEF At
<1>6. nxt[fst] = At(t, 1, 0)
  <2>1. nxt[c[1]] = At(c, 1+1, 0)
    BY <1>1 DEF ChainSpells
  <2>. QED BY <1>2, <1>5, <2>1
<1>7. ASSUME NEW i \in 1..Len(t) PROVE nx[t[i]] = At(t, i+1, 0)
  <2>1. i + 1 \in 1..Len(c) /\ t[i] = c[i+1] /\ i + 1 /= 1 /\ 1 \in 1..Len(c) /\ i \in Nat
    BY <1>1, <1>3
  <2>2. c[i+1] /= fst
    <3>. HIDE DEF nx, t
    <3>2. DOMAIN c = 1..Len(c) /\ IsInjective(c)
      BY <1>1
    <3>1. \A j, k \in 1..Len(c) : c[j] = c[k] => j = k
      BY <3>2, Zenon DEF IsInjective
    <3>. QED BY <1>2, <2>1, <3>1
  <2>3. c[i+1] \in 1..SlabObjs
    BY <1>1, <2>1
  <2>5. nxt[c[i+1]] = At(c, (i+1)+1, 0)
    <3>1. \A j \in 1..Len(c) : nxt[c[j]] = At(c, j+1, 0)
      BY DEF ChainSpells
    <3>. QED BY <2>1, <3>1
  <2>4. At(t, i+1, 0) = At(c, (i+1)+1, 0)
    BY <1>5, <2>1
  <2>6. nx[c[i+1]] = nxt[c[i+1]]
    BY <1>1, <2>2, <2>3
  <2>. QED BY <2>1, <2>4, <2>5, <2>6
<1>. QED BY <1>2, <1>3, <1>4, <1>6, <1>7 DEF ChainSpells

LEMMA PutChain ==
  ASSUME OffSlab, NEW c, NEW fst, NEW nxt, ChainSpells(c, fst, nxt),
         NEW i \in 1..SlabObjs, i \notin ToSet(c)
  PROVE  ChainSpells(<<i>> \o c, i, [nxt EXCEPT ![i] = fst])
<1>. DEFINE t == <<i>> \o c
            nx == [nxt EXCEPT ![i] = fst]
<1>1. /\ c \in Seq(1..SlabObjs) /\ IsInjective(c) /\ Len(c) \in Nat
      /\ nxt \in [1..SlabObjs -> 0..SlabObjs] /\ SlabObjs \in Nat
      /\ fst = At(c, 1, 0)
  BY Sizes DEF ChainSpells
<1>2. t \in Seq(1..SlabObjs) /\ IsInjective(t) /\ Len(t) = Len(c) + 1
  BY <1>1, ConsProperties
<1>3. t[1] = i /\ \A j \in 2..Len(t) : t[j] = c[j-1]
  BY <1>1, <1>2
<1>. HIDE DEF t
<1>4. ASSUME NEW j \in Nat, j > 1 PROVE At(t, j, 0) = At(c, j-1, 0)
  <2>1. /\ j \in 1..Len(t) <=> j - 1 \in 1..Len(c)
        /\ j \in 1..Len(t) => j \in 2..Len(t)
    BY <1>1, <1>2, <1>4
  <2>. QED BY <1>3, <2>1 DEF At
<1>5. i = At(t, 1, 0)
  BY <1>1, <1>2, <1>3 DEF At
<1>6. fst \in 0..SlabObjs
  BY <1>1 DEF At
<1>7. ASSUME NEW j \in 1..Len(t) PROVE nx[t[j]] = At(t, j+1, 0)
  <2>1. CASE j = 1
    <3>1. At(t, 1+1, 0) = At(c, (1+1)-1, 0)
      BY <1>4
    <3>. QED BY <1>1, <1>3, <2>1, <3>1
  <2>2. CASE j /= 1
    <3>1. j \in 2..Len(t) /\ j - 1 \in 1..Len(c) /\ j \in Nat
      BY <1>1, <1>2, <2>2
    <3>2. t[j] = c[j-1]
      BY <1>3, <3>1
    <3>5. c[j-1] \in ToSet(c) /\ c[j-1] \in 1..SlabObjs
      BY <1>1, <3>1 DEF ToSet
    <3>6. c[j-1] /= i
      BY <3>5
    <3>3. nxt[c[j-1]] = At(c, (j-1)+1, 0)
      BY <3>1 DEF ChainSpells
    <3>4. At(t, j+1, 0) = At(c, (j+1)-1, 0) /\ (j-1)+1 = (j+1)-1
      BY <1>4, <3>1
    <3>7. nx[c[j-1]] = nxt[c[j-1]]
      BY <1>1, <3>5, <3>6
    <3>. HIDE DEF nx
    <3>. QED BY <3>2, <3>3, <3>4, <3>7
  <2>. QED BY <2>1, <2>2
<1>8. nx \in [1..SlabObjs -> 0..SlabObjs]
  BY <1>1, <1>6
<1>. QED BY <1>2, <1>5, <1>7, <1>8 DEF ChainSpells, t

LEMMA NewChainSpells == ASSUME OffSlab PROVE ChainSpells(NewChain, 1, PtrNewChain) /\ NewChain /= <<>>
<1>1. SlabObjs \in Nat \ {0}
  BY Sizes
<1>2. /\ NewChain \in Seq(1..SlabObjs) /\ Len(NewChain) = SlabObjs
      /\ \A i \in 1..SlabObjs : NewChain[i] = i
  BY <1>1 DEF NewChain
<1>3. /\ PtrNewChain \in [1..SlabObjs -> 0..SlabObjs]
      /\ \A i \in 1..SlabObjs : PtrNewChain[i] = IF i < SlabObjs THEN i + 1 ELSE 0
  BY <1>1, ListNames DEF PtrNewChain
<1>4. IsInjective(NewChain)
  BY <1>1, <1>2 DEF IsInjective
<1>5. At(NewChain, 1, 0) = 1
  BY <1>1, <1>2 DEF At
<1>6. \A i \in 1..SlabObjs : At(NewChain, i+1, 0) = IF i < SlabObjs THEN i + 1 ELSE 0
  BY <1>1, <1>2 DEF At
<1>7. NewChain /= <<>>
  BY <1>1, <1>2
<1>. QED BY <1>1, <1>2, <1>3, <1>4, <1>5, <1>6, <1>7 DEF ChainSpells

(* An element taken out of one list and pushed on another. *)
LEMMA PastPushSpells ==
  ASSUME NEW m, NEW Q, Spells(m, Q), NEW from \in Lists, NEW to \in Lists,
         from /= to, NEW k \in 1..Len(Q[from]), NEW R, Without(Q[from], k, R),
         NEW n, PointPast(m, n, Q, from, k)
  PROVE  Spells(PushHead(n, to, Q[from][k]),
                [Q EXCEPT ![from] = R, ![to] = <<Q[from][k]>> \o Q[to]])
<1>. DEFINE P == [Q EXCEPT ![from] = R]
            e == Q[from][k]
<1>1. Apart(Q) /\ Q \in [Lists -> Seq(Slabs)] /\ e \in Slabs
  BY DEF Spells, Apart
<1>2. Spells(n, P)
  BY PastSpells
<1>3. P = [Q EXCEPT ![from] = R]
  OBVIOUS
<1>4. P[to] = Q[to] /\ [P EXCEPT ![to] = <<e>> \o Q[to]]
                         = [Q EXCEPT ![from] = R, ![to] = <<e>> \o Q[to]]
  BY <1>1
<1>. HIDE DEF P
<1>5. Off(P, e)
  BY <1>1, <1>3, WithoutApart
<1>6. Spells(PushHead(n, to, e), [P EXCEPT ![to] = <<e>> \o P[to]])
  <2>. HIDE DEF e
  <2>. QED BY <1>1, <1>2, <1>5, PushSpells
<1>. QED BY <1>4, <1>6

(* The head of a list is moved to another one. *)
LEMMA HeadMoves ==
  ASSUME NEW m, NEW Q, Spells(m, Q), NEW from \in Lists, NEW to \in Lists,
         from /= to, Q[from] /= <<>>, NEW c \in [Lists -> Int], MoveHead(m, c, from, to)
  PROVE  /\ Spells(mem', [Q EXCEPT ![from] = Tail(Q[from]),
                                   ![to] = <<Head(Q[from])>> \o Q[to]])
         /\ count' = [c EXCEPT ![from] = c[from] - 1, ![to] = c[to] + 1]
<1>. DEFINE q == Q[from]
            R == Tail(q)
<1>1. /\ q \in Seq(Slabs) /\ Len(q) \in Nat /\ Len(q) > 0 /\ 1 \in 1..Len(q) /\ Head(q) = q[1]
      /\ R \in Seq(Slabs) /\ Len(R) = Len(q) - 1 /\ \A i \in 1..Len(R) : R[i] = q[i+1]
      /\ m.head[from] = At(q, 1, NULL)
  BY DEF Spells, Apart, Linked
<1>2. m.head[from] = q[1]
  BY <1>1 DEF At
<1>3. Without(q, 1, R)
  BY <1>1 DEF Without
<1>4. PointPast(m, DeleteHead(m, from), Q, from, 1)
  BY <1>1, DeleteHeadPast
<1>5. mem' = PushHead(DeleteHead(m, from), to, q[1])
  BY <1>2 DEF MoveHead
<1>6. Spells(mem', [Q EXCEPT ![from] = R, ![to] = <<q[1]>> \o Q[to]])
  BY <1>1, <1>3, <1>4, <1>5, PastPushSpells
<1>7. count' = [c EXCEPT ![from] = c[from] - 1, ![to] = c[to] + 1]
  BY DEF MoveHead
<1>. QED BY <1>1, <1>6, <1>7

(* A slab in the middle of a list is. *)
LEMMA ElementMoves ==
  ASSUME NEW m, NEW Q, Spells(m, Q), NEW from \in Lists, NEW to \in Lists,
         from /= to, NEW e \in ToSet(Q[from])
  PROVE  Spells(PushHead(DeleteEl(m, from, e), to, e),
                [Q EXCEPT ![from] = RemoveFirst(Q[from], e), ![to] = <<e>> \o Q[to]])
<1>. DEFINE q == Q[from]
            R == RemoveFirst(q, e)
<1>1. q \in Seq(Slabs) /\ IsInjective(q)
  BY DEF Spells, Apart, IsInjective
<1>2. PICK k \in 1..Len(q) : /\ q[k] = e /\ R \in Seq(Slabs) /\ Len(R) = Len(q) - 1
                             /\ \A i \in 1..Len(R) : R[i] = IF i < k THEN q[i] ELSE q[i+1]
  <2>1. e \in ToSet(q)
    OBVIOUS
  <2>. HIDE DEF q
  <2>2. \E k \in 1..Len(q) :
          LET t == RemoveFirst(q, e)
          IN /\ q[k] = e /\ t \in Seq(Slabs) /\ Len(t) = Len(q) - 1
             /\ \A i \in 1..Len(t) : t[i] = IF i < k THEN q[i] ELSE q[i+1]
    BY <1>1, <2>1, RemovedAt
  <2>. QED BY <2>2
<1>. HIDE DEF R
<1>3. Without(q, k, R)
  BY <1>2 DEF Without
<1>4. PointPast(m, DeleteEl(m, from, q[k]), Q, from, k)
  BY <1>2, DeleteElPast
<1>5. Spells(PushHead(DeleteEl(m, from, q[k]), to, q[k]),
             [Q EXCEPT ![from] = R, ![to] = <<q[k]>> \o Q[to]])
  BY <1>2, <1>3, <1>4, PastPushSpells
<1>. QED BY <1>2, <1>5 DEF R

(* A new descriptor is the head of the empty free list. *)
LEMMA NewHeadSpells ==
  ASSUME NEW m, NEW Q, Spells(m, Q), NEW l \in Lists, Q[l] = <<>>,
         NEW e \in Slabs, Off(Q, e)
  PROVE  Spells([m EXCEPT !.head[l] = e], [Q EXCEPT ![l] = <<e>>])
<1>. DEFINE n == PushHead(m, l, e)
<1>1. /\ m = [head |-> m.head, prev |-> m.prev, next |-> m.next]
      /\ m.head \in [Lists -> Slabs \cup {NULL}]
      /\ m.prev \in [Slabs -> Slabs \cup {NULL}] /\ m.next \in [Slabs -> Slabs \cup {NULL}]
  BY DEF Spells, Links
<1>2. m.head[l] = NULL /\ m.prev[e] = NULL /\ m.next[e] = NULL
  <2>1. m.head[l] = At(Q[l], 1, NULL) /\ m.prev[e] = NULL /\ m.next[e] = NULL
    BY DEF Spells, Linked
  <2>2. At(Q[l], 1, NULL) = NULL
    BY DEF At
  <2>. QED BY <2>1, <2>2
<1>3. n = [head |-> [m.head EXCEPT ![l] = e],
           prev |-> [m.prev EXCEPT ![e] = NULL], next |-> [m.next EXCEPT ![e] = NULL]]
  BY <1>2 DEF PushHead
<1>4. [m.prev EXCEPT ![e] = NULL] = m.prev /\ [m.next EXCEPT ![e] = NULL] = m.next
  BY <1>1, <1>2
<1>. HIDE DEF n
<1>5. n = [m EXCEPT !.head[l] = e]
  BY <1>1, <1>3, <1>4
<1>6. Spells(n, [Q EXCEPT ![l] = <<e>> \o Q[l]])
  BY PushSpells DEF n
<1>7. <<e>> \o Q[l] = <<e>>
  OBVIOUS
<1>. QED BY <1>5, <1>6, <1>7

(* A chain loses its head, or gets a new one: the others stay. *)
LEMMA ChainsAfter ==
  ASSUME OffSlab, AllSpell(chain), chain \in [Slabs -> Seq(1..SlabObjs)],
         first \in [Slabs -> 0..SlabObjs],
         next_free \in [Slabs -> [1..SlabObjs -> 0..SlabObjs]],
         NEW s \in Slabs, NEW c, NEW fst, NEW nxt, ChainSpells(c, fst, nxt),
         first' = [first EXCEPT ![s] = fst], next_free' = [next_free EXCEPT ![s] = nxt]
  PROVE  /\ [chain EXCEPT ![s] = c] \in [Slabs -> Seq(1..SlabObjs)]
         /\ \A t \in Slabs : ChainSpells([chain EXCEPT ![s] = c][t], first'[t], next_free'[t])
         /\ first' \in [Slabs -> 0..SlabObjs]
         /\ next_free' \in [Slabs -> [1..SlabObjs -> 0..SlabObjs]]
<1>1. c \in Seq(1..SlabObjs) /\ nxt \in [1..SlabObjs -> 0..SlabObjs]
  BY DEF ChainSpells
<1>2. fst \in 0..SlabObjs
  <2>1. fst = At(c, 1, 0) /\ SlabObjs \in Nat
    BY Sizes DEF ChainSpells
  <2>2. 0 \in 0..SlabObjs /\ 1..SlabObjs \subseteq 0..SlabObjs
    BY <2>1
  <2>3. 1 \in 1..Len(c) => c[1] \in 1..SlabObjs
    <3>. DEFINE A == 1..SlabObjs
    <3>1. c \in Seq(A)
      BY <1>1
    <3>. HIDE DEF A
    <3>2. 1 \in 1..Len(c) => c[1] \in A
      BY <3>1
    <3>. QED BY <3>2 DEF A
  <2>. QED BY <2>1, <2>2, <2>3 DEF At
<1>3. ASSUME NEW t \in Slabs
      PROVE  ChainSpells([chain EXCEPT ![s] = c][t], first'[t], next_free'[t])
  <2>1. CASE t = s
    <3>1. [chain EXCEPT ![s] = c][t] = c /\ first'[t] = fst /\ next_free'[t] = nxt
      BY <2>1
    <3>. QED BY <3>1
  <2>2. CASE t /= s
    <3>1. /\ [chain EXCEPT ![s] = c][t] = chain[t]
          /\ first'[t] = first[t] /\ next_free'[t] = next_free[t]
      BY <2>2
    <3>. QED BY <3>1 DEF AllSpell
  <2>. QED BY <2>1, <2>2
<1>4. [chain EXCEPT ![s] = c] \in [Slabs -> Seq(1..SlabObjs)]
  BY <1>1
<1>5. first' \in [Slabs -> 0..SlabObjs]
  BY <1>2
<1>6. next_free' \in [Slabs -> [1..SlabObjs -> 0..SlabObjs]]
  BY <1>1
<1>. QED BY <1>3, <1>4, <1>5, <1>6

(* alloc_obj_from_slab *)
LEMMA ObjectTaken ==
  ASSUME OffSlab, PtrInv, NEW s \in Slabs, NEW c, NEW fst, NEW nxt, ChainSpells(c, fst, nxt),
         c /= <<>>, NEW free, PtrTakeFrom(s, fst, nxt, free)
  PROVE  /\ [chain EXCEPT ![s] = Tail(c)] \in [Slabs -> Seq(1..SlabObjs)]
         /\ \A t \in Slabs :
              ChainSpells([chain EXCEPT ![s] = Tail(c)][t], first'[t], next_free'[t])
         /\ first' \in [Slabs -> 0..SlabObjs]
         /\ next_free' \in [Slabs -> [1..SlabObjs -> 0..SlabObjs]]
         /\ chain' = [chain EXCEPT ![s] = Tail(c)] => TakeFrom(s, c, free)
<1>1. fst = Head(c) /\ ChainSpells(Tail(c), nxt[fst], [nxt EXCEPT ![fst] = 0])
  BY TakeChain
<1>2. /\ first' = [first EXCEPT ![s] = nxt[fst]]
      /\ next_free' = [next_free EXCEPT ![s] = [nxt EXCEPT ![fst] = 0]]
      /\ slab_free' = [slab_free EXCEPT ![s] = free - 1]
      /\ held' = held \cup {<<s, fst>>}
  BY DEF PtrTakeFrom
<1>3. /\ AllSpell(chain) /\ chain \in [Slabs -> Seq(1..SlabObjs)]
      /\ first \in [Slabs -> 0..SlabObjs]
      /\ next_free \in [Slabs -> [1..SlabObjs -> 0..SlabObjs]]
  BY DEF PtrInv, IInv, TypeOK
<1>4. /\ [chain EXCEPT ![s] = Tail(c)] \in [Slabs -> Seq(1..SlabObjs)]
      /\ \A t \in Slabs :
              ChainSpells([chain EXCEPT ![s] = Tail(c)][t], first'[t], next_free'[t])
      /\ first' \in [Slabs -> 0..SlabObjs]
      /\ next_free' \in [Slabs -> [1..SlabObjs -> 0..SlabObjs]]
  <2>. DEFINE d == Tail(c)
              f == nxt[fst]
              x == [nxt EXCEPT ![fst] = 0]
  <2>1. ChainSpells(d, f, x) /\ first' = [first EXCEPT ![s] = f] /\ next_free' = [next_free EXCEPT ![s] = x]
    BY <1>1, <1>2
  <2>. HIDE DEF d, f, x
  <2>2. /\ [chain EXCEPT ![s] = d] \in [Slabs -> Seq(1..SlabObjs)]
        /\ \A t \in Slabs : ChainSpells([chain EXCEPT ![s] = d][t], first'[t], next_free'[t])
        /\ first' \in [Slabs -> 0..SlabObjs]
        /\ next_free' \in [Slabs -> [1..SlabObjs -> 0..SlabObjs]]
    BY <1>3, <2>1, ChainsAfter
  <2>. QED BY <2>2 DEF d
<1>5. chain' = [chain EXCEPT ![s] = Tail(c)] => TakeFrom(s, c, free)
  BY <1>1, <1>2 DEF TakeFrom
<1>. QED BY <1>4, <1>5

(* The lists and their counters, by name. *)
LEMMA ListsNamed ==
  ASSUME PtrInv, Spelt
  PROVE  /\ Ls["free"] = free_slabs /\ Ls["partial"] = partial_slabs /\ Ls["full"] = full_slabs
         /\ count["free"] = free_slabs_count /\ count["partial"] = partial_slabs_count
         /\ count["full"] = full_slabs_count
         /\ Ls \in [Lists -> Seq(Slabs)]
<1>1. Ls \in [Lists -> Seq(Slabs)]
  BY DEF PtrInv, Spells, Apart
<1>. QED BY <1>1, LsAre DEF Spelt

(* A null head is an empty list; another one is its first slab. *)
LEMMA HeadNamed ==
  ASSUME PtrInv, Spelt, NEW l \in Lists
  PROVE  /\ Ls[l] = <<>> <=> mem.head[l] = NULL
         /\ Ls[l] /= <<>> => mem.head[l] = Head(Ls[l]) /\ mem.head[l] \in ToSet(Ls[l])
                             /\ mem.head[l] \in Slabs
<1>1. Ls[l] \in Seq(Slabs) /\ mem.head[l] = At(Ls[l], 1, NULL)
  BY DEF PtrInv, Spells, Apart, Linked
<1>2. CASE Ls[l] = <<>>
  BY <1>1, <1>2 DEF At
<1>3. CASE Ls[l] /= <<>>
  <2>1. /\ Len(Ls[l]) \in Nat /\ Len(Ls[l]) > 0 /\ Head(Ls[l]) = Ls[l][1]
        /\ Head(Ls[l]) \in Slabs /\ Head(Ls[l]) \in ToSet(Ls[l])
    BY <1>1, <1>3, TailProperties
  <2>2. mem.head[l] = Head(Ls[l])
    BY <1>1, <2>1 DEF At
  <2>. QED BY <1>3, <2>1, <2>2, PtrAssumption
<1>. QED BY <1>2, <1>3

(* One lemma for each operation. *)
LEMMA PtrAllocFromPartialStep ==
  ASSUME OffSlab, PtrInv, Spelt, Spelt', PtrAllocFromPartial
  PROVE  AllocFromPartial /\ PtrInv'
<1>. DEFINE s == mem.head["partial"]
            c == chain[s]
            C == [chain EXCEPT ![s] = Tail(c)]
            empty == slab_free'[s] = 0
            Q == IF empty THEN [Ls EXCEPT !["partial"] = Tail(Ls["partial"]),
                                          !["full"] = <<Head(Ls["partial"])>> \o Ls["full"]]
                 ELSE Ls
<1>1. "partial" \in Lists /\ "full" \in Lists /\ "free" \in Lists /\ "partial" /= "full"
  BY ListNames
<1>2. partial_slabs /= <<>> /\ s = Head(partial_slabs) /\ s \in ToSet(partial_slabs) /\ s \in Slabs
  BY <1>1, HeadNamed, ListsNamed DEF PtrAllocFromPartial
<1>3. c /= <<>> /\ ChainSpells(c, first[s], next_free[s])
  BY <1>2 DEF PtrInv, IInv, ListsByFill, AllSpell
<1>4. /\ PtrTakeFrom(s, first[s], next_free[s], slab_free[s])
      /\ IF empty THEN MoveHead(mem, count, "partial", "full") ELSE UNCHANGED <<mem, count>>
      /\ free_objs_count' = free_objs_count - 1
      /\ used_objs_count' = used_objs_count + 1
      /\ UNCHANGED <<slab_count, created, mapped>>
  BY DEF PtrAllocFromPartial
<1>. HIDE DEF s, c
<1>5. /\ C \in [Slabs -> Seq(1..SlabObjs)]
      /\ \A t \in Slabs : ChainSpells(C[t], first'[t], next_free'[t])
      /\ first' \in [Slabs -> 0..SlabObjs]
      /\ next_free' \in [Slabs -> [1..SlabObjs -> 0..SlabObjs]]
      /\ chain' = C => TakeFrom(s, c, slab_free[s])
  BY <1>2, <1>3, <1>4, ObjectTaken
<1>. HIDE DEF C
<1>6. /\ Spells(mem', Q)
      /\ count' = IF empty THEN [count EXCEPT !["partial"] = count["partial"] - 1,
                                              !["full"] = count["full"] + 1] ELSE count
  <2>1. Spells(mem, Ls) /\ count \in [Lists -> Int] /\ Ls["partial"] /= <<>>
    BY <1>2, ListsNamed DEF PtrInv
  <2>2. CASE empty
    <3>1. MoveHead(mem, count, "partial", "full")
      BY <1>4, <2>2
    <3>2. Spells(mem', [Ls EXCEPT !["partial"] = Tail(Ls["partial"]),
                                  !["full"] = <<Head(Ls["partial"])>> \o Ls["full"]])
      BY <1>1, <2>1, <3>1, HeadMoves
    <3>3. count' = [count EXCEPT !["partial"] = count["partial"] - 1,
                                 !["full"] = count["full"] + 1]
      BY <3>1 DEF MoveHead
    <3>. QED BY <2>2, <3>2, <3>3
  <2>3. CASE ~empty
    BY <1>4, <2>1, <2>3
  <2>. QED BY <2>2, <2>3
<1>7. Ls' = Q /\ chain' = C
  <2>. HIDE DEF Q
  <2>. QED BY <1>5, <1>6, ReadNext
<1>8. count \in [Lists -> Int] /\ count' \in [Lists -> Int]
  BY <1>1, <1>6 DEF PtrInv
<1>9. TakeFrom(s, c, slab_free[s])
  BY <1>5, <1>7
<1>10. /\ free_slabs' = free_slabs /\ free_slabs_count' = free_slabs_count
       /\ IF empty
           THEN /\ partial_slabs' = Tail(partial_slabs)
                /\ full_slabs' = <<s>> \o full_slabs
                /\ partial_slabs_count' = partial_slabs_count - 1
                /\ full_slabs_count' = full_slabs_count + 1
           ELSE UNCHANGED <<partial_slabs, full_slabs,
                            partial_slabs_count, full_slabs_count>>
  <2>1. Ls \in [Lists -> Seq(Slabs)]
    BY ListsNamed
  <2>2. /\ free_slabs_count' = count'["free"] /\ partial_slabs_count' = count'["partial"]
        /\ full_slabs_count' = count'["full"]
    BY DEF Spelt
  <2>3. /\ free_slabs' = Q["free"] /\ partial_slabs' = Q["partial"] /\ full_slabs' = Q["full"]
    BY <1>7, LsAre
  <2>4. CASE empty
    BY <1>1, <1>2, <1>6, <1>8, <2>1, <2>2, <2>3, <2>4, ListsNamed
  <2>5. CASE ~empty
    BY <1>1, <1>2, <1>6, <1>8, <2>1, <2>2, <2>3, <2>5, ListsNamed
  <2>. QED BY <2>4, <2>5
<1>11. AllocFromPartial
  BY <1>2, <1>4, <1>9, <1>10 DEF AllocFromPartial, c
<1>12. IInv'
  BY <1>11, AllocFromPartialStep DEF PtrInv
<1>13. Spells(mem', Ls') /\ AllSpell(chain)'
  BY <1>5, <1>6, <1>7 DEF AllSpell
<1>. QED BY <1>5, <1>8, <1>11, <1>12, <1>13 DEF PtrInv

(* The head of the free list leaves it, for the list of its fill level. *)
LEMMA PtrLeaveFreeList ==
  ASSUME OffSlab, Spelt, Spelt',
         NEW C \in [Slabs -> Seq(1..SlabObjs)],
         \A t \in Slabs : ChainSpells(C[t], first'[t], next_free'[t]),
         NEW m, NEW L, Spells(m, L), L["free"] /= <<>>,
         L["partial"] = partial_slabs, L["full"] = full_slabs,
         NEW c \in [Lists -> Int],
         c["partial"] = partial_slabs_count, c["full"] = full_slabs_count,
         NEW s, s = Head(L["free"]),
         MoveHead(m, c, "free", IF slab_free'[s] /= 0 THEN "partial" ELSE "full")
  PROVE  /\ LeaveFreeList(s, L["free"], c["free"])
         /\ chain' = C /\ AllSpell(chain)' /\ Spells(mem', Ls')
         /\ count' \in [Lists -> Int]
<1>1. "partial" \in Lists /\ "full" \in Lists /\ "free" \in Lists
  BY ListNames
<1>2. L \in [Lists -> Seq(Slabs)]
  BY DEF Spells, Apart
<1>3. ASSUME NEW to \in Lists, to /= "free", MoveHead(m, c, "free", to)
      PROVE  /\ Ls' = [L EXCEPT !["free"] = Tail(L["free"]), ![to] = <<s>> \o L[to]]
             /\ count' = [c EXCEPT !["free"] = c["free"] - 1, ![to] = c[to] + 1]
             /\ chain' = C /\ Spells(mem', Ls')
  <2>. DEFINE Q == [L EXCEPT !["free"] = Tail(L["free"]), ![to] = <<Head(L["free"])>> \o L[to]]
  <2>1. Spells(mem', Q)
    BY <1>1, <1>3, HeadMoves
  <2>2. count' = [c EXCEPT !["free"] = c["free"] - 1, ![to] = c[to] + 1]
    BY <1>3 DEF MoveHead
  <2>. HIDE DEF Q
  <2>3. Ls' = Q /\ chain' = C
    BY <2>1, ReadNext
  <2>4. Q = [L EXCEPT !["free"] = Tail(L["free"]), ![to] = <<s>> \o L[to]]
    BY DEF Q
  <2>. QED BY <2>1, <2>2, <2>3, <2>4
<1>4. /\ free_slabs_count' = count'["free"] /\ partial_slabs_count' = count'["partial"]
      /\ full_slabs_count' = count'["full"]
  BY DEF Spelt
<1>5. CASE slab_free'[s] /= 0
  <2>1. /\ Ls' = [L EXCEPT !["free"] = Tail(L["free"]), !["partial"] = <<s>> \o L["partial"]]
        /\ count' = [c EXCEPT !["free"] = c["free"] - 1, !["partial"] = c["partial"] + 1]
        /\ chain' = C /\ Spells(mem', Ls')
    BY <1>1, <1>3, <1>5
  <2>2. free_slabs' = Tail(L["free"]) /\ partial_slabs' = <<s>> \o partial_slabs /\ full_slabs' = full_slabs
    BY <1>1, <1>2, <2>1, LsAre
  <2>3. /\ count'["free"] = c["free"] - 1 /\ count'["partial"] = partial_slabs_count + 1
        /\ count'["full"] = full_slabs_count /\ count' \in [Lists -> Int]
    BY <1>1, <2>1
  <2>4. LeaveFreeList(s, L["free"], c["free"])
    BY <1>4, <1>5, <2>2, <2>3 DEF LeaveFreeList
  <2>5. AllSpell(chain)'
    BY <2>1 DEF AllSpell
  <2>. QED BY <2>1, <2>3, <2>4, <2>5
<1>6. CASE slab_free'[s] = 0
  <2>1. /\ Ls' = [L EXCEPT !["free"] = Tail(L["free"]), !["full"] = <<s>> \o L["full"]]
        /\ count' = [c EXCEPT !["free"] = c["free"] - 1, !["full"] = c["full"] + 1]
        /\ chain' = C /\ Spells(mem', Ls')
    BY <1>1, <1>3, <1>6
  <2>2. free_slabs' = Tail(L["free"]) /\ full_slabs' = <<s>> \o full_slabs /\ partial_slabs' = partial_slabs
    BY <1>1, <1>2, <2>1, LsAre
  <2>3. /\ count'["free"] = c["free"] - 1 /\ count'["full"] = full_slabs_count + 1
        /\ count'["partial"] = partial_slabs_count /\ count' \in [Lists -> Int]
    BY <1>1, <2>1
  <2>4. LeaveFreeList(s, L["free"], c["free"])
    BY <1>4, <1>6, <2>2, <2>3 DEF LeaveFreeList
  <2>5. AllSpell(chain)'
    BY <2>1 DEF AllSpell
  <2>. QED BY <2>1, <2>3, <2>4, <2>5
<1>. QED BY <1>5, <1>6

LEMMA PtrAllocFromFreeStep ==
  ASSUME OffSlab, PtrInv, Spelt, Spelt', PtrAllocFromFree
  PROVE  AllocFromFree /\ PtrInv'
<1>. DEFINE s == mem.head["free"]
            c == chain[s]
            C == [chain EXCEPT ![s] = Tail(c)]
<1>1. "partial" \in Lists /\ "full" \in Lists /\ "free" \in Lists
  BY ListNames
<1>2. /\ partial_slabs = <<>> /\ free_slabs /= <<>>
      /\ s = Head(free_slabs) /\ s \in ToSet(free_slabs) /\ s \in Slabs
  BY <1>1, HeadNamed, ListsNamed DEF PtrAllocFromFree
<1>3. c /= <<>> /\ ChainSpells(c, first[s], next_free[s])
  <2>1. s \in created /\ HeldOf(s) = {}
    BY <1>2 DEF PtrInv, IInv, ListsByFill, OnLists
  <2>. QED BY <1>2, <2>1, FillLevels DEF PtrInv, IInv, AllSpell
<1>4. /\ PtrTakeFrom(s, first[s], next_free[s], slab_free[s])
      /\ MoveHead(mem, count, "free", IF slab_free'[s] /= 0 THEN "partial" ELSE "full")
      /\ free_objs_count' = free_objs_count - 1
      /\ used_objs_count' = used_objs_count + 1
      /\ UNCHANGED <<slab_count, created, mapped>>
  BY DEF PtrAllocFromFree
<1>. HIDE DEF s, c
<1>5. /\ C \in [Slabs -> Seq(1..SlabObjs)]
      /\ \A t \in Slabs : ChainSpells(C[t], first'[t], next_free'[t])
      /\ first' \in [Slabs -> 0..SlabObjs]
      /\ next_free' \in [Slabs -> [1..SlabObjs -> 0..SlabObjs]]
      /\ chain' = C => TakeFrom(s, c, slab_free[s])
  BY <1>2, <1>3, <1>4, ObjectTaken
<1>. HIDE DEF C
<1>6. /\ Spells(mem, Ls) /\ count \in [Lists -> Int] /\ Ls["free"] = free_slabs
      /\ Ls["partial"] = partial_slabs /\ Ls["full"] = full_slabs
      /\ count["free"] = free_slabs_count
      /\ count["partial"] = partial_slabs_count /\ count["full"] = full_slabs_count
  BY ListsNamed DEF PtrInv
<1>7. /\ LeaveFreeList(s, Ls["free"], count["free"])
      /\ chain' = C /\ AllSpell(chain)' /\ Spells(mem', Ls')
      /\ count' \in [Lists -> Int]
  BY <1>2, <1>4, <1>5, <1>6, PtrLeaveFreeList
<1>8. LeaveFreeList(s, free_slabs, free_slabs_count) /\ TakeFrom(s, c, slab_free[s])
  BY <1>5, <1>6, <1>7
<1>9. AllocFromFree
  BY <1>2, <1>4, <1>8 DEF AllocFromFree, c
<1>10. IInv'
  BY <1>9, AllocFromFreeStep DEF PtrInv
<1>. QED BY <1>5, <1>7, <1>9, <1>10 DEF PtrInv

LEMMA PtrAllocFromNewStep ==
  ASSUME OffSlab, PtrInv, Spelt, Spelt', NEW s \in Slabs, PtrAllocFromNew(s)
  PROVE  AllocFromNew(s) /\ PtrInv'
<1>. DEFINE C == [chain EXCEPT ![s] = Tail(NewChain)]
            m == [mem EXCEPT !.head["free"] = s]
            L == [Ls EXCEPT !["free"] = <<s>>]
            c == [count EXCEPT !["free"] = count["free"] + 1]
<1>1. "partial" \in Lists /\ "full" \in Lists /\ "free" \in Lists
  BY ListNames
<1>2. partial_slabs = <<>> /\ free_slabs = <<>> /\ s \notin created
  BY <1>1, HeadNamed, ListsNamed DEF PtrAllocFromNew
<1>3. ChainSpells(NewChain, 1, PtrNewChain) /\ NewChain /= <<>>
  BY NewChainSpells
<1>4. /\ PtrTakeFrom(s, 1, PtrNewChain, SlabObjs)
      /\ MoveHead(m, c, "free", IF slab_free'[s] /= 0 THEN "partial" ELSE "full")
      /\ free_objs_count' = free_objs_count + ObjsPerSlab - 1
      /\ used_objs_count' = used_objs_count + 1
      /\ slab_count' = slab_count + 1
      /\ PagesOf(s) \notin mapped /\ mapped' = mapped \cup {PagesOf(s)}
      /\ created' = created \cup {s}
  BY ListNames DEF PtrAllocFromNew, PagesOf
<1>5. /\ C \in [Slabs -> Seq(1..SlabObjs)]
      /\ \A t \in Slabs : ChainSpells(C[t], first'[t], next_free'[t])
      /\ first' \in [Slabs -> 0..SlabObjs]
      /\ next_free' \in [Slabs -> [1..SlabObjs -> 0..SlabObjs]]
      /\ chain' = C => TakeFrom(s, NewChain, SlabObjs)
  BY <1>3, <1>4, ObjectTaken
<1>. HIDE DEF C
<1>6. /\ Spells(mem, Ls) /\ count \in [Lists -> Int] /\ Ls["free"] = free_slabs
      /\ Ls["partial"] = partial_slabs /\ Ls["full"] = full_slabs
      /\ count["free"] = free_slabs_count
      /\ count["partial"] = partial_slabs_count /\ count["full"] = full_slabs_count
      /\ Ls \in [Lists -> Seq(Slabs)]
  BY ListsNamed DEF PtrInv
<1>7. Spells(m, L)
  <2>1. Off(Ls, s)
    <3>1. \A l \in Lists : ToSet(Ls[l]) \subseteq OnLists
      BY <1>6, ListNames DEF OnLists
    <3>2. \A l \in Lists : s \notin ToSet(Ls[l])
      BY <1>2, <3>1 DEF PtrInv, IInv, ListsByFill
    <3>. QED BY <1>6, <3>2 DEF Off, ToSet
  <2>. QED BY <1>1, <1>2, <1>6, <2>1, NewHeadSpells
<1>8. /\ L["free"] = <<s>> /\ L["partial"] = partial_slabs /\ L["full"] = full_slabs
      /\ c \in [Lists -> Int] /\ c["free"] = free_slabs_count + 1
      /\ c["partial"] = partial_slabs_count /\ c["full"] = full_slabs_count
  BY <1>1, <1>6
<1>. HIDE DEF m, L, c
<1>9. /\ LeaveFreeList(s, L["free"], c["free"])
      /\ chain' = C /\ AllSpell(chain)' /\ Spells(mem', Ls')
      /\ count' \in [Lists -> Int]
  <2>1. L["free"] /= <<>> /\ Head(L["free"]) = s
    BY <1>8
  <2>. QED BY <1>4, <1>5, <1>7, <1>8, <2>1, PtrLeaveFreeList
<1>10. LeaveFreeList(s, <<s>>, free_slabs_count + 1) /\ TakeFrom(s, NewChain, SlabObjs)
  BY <1>5, <1>8, <1>9
<1>11. AllocFromNew(s)
  BY <1>2, <1>4, <1>10 DEF AllocFromNew
<1>12. IInv'
  BY <1>11, AllocFromNewStep DEF PtrInv
<1>. QED BY <1>5, <1>9, <1>11, <1>12 DEF PtrInv

(* free_obj_from_slab *)
LEMMA ObjectBack ==
  ASSUME OffSlab, PtrInv, NEW s \in Slabs, NEW i \in 1..SlabObjs, <<s, i>> \in held,
         PtrPutBack(s, i)
  PROVE  /\ [chain EXCEPT ![s] = <<i>> \o chain[s]] \in [Slabs -> Seq(1..SlabObjs)]
         /\ \A t \in Slabs :
              ChainSpells([chain EXCEPT ![s] = <<i>> \o chain[s]][t], first'[t], next_free'[t])
         /\ first' \in [Slabs -> 0..SlabObjs]
         /\ next_free' \in [Slabs -> [1..SlabObjs -> 0..SlabObjs]]
         /\ chain' = [chain EXCEPT ![s] = <<i>> \o chain[s]] => PutBack(<<s, i>>)
<1>1. /\ AllSpell(chain) /\ chain \in [Slabs -> Seq(1..SlabObjs)]
      /\ first \in [Slabs -> 0..SlabObjs]
      /\ next_free \in [Slabs -> [1..SlabObjs -> 0..SlabObjs]]
      /\ slab_free \in [Slabs -> Nat]
  BY DEF PtrInv, IInv, TypeOK
<1>2. s \in created
  BY DEF PtrInv, IInv, ListsByFill, Owner
<1>3. i \notin ToSet(chain[s])
  BY <1>2 DEF PtrInv, IInv, ChainHoldsTheRest
<1>4. ChainSpells(chain[s], first[s], next_free[s])
  BY <1>1 DEF AllSpell
<1>5. ChainSpells(<<i>> \o chain[s], i, [next_free[s] EXCEPT ![i] = first[s]])
  BY <1>3, <1>4, PutChain
<1>6. /\ first' = [first EXCEPT ![s] = i]
      /\ next_free' = [next_free EXCEPT ![s] = [next_free[s] EXCEPT ![i] = first[s]]]
  BY <1>1 DEF PtrPutBack
<1>7. /\ [chain EXCEPT ![s] = <<i>> \o chain[s]] \in [Slabs -> Seq(1..SlabObjs)]
      /\ \A t \in Slabs :
           ChainSpells([chain EXCEPT ![s] = <<i>> \o chain[s]][t], first'[t], next_free'[t])
      /\ first' \in [Slabs -> 0..SlabObjs]
      /\ next_free' \in [Slabs -> [1..SlabObjs -> 0..SlabObjs]]
  <2>. DEFINE d == <<i>> \o chain[s]
              x == [next_free[s] EXCEPT ![i] = first[s]]
  <2>1. ChainSpells(d, i, x) /\ next_free' = [next_free EXCEPT ![s] = x]
    BY <1>5, <1>6
  <2>. HIDE DEF d, x
  <2>2. /\ [chain EXCEPT ![s] = d] \in [Slabs -> Seq(1..SlabObjs)]
        /\ \A t \in Slabs : ChainSpells([chain EXCEPT ![s] = d][t], first'[t], next_free'[t])
        /\ first' \in [Slabs -> 0..SlabObjs]
        /\ next_free' \in [Slabs -> [1..SlabObjs -> 0..SlabObjs]]
    BY <1>1, <1>6, <2>1, ChainsAfter
  <2>. QED BY <2>2 DEF d
<1>8. chain' = [chain EXCEPT ![s] = <<i>> \o chain[s]] => PutBack(<<s, i>>)
  BY DEF PutBack, Owner, PtrPutBack
<1>. QED BY <1>7, <1>8

(* The policy has run on the lists L with the counters c. *)
AfterPolicy(L, c, C) ==
  /\ FreeingPolicy(L["free"], c["free"])
  /\ partial_slabs' = L["partial"] /\ partial_slabs_count' = c["partial"]
  /\ full_slabs' = L["full"] /\ full_slabs_count' = c["full"]
  /\ chain' = C /\ AllSpell(chain)' /\ Spells(mem', Ls')
  /\ count' \in [Lists -> Int]

(* The freeing policy, on the pointers and on the sequences. *)
LEMMA PtrPolicy ==
  ASSUME OffSlab, Spelt, Spelt',
         NEW C \in [Slabs -> Seq(1..SlabObjs)],
         \A t \in Slabs : ChainSpells(C[t], first'[t], next_free'[t]),
         NEW m, NEW L, Spells(m, L), NEW c \in [Lists -> Int], c["free"] = Len(L["free"]),
         PtrFreeingPolicy(m, c)
  PROVE  AfterPolicy(L, c, C)
<1>. DEFINE q == L["free"]
            P == [L EXCEPT !["free"] = Kept(q)]
<1>1. "partial" \in Lists /\ "full" \in Lists /\ "free" \in Lists
  BY ListNames
<1>2. L \in [Lists -> Seq(Slabs)] /\ q \in Seq(Slabs)
  BY <1>1 DEF Spells, Apart
<1>3. Spells(mem', P) /\ count' = [c EXCEPT !["free"] = Len(q) - Dropped(q)] /\ mapped' = mapped
  BY PolicySpells
<1>. HIDE DEF P
<1>4. Ls' = P /\ chain' = C
  BY <1>3, ReadNext
<1>5. free_slabs' = Kept(q) /\ partial_slabs' = L["partial"] /\ full_slabs' = L["full"]
  BY <1>1, <1>2, <1>4, LsAre DEF P
<1>6. /\ free_slabs_count' = Len(q) - Dropped(q)
      /\ partial_slabs_count' = c["partial"] /\ full_slabs_count' = c["full"]
  BY <1>1, <1>3 DEF Spelt
<1>7. Len(q) - Dropped(q) \in Int
  BY <1>2, SizesAssumption DEF Dropped
<1>8. count' \in [Lists -> Int]
  BY <1>3, <1>7
<1>9. Munmap({DescrOf(q[i]) : i \in 1..Dropped(q)})
  <2>1. \A a : \A t \in Slabs : <<"descriptor", a>> /= <<"pages", t>>
    OBVIOUS
  <2>2. {DescrOf(q[i]) : i \in 1..Dropped(q)} \cap PageStarts = {}
    BY <2>1 DEF DescrOf, PageStarts, PagesOf
  <2>. QED BY <1>3, <2>2 DEF Munmap
<1>10. FreeingPolicy(q, c["free"])
  BY <1>5, <1>6, <1>9 DEF FreeingPolicy, Kept, Dropped
<1>11. AllSpell(chain)'
  BY <1>4 DEF AllSpell
<1>. QED BY <1>3, <1>4, <1>5, <1>6, <1>8, <1>10, <1>11 DEF AfterPolicy

LEMMA PtrFreeStep ==
  ASSUME OffSlab, PtrInv, Spelt, Spelt',
         NEW s \in Slabs, NEW i \in 1..SlabObjs, PtrFree(s, i)
  PROVE  Free(<<s, i>>) /\ PtrInv'
<1>. DEFINE C == [chain EXCEPT ![s] = <<i>> \o chain[s]]
<1>1. "partial" \in Lists /\ "full" \in Lists /\ "free" \in Lists
  BY ListNames
<1>2. <<s, i>> \in held /\ PtrPutBack(s, i)
  BY DEF PtrFree
<1>3. /\ C \in [Slabs -> Seq(1..SlabObjs)]
      /\ \A t \in Slabs : ChainSpells(C[t], first'[t], next_free'[t])
      /\ first' \in [Slabs -> 0..SlabObjs]
      /\ next_free' \in [Slabs -> [1..SlabObjs -> 0..SlabObjs]]
      /\ chain' = C => PutBack(<<s, i>>)
  BY <1>2, ObjectBack
<1>. HIDE DEF C
<1>4. /\ Spells(mem, Ls) /\ count \in [Lists -> Int] /\ Ls["free"] = free_slabs
      /\ Ls["partial"] = partial_slabs /\ Ls["full"] = full_slabs
      /\ count["free"] = free_slabs_count
      /\ count["partial"] = partial_slabs_count /\ count["full"] = full_slabs_count
      /\ Ls \in [Lists -> Seq(Slabs)]
      /\ free_slabs_count = Len(free_slabs)
  BY ListsNamed DEF PtrInv, IInv, ListCounters
<1>5. s \in created /\ s \in OnLists /\ slab_free[s] = Len(chain[s]) /\ HeldOf(s) /= {}
      /\ (chain[s] = <<>> <=> Len(chain[s]) = 0)
  <2>1. s \in created /\ s \in OnLists /\ <<s, i>> \in HeldOf(s)
    BY <1>2 DEF PtrInv, IInv, ListsByFill, Owner, HeldOf
  <2>. QED BY <2>1, FillLevels DEF PtrInv, IInv
<1>6. /\ WasFull(s) => s \in ToSet(full_slabs)
      /\ ~WasFull(s) => s \in ToSet(partial_slabs)
  BY <1>5 DEF PtrInv, IInv, ListsByFill, OnLists, WasFull
<1>. DEFINE Kind == PartialToFree(s) \/ FullToPartial(s) \/ FullToFree(s) \/ StaysPartial(s)
            Good == /\ Kind /\ chain' = C /\ AllSpell(chain)' /\ Spells(mem', Ls')
                    /\ count' \in [Lists -> Int]
<1>7. ASSUME NEW from \in Lists, NEW to \in Lists, from /= to, s \in ToSet(Ls[from]),
             Move(s, from, to), NEW L, NEW c,
             L = [Ls EXCEPT ![from] = RemoveFirst(Ls[from], s), ![to] = <<s>> \o Ls[to]],
             c = [count EXCEPT ![from] = count[from] - 1, ![to] = count[to] + 1],
             c["free"] = Len(L["free"])
      PROVE  AfterPolicy(L, c, C)
  <2>. DEFINE m == PushHead(DeleteEl(mem, from, s), to, s)
  <2>1. Spells(m, L)
    BY <1>4, <1>7, ElementMoves
  <2>2. PtrFreeingPolicy(m, c) /\ c \in [Lists -> Int]
    <3>1. c \in [Lists -> Int]
      BY <1>4, <1>7
    <3>2. PtrFreeingPolicy(m, c)
      BY <1>7 DEF Move
    <3>. QED BY <3>1, <3>2
  <2>. HIDE DEF m
  <2>. QED BY <1>3, <1>7, <2>1, <2>2, PtrPolicy
<1>8. ASSUME ~WasFull(s) /\ NowFree(s) PROVE Good
  <2>. DEFINE L == [Ls EXCEPT !["partial"] = RemoveFirst(Ls["partial"], s),
                              !["free"] = <<s>> \o Ls["free"]]
              c == [count EXCEPT !["partial"] = count["partial"] - 1, !["free"] = count["free"] + 1]
  <2>1. Move(s, "partial", "free") /\ s \in ToSet(Ls["partial"])
    BY <1>4, <1>6, <1>8, ListNames DEF PtrFree, WasFull, NowFree
  <2>2. /\ L["free"] = <<s>> \o free_slabs /\ c["free"] = free_slabs_count + 1
        /\ L["partial"] = RemoveFirst(partial_slabs, s) /\ c["partial"] = partial_slabs_count - 1
        /\ L["full"] = full_slabs /\ c["full"] = full_slabs_count
    BY <1>1, <1>4
  <2>3. Len(<<s>> \o free_slabs) = Len(free_slabs) + 1
    BY <1>1, <1>4, ConsProperties
  <2>. HIDE DEF L, c
  <2>6. c["free"] = Len(L["free"])
    BY <1>4, <2>2, <2>3
  <2>7. /\ L = [Ls EXCEPT !["partial"] = RemoveFirst(Ls["partial"], s), !["free"] = <<s>> \o Ls["free"]]
        /\ c = [count EXCEPT !["partial"] = count["partial"] - 1, !["free"] = count["free"] + 1]
    BY DEF L, c
  <2>4. AfterPolicy(L, c, C)
    BY <1>1, <1>7, <2>1, <2>6, <2>7
  <2>5. PartialToFree(s)
    BY <1>8, <2>2, <2>4 DEF PartialToFree, AfterPolicy
  <2>. QED BY <2>4, <2>5 DEF AfterPolicy
<1>9. ASSUME WasFull(s) /\ ~NowFree(s) PROVE Good
  <2>. DEFINE L == [Ls EXCEPT !["full"] = RemoveFirst(Ls["full"], s),
                              !["partial"] = <<s>> \o Ls["partial"]]
              c == [count EXCEPT !["full"] = count["full"] - 1, !["partial"] = count["partial"] + 1]
  <2>1. Move(s, "full", "partial") /\ s \in ToSet(Ls["full"])
    BY <1>4, <1>6, <1>9, ListNames DEF PtrFree, WasFull, NowFree
  <2>2. /\ L["partial"] = <<s>> \o partial_slabs /\ c["partial"] = partial_slabs_count + 1
        /\ L["full"] = RemoveFirst(full_slabs, s) /\ c["full"] = full_slabs_count - 1
        /\ L["free"] = free_slabs /\ c["free"] = free_slabs_count
    BY <1>1, <1>4
  <2>. HIDE DEF L, c
  <2>4. AfterPolicy(L, c, C)
    BY <1>1, <1>4, <1>7, <2>1, <2>2 DEF L, c
  <2>5. FullToPartial(s)
    BY <1>9, <2>2, <2>4 DEF FullToPartial, AfterPolicy
  <2>. QED BY <2>4, <2>5 DEF AfterPolicy
<1>10. ASSUME WasFull(s) /\ NowFree(s) PROVE Good
  <2>. DEFINE L == [Ls EXCEPT !["full"] = RemoveFirst(Ls["full"], s),
                              !["free"] = <<s>> \o Ls["free"]]
              c == [count EXCEPT !["full"] = count["full"] - 1, !["free"] = count["free"] + 1]
  <2>1. Move(s, "full", "free") /\ s \in ToSet(Ls["full"])
    BY <1>4, <1>6, <1>10, ListNames DEF PtrFree, WasFull, NowFree
  <2>2. /\ L["free"] = <<s>> \o free_slabs /\ c["free"] = free_slabs_count + 1
        /\ L["full"] = RemoveFirst(full_slabs, s) /\ c["full"] = full_slabs_count - 1
        /\ L["partial"] = partial_slabs /\ c["partial"] = partial_slabs_count
    BY <1>1, <1>4
  <2>3. Len(<<s>> \o free_slabs) = Len(free_slabs) + 1
    BY <1>1, <1>4, ConsProperties
  <2>. HIDE DEF L, c
  <2>6. c["free"] = Len(L["free"])
    BY <1>4, <2>2, <2>3
  <2>7. /\ L = [Ls EXCEPT !["full"] = RemoveFirst(Ls["full"], s), !["free"] = <<s>> \o Ls["free"]]
        /\ c = [count EXCEPT !["full"] = count["full"] - 1, !["free"] = count["free"] + 1]
    BY DEF L, c
  <2>4. AfterPolicy(L, c, C)
    BY <1>1, <1>7, <2>1, <2>6, <2>7
  <2>5. FullToFree(s)
    BY <1>10, <2>2, <2>4 DEF FullToFree, AfterPolicy
  <2>. QED BY <2>4, <2>5 DEF AfterPolicy
<1>11. ASSUME ~WasFull(s) /\ ~NowFree(s) PROVE Good
  <2>1. PtrFreeingPolicy(mem, count)
    BY <1>11, ListNames DEF PtrFree, WasFull, NowFree
  <2>2. AfterPolicy(Ls, count, C)
    BY <1>3, <1>4, <2>1, PtrPolicy
  <2>3. StaysPartial(s)
    BY <1>4, <1>11, <2>2 DEF StaysPartial, AfterPolicy
  <2>. QED BY <2>2, <2>3 DEF AfterPolicy
<1>12. Good
  BY <1>8, <1>9, <1>10, <1>11
<1>. HIDE DEF Kind
<1>13. Free(<<s, i>>)
  <2>1. PutBack(<<s, i>>)
    BY <1>3, <1>12
  <2>2. /\ free_objs_count' = free_objs_count + 1 /\ used_objs_count' = used_objs_count - 1
        /\ UNCHANGED <<slab_count, created>>
    BY DEF PtrFree
  <2>3. Kind /\ Owner(<<s, i>>) = s
    BY <1>12 DEF Owner
  <2>. QED BY <1>2, <2>1, <2>2, <2>3 DEF Free, Kind
<1>14. IInv'
  BY <1>2, <1>13, FreeStep DEF PtrInv
<1>. QED BY <1>3, <1>12, <1>13, <1>14 DEF PtrInv

(* The pointer code starts as the cache does. *)
LEMMA PtrInitInv ==
  ASSUME OffSlab, Spelt, PtrInit
  PROVE  Init /\ PtrInv
<1>. DEFINE Q == [l \in Lists |-> <<>>]
            C == [s \in Slabs |-> <<>>]
<1>1. /\ mem = [head |-> [l \in Lists |-> NULL],
                prev |-> [s \in Slabs |-> NULL], next |-> [s \in Slabs |-> NULL]]
      /\ count = [l \in Lists |-> 0]
      /\ first = [s \in Slabs |-> 0]
      /\ next_free = [s \in Slabs |-> [i \in 1..SlabObjs |-> 0]]
  BY ListNames DEF PtrInit, Lists
<1>2. SlabObjs \in Nat /\ 0 \in 0..SlabObjs
  BY Sizes
<1>3. Spells(mem, Q)
  <2>1. mem \in Links
    BY <1>1 DEF Links
  <2>2. Apart(Q)
    BY DEF Apart
  <2>3. Linked(mem, Q)
    BY <1>1 DEF Linked, At
  <2>. QED BY <2>1, <2>2, <2>3 DEF Spells
<1>4. C \in [Slabs -> Seq(1..SlabObjs)]
  OBVIOUS
<1>5. first \in [Slabs -> 0..SlabObjs] /\ next_free \in [Slabs -> [1..SlabObjs -> 0..SlabObjs]]
  BY <1>1, <1>2
<1>6. AllSpell(C)
  <2>. SUFFICES ASSUME NEW s \in Slabs PROVE ChainSpells(<<>>, first[s], next_free[s])
    BY DEF AllSpell
  <2>1. first[s] = 0 /\ next_free[s] \in [1..SlabObjs -> 0..SlabObjs]
    BY <1>1, <1>5
  <2>2. <<>> \in Seq(1..SlabObjs) /\ Len(<<>>) = 0 /\ IsInjective(<<>>)
    BY DEF IsInjective
  <2>. QED BY <2>1, <2>2 DEF ChainSpells, At
<1>. HIDE DEF Q, C
<1>7. Ls = Q /\ chain = C
  BY <1>3, <1>4, <1>6, ReadNow
<1>8. Init
  <2>1. free_slabs = <<>> /\ partial_slabs = <<>> /\ full_slabs = <<>>
    BY <1>7, LsAre, ListNames DEF Q
  <2>2. free_slabs_count = 0 /\ partial_slabs_count = 0 /\ full_slabs_count = 0
    BY <1>1, ListNames DEF Spelt
  <2>3. /\ free_objs_count = 0 /\ used_objs_count = 0 /\ slab_count = 0
        /\ slab_free = [s \in Slabs |-> 0] /\ created = {} /\ mapped = {} /\ held = {}
    BY DEF PtrInit
  <2>. QED BY <1>7, <2>1, <2>2, <2>3 DEF Init, InitLists, C
<1>9. count \in [Lists -> Int]
  BY <1>1
<1>. QED BY <1>3, <1>5, <1>6, <1>7, <1>8, <1>9, InitInv DEF PtrInv

(* Every step of the pointer code is a step of the cache. *)
LEMMA PtrStep ==
  ASSUME OffSlab, PtrInv, Spelt, Spelt', [PtrNext]_(ptr_vars)
  PROVE  [Next]_vars /\ PtrInv'
<1>1. CASE PtrAllocFromPartial
  BY <1>1, PtrAllocFromPartialStep DEF Next, Alloc
<1>2. CASE PtrAllocFromFree
  BY <1>2, PtrAllocFromFreeStep DEF Next, Alloc
<1>3. ASSUME NEW s \in Slabs, PtrAllocFromNew(s) PROVE [Next]_vars /\ PtrInv'
  BY <1>3, PtrAllocFromNewStep DEF Next, Alloc
<1>4. ASSUME NEW s \in Slabs, NEW i \in 1..SlabObjs, PtrFree(s, i)
      PROVE  [Next]_vars /\ PtrInv'
  <2>1. Free(<<s, i>>) /\ PtrInv' /\ <<s, i>> \in Objects
    BY <1>4, PtrFreeStep DEF Objects
  <2>. QED BY <2>1 DEF Next
<1>5. CASE UNCHANGED ptr_vars
  <2>1. /\ mem' = mem /\ count' = count /\ first' = first /\ next_free' = next_free
        /\ UNCHANGED <<totals, slab_free, created, mapped, held>>
    BY <1>5 DEF ptr_vars, totals
  <2>2. Ls' = Ls /\ chain' = chain
    <3>1. Spells(mem', Ls) /\ chain \in [Slabs -> Seq(1..SlabObjs)]
      BY <2>1 DEF PtrInv, IInv, TypeOK
    <3>2. \A s \in Slabs : ChainSpells(chain[s], first'[s], next_free'[s])
      BY <2>1 DEF PtrInv, AllSpell
    <3>. QED BY <3>1, <3>2, ReadNext
  <2>3. UNCHANGED <<free_slabs, partial_slabs, full_slabs>>
    BY <2>2, LsAre
  <2>4. UNCHANGED <<free_slabs_count, partial_slabs_count, full_slabs_count>>
    BY <2>1 DEF Spelt
  <2>5. UNCHANGED vars
    BY <2>1, <2>2, <2>3, <2>4 DEF vars, lists, totals, slabs
  <2>6. IInv'
    BY <2>5, StepInv DEF PtrInv
  <2>7. AllSpell(chain)'
    BY <2>1, <2>2 DEF PtrInv, AllSpell
  <2>. QED BY <2>1, <2>2, <2>5, <2>6, <2>7 DEF PtrInv
<1>. QED BY <1>1, <1>2, <1>3, <1>4, <1>5, ListNames DEF PtrNext

(* Links that spell lists, apart from each other, are well made. *)
LEMMA PtrWellLinked ==
  ASSUME OffSlab, PtrInv
  PROVE  WellLinked
<1>. DEFINE On == UNION {{ListOf(l)[i] : i \in DOMAIN ListOf(l)} : l \in Lists}
            Heads == {mem.head[l] : l \in Lists} \ {NULL}
<1>1. /\ Spells(mem, Ls) /\ Ls \in [Lists -> Seq(Slabs)] /\ NULL \notin Slabs
      /\ Lists = Lists
  BY PtrAssumption DEF PtrInv, Spells, Apart, Lists
<1>2. \A l \in Lists : ListOf(l) = Ls[l]
  BY <1>1, ListRead DEF ListOf
<1>3. \A s : s \in On <=> \E l \in Lists : \E i \in 1..Len(Ls[l]) : s = Ls[l][i]
  BY <1>1, <1>2
<1>4. \A l \in Lists :
        /\ mem.head[l] = At(Ls[l], 1, NULL)
        /\ \A i \in 1..Len(Ls[l]) : /\ mem.next[Ls[l][i]] = At(Ls[l], i+1, NULL)
                                    /\ mem.prev[Ls[l][i]] = At(Ls[l], i-1, NULL)
  BY <1>1 DEF Spells, Linked
<1>5. ASSUME NEW s \in On
      PROVE  /\ mem.prev[s] = NULL <=> s \in Heads
             /\ mem.prev[s] /= NULL => mem.next[mem.prev[s]] = s
             /\ mem.next[s] /= NULL => mem.prev[mem.next[s]] = s
  <2>. PICK l \in Lists : \E i \in 1..Len(Ls[l]) : s = Ls[l][i]
    BY <1>3
  <2>1. PICK i \in 1..Len(Ls[l]) : s = Ls[l][i]
    OBVIOUS
  <2>. DEFINE q == Ls[l]
  <2>2. /\ q \in Seq(Slabs) /\ Len(q) \in Nat /\ i \in Nat /\ i >= 1
        /\ \A j \in 1..Len(q) : q[j] \in Slabs /\ q[j] /= NULL
    BY <1>1
  <2>3. mem.next[s] = At(q, i+1, NULL) /\ mem.prev[s] = At(q, i-1, NULL)
    BY <1>4, <2>1
  <2>4. mem.prev[s] = NULL <=> i = 1
    BY <2>2, <2>3 DEF At
  <2>5. i = 1 => s \in Heads
    <3>1. ASSUME i = 1 PROVE mem.head[l] = s /\ s /= NULL
      BY <1>4, <2>1, <2>2, <3>1 DEF At
    <3>. QED BY <1>1, <3>1
  <2>6. s \in Heads => i = 1
    <3>. SUFFICES ASSUME s \in Heads PROVE i = 1
      OBVIOUS
    <3>1. PICK k \in Lists : s = mem.head[k] /\ s /= NULL
      BY <1>1
    <3>2. s = At(Ls[k], 1, NULL)
      BY <1>4, <3>1
    <3>3. 1 \in 1..Len(Ls[k]) /\ Ls[k][1] = s
      BY <3>1, <3>2 DEF At
    <3>. QED BY <1>1, <2>1, <3>3 DEF Spells, Apart
  <2>7. mem.prev[s] /= NULL => mem.next[mem.prev[s]] = s
    <3>. SUFFICES ASSUME mem.prev[s] /= NULL PROVE mem.next[mem.prev[s]] = s
      OBVIOUS
    <3>1. i - 1 \in 1..Len(q) /\ mem.prev[s] = q[i-1] /\ (i-1)+1 = i
      BY <2>2, <2>3 DEF At
    <3>2. mem.next[q[i-1]] = At(q, (i-1)+1, NULL)
      BY <1>4, <3>1
    <3>. QED BY <2>1, <3>1, <3>2 DEF At
  <2>8. mem.next[s] /= NULL => mem.prev[mem.next[s]] = s
    <3>. SUFFICES ASSUME mem.next[s] /= NULL PROVE mem.prev[mem.next[s]] = s
      OBVIOUS
    <3>1. i + 1 \in 1..Len(q) /\ mem.next[s] = q[i+1] /\ (i+1)-1 = i
      BY <2>2, <2>3 DEF At
    <3>2. mem.prev[q[i+1]] = At(q, (i+1)-1, NULL)
      BY <1>4, <3>1
    <3>. QED BY <2>1, <3>1, <3>2 DEF At
  <2>. QED BY <2>4, <2>5, <2>6, <2>7, <2>8
<1>6. ASSUME NEW s \in Slabs \ On PROVE mem.prev[s] = NULL /\ mem.next[s] = NULL
  <2>1. Off(Ls, s)
    BY <1>3 DEF Off
  <2>. QED BY <1>1, <2>1 DEF Spells, Linked
<1>. QED BY <1>5, <1>6 DEF WellLinked

(* What the pointers of queue.h and the chains of slab.c spell is a cache of
   sequences, through every allocation and free (slab.c:349-496,
   queue.h:16-62): all the theorems above hold of the pointer code. *)
THEOREM PtrImplements == ASSUME OffSlab PROVE PtrSpec /\ []Spelt => Spec
<1>1. PtrInit /\ Spelt => Init /\ PtrInv
  BY PtrInitInv
<1>2. PtrInv /\ Spelt /\ Spelt' /\ [PtrNext]_(ptr_vars) => [Next]_vars /\ PtrInv'
  BY PtrStep
<1>. QED BY <1>1, <1>2, PTL DEF PtrSpec, Spec

(* prev and next of the slabs agree, a head has no predecessor and a slab on
   no list has no link, whatever the order of calls: dlist_delete_el_generic
   never follows a link to a slab of another list (queue.h:46-60). *)
THEOREM LinksCorrect ==
  ASSUME OffSlab PROVE PtrSpec /\ []Spelt => []WellLinked
<1>1. PtrInit /\ Spelt => PtrInv
  BY PtrInitInv
<1>2. PtrInv /\ Spelt /\ Spelt' /\ [PtrNext]_(ptr_vars) => PtrInv'
  BY PtrStep
<1>3. PtrInv => WellLinked
  BY PtrWellLinked
<1>. QED BY <1>1, <1>2, <1>3, PTL DEF PtrSpec

(* Read at the same pointers, the operators of the instance that SlabPtr
   refers to are those of SlabCache. *)
LEMMA SameRemove ==
  ASSUME NEW q, NEW e PROVE Cache!RemoveFirst(q, e) = RemoveFirst(q, e)
BY DEF Cache!RemoveFirst, RemoveFirst, Cache!SelectInSeq, SelectInSeq,
       Cache!RemoveAt, RemoveAt, Cache!Min, Min

LEMMA SameChains ==
  ASSUME Spelt, Spelt'
  PROVE  /\ Cache!NewChain = NewChain
         /\ Cache!SlabObjs = SlabObjs /\ Cache!ObjsPerSlab = ObjsPerSlab
         /\ \A s, q, n : TakeFrom(s, q, n) => Cache!TakeFrom(s, q, n)
         /\ \A o : PutBack(o) => Cache!PutBack(o)
<1>1. /\ chain = [s \in Slabs |-> ChainOf(s)]
      /\ chain' = [s \in Slabs |-> ChainOf(s)']
  BY DEF Spelt
<1>2. Cache!SlabObjs = SlabObjs /\ Cache!ObjsPerSlab = ObjsPerSlab
  BY DEF Cache!SlabObjs, SlabObjs, Cache!ObjsPerSlab, ObjsPerSlab
<1>3. Cache!NewChain = NewChain
  BY <1>2 DEF Cache!NewChain, NewChain
<1>4. \A s, q, n : TakeFrom(s, q, n) => Cache!TakeFrom(s, q, n)
  BY <1>1 DEF TakeFrom, Cache!TakeFrom
<1>5. \A o : PutBack(o) => Cache!PutBack(o)
  BY <1>1 DEF PutBack, Cache!PutBack, Owner, Cache!Owner
<1>. QED BY <1>2, <1>3, <1>4, <1>5

LEMMA SameLists ==
  ASSUME Spelt, Spelt'
  PROVE  /\ \A q, n : FreeingPolicy(q, n) => Cache!FreeingPolicy(q, n)
         /\ \A s, q, n : LeaveFreeList(s, q, n) => Cache!LeaveFreeList(s, q, n)
<1>1. \A a : Munmap(a) => Cache!Munmap(a)
  BY DEF Munmap, Cache!Munmap, PageStarts, Cache!PageStarts, PagesOf, Cache!PagesOf
<1>2. \A q, n : FreeingPolicy(q, n) => Cache!FreeingPolicy(q, n)
  BY <1>1 DEF FreeingPolicy, Cache!FreeingPolicy, DescrOf, Cache!DescrOf, Spelt
<1>3. \A s, q, n : LeaveFreeList(s, q, n) => Cache!LeaveFreeList(s, q, n)
  BY DEF LeaveFreeList, Cache!LeaveFreeList, Spelt
<1>. QED BY <1>2, <1>3

LEMMA SameNext ==
  ASSUME Spelt, Spelt', Next PROVE Cache!Next
<1>1. CASE AllocFromPartial
  <2>1. Cache!AllocFromPartial
    BY <1>1, SameChains DEF AllocFromPartial, Cache!AllocFromPartial, Spelt
  <2>. QED BY <2>1 DEF Cache!Next, Cache!Alloc
<1>2. CASE AllocFromFree
  <2>1. Cache!AllocFromFree
    BY <1>2, SameChains, SameLists DEF AllocFromFree, Cache!AllocFromFree, Spelt
  <2>. QED BY <2>1 DEF Cache!Next, Cache!Alloc
<1>3. ASSUME NEW s \in Slabs, AllocFromNew(s) PROVE Cache!Next
  <2>1. Cache!AllocFromNew(s)
    BY <1>3, SameChains, SameLists
       DEF AllocFromNew, Cache!AllocFromNew, Spelt, PagesOf, Cache!PagesOf
  <2>. QED BY <2>1 DEF Cache!Next, Cache!Alloc
<1>4. ASSUME NEW o \in Objects, Free(o) PROVE Cache!Next
  <2>1. o \in Cache!Objects /\ Cache!Owner(o) = Owner(o)
    BY SameChains DEF Objects, Cache!Objects, Owner, Cache!Owner
  <2>. DEFINE s == Owner(o)
  <2>2. PutBack(o) => Cache!PutBack(o)
    BY SameChains
  <2>3. PartialToFree(s) => Cache!PartialToFree(s)
    BY SameChains, SameLists, SameRemove DEF PartialToFree, Cache!PartialToFree, Spelt,
       WasFull, NowFree, Cache!WasFull, Cache!NowFree
  <2>4. FullToPartial(s) => Cache!FullToPartial(s)
    BY SameChains, SameLists, SameRemove DEF FullToPartial, Cache!FullToPartial, Spelt,
       WasFull, NowFree, Cache!WasFull, Cache!NowFree
  <2>5. FullToFree(s) => Cache!FullToFree(s)
    BY SameChains, SameLists, SameRemove DEF FullToFree, Cache!FullToFree, Spelt,
       WasFull, NowFree, Cache!WasFull, Cache!NowFree
  <2>6. StaysPartial(s) => Cache!StaysPartial(s)
    BY SameChains, SameLists, SameRemove DEF StaysPartial, Cache!StaysPartial, Spelt,
       WasFull, NowFree, Cache!WasFull, Cache!NowFree
  <2>. HIDE DEF s
  <2>7. Cache!Free(o)
    BY <1>4, <2>1, <2>2, <2>3, <2>4, <2>5, <2>6 DEF Free, Cache!Free, s
  <2>. QED BY <2>1, <2>7 DEF Cache!Next
<1>. QED BY <1>1, <1>2, <1>3, <1>4 DEF Next, Alloc

(* The same refinement in SlabPtr's own terms: the pointer code of
   objs_cache_alloc and objs_cache_free implements the instance of SlabCache
   that its refinement mapping defines (slab.c:349-496). *)
THEOREM PtrImplementsCache ==
  ASSUME OffSlab PROVE PtrSpec /\ []Spelt => CacheSpec
<1>1. Init /\ Spelt => Cache!Init
  BY DEF Init, InitLists, Cache!Init, Cache!InitLists, Spelt
<1>2. Spelt /\ Spelt' /\ [Next]_vars => [Cache!Next]_(Cache!vars)
  <2>1. ASSUME Spelt, Spelt', UNCHANGED vars PROVE UNCHANGED Cache!vars
    BY <2>1 DEF vars, lists, totals, slabs, Spelt, Cache!vars, Cache!lists,
                Cache!totals, Cache!slabs
  <2>. QED BY <2>1, SameNext
<1>. QED BY <1>1, <1>2, PtrImplements, PTL DEF Spec, CacheSpec, Cache!Spec
=============================================================================
