------------------------------ MODULE SlabPtr ------------------------------
(***************************************************************************)
(* objs_cache_alloc and objs_cache_free on the pointers themselves: the    *)
(* doubly linked lists of queue.h, whose macros relink prev and next in    *)
(* place, and the chain of free objects threaded through the objects.      *)
(* The module is shown to implement SlabCache, where the same lists are    *)
(* sequences.                                                              *)
(***************************************************************************)
EXTENDS SlabMemory

CONSTANT NULL

(* Memory is finite, and a null pointer is no slab. *)
ASSUME PtrAssumption == IsFiniteSet(Slabs) /\ NULL \notin Slabs

VARIABLES
  mem,        \* heads of the three lists, and each slab's prev and next
  count,      \* free_slabs_count, partial_slabs_count, full_slabs_count
  first,      \* per slab: first_free_obj, 0 is the null pointer
  next_free   \* per slab and object: header.if_free.next

ptr_vars == <<mem, count, totals, first, next_free, slab_free, created, mapped, held>>

Lists == {"free", "partial", "full"}

-----------------------------------------------------------------------------
(* queue.h.  m is the memory, l a list, e an element. *)

(* Seeded fault: the old head does not learn of its predecessor. *)
PushHeadOneWay(m, l, e) ==
  [head |-> [m.head EXCEPT ![l] = e],
   prev |-> [m.prev EXCEPT ![e] = NULL],
   next |-> [m.next EXCEPT ![e] = m.head[l]]]

(* dlist_push_head_generic *)
PushHead(m, l, e) ==
  LET back == IF m.head[l] /= NULL THEN [m.prev EXCEPT ![m.head[l]] = e] ELSE m.prev
  IN [head |-> [m.head EXCEPT ![l] = e],
      prev |-> [back EXCEPT ![e] = NULL],
      next |-> [m.next EXCEPT ![e] = m.head[l]]]

(* dlist_delete_head_generic *)
DeleteHead(m, l) ==
  LET h == m.head[l]
      second == m.next[h]
  IN IF second = NULL
     THEN [m EXCEPT !.head[l] = NULL]
     ELSE [head |-> [m.head EXCEPT ![l] = second],
           prev |-> [m.prev EXCEPT ![second] = NULL, ![h] = NULL],
           next |-> [m.next EXCEPT ![h] = NULL]]

(* Seeded fault: the successor of a deleted element keeps its prev link. *)
DeleteElOneWay(m, l, e) ==
  IF m.head[l] = e
  THEN DeleteHead(m, l)
  ELSE [m EXCEPT !.prev[e] = NULL,
                 !.next = [@ EXCEPT ![m.prev[e]] = m.next[e], ![e] = NULL]]

(* dlist_delete_el_generic *)
DeleteEl(m, l, e) ==
  LET fore == [m.next EXCEPT ![m.prev[e]] = m.next[e]]
      back == IF m.next[e] /= NULL THEN [m.prev EXCEPT ![m.next[e]] = m.prev[e]] ELSE m.prev
  IN IF m.head[l] = e
     THEN DeleteHead(m, l)
     ELSE [head |-> m.head,
           prev |-> [back EXCEPT ![e] = NULL],
           next |-> [fore EXCEPT ![e] = NULL]]

-----------------------------------------------------------------------------
(* The nodes from `start` along the links nxt, until a null pointer; a cycle
   is cut after n nodes. *)
Walk(start, nxt, null, n) ==
  LET node[i \in 1..n] == IF i = 1 THEN start
                          ELSE IF node[i-1] = null THEN null ELSE nxt[node[i-1]]
      len == Cardinality({i \in 1..n : node[i] /= null})
  IN [i \in 1..len |-> node[i]]

ListOf(l)  == Walk(mem.head[l], mem.next, NULL, Cardinality(Slabs) + 1)
ChainOf(s) == Walk(first[s], next_free[s], 0, SlabObjs + 1)

(* The cache whose lists and chains the pointers spell; what is not
   substituted is this module's constant or variable of the same name. *)
Cache == INSTANCE SlabCache
           WITH free_slabs          <- ListOf("free"),
                partial_slabs       <- ListOf("partial"),
                full_slabs          <- ListOf("full"),
                free_slabs_count    <- count["free"],
                partial_slabs_count <- count["partial"],
                full_slabs_count    <- count["full"],
                chain               <- [s \in Slabs |-> ChainOf(s)]

PtrInit ==
  /\ mem = [head |-> [l \in Lists |-> NULL],
            prev |-> [s \in Slabs |-> NULL], next |-> [s \in Slabs |-> NULL]]
  /\ count = [l \in Lists |-> 0]
  /\ free_objs_count = 0 /\ used_objs_count = 0 /\ slab_count = 0
  /\ first = [s \in Slabs |-> 0]
  /\ next_free = [s \in Slabs |-> [i \in 1..SlabObjs |-> 0]]
  /\ slab_free = [s \in Slabs |-> 0]
  /\ created = {} /\ mapped = {} /\ held = {}

(* alloc_obj_from_slab, on a slab whose chain is (fst, nxt). *)
PtrTakeFrom(s, fst, nxt, free) ==
  /\ first' = [first EXCEPT ![s] = nxt[fst]]
  /\ next_free' = [next_free EXCEPT ![s] = [nxt EXCEPT ![fst] = 0]]
  /\ slab_free' = [slab_free EXCEPT ![s] = free - 1]
  /\ held' = held \cup {<<s, fst>>}

(* free_obj_from_slab *)
PtrPutBack(s, i) ==
  /\ slab_free' = [slab_free EXCEPT ![s] = @ + 1]
  /\ next_free' = [next_free EXCEPT ![s][i] = first[s]]
  /\ first' = [first EXCEPT ![s] = i]
  /\ held' = held \ {<<s, i>>}

(* The head of the list `from`, in the memory m, is moved to the list `to`. *)
MoveHead(m, c, from, to) ==
  /\ mem' = PushHead(DeleteHead(m, from), to, m.head[from])
  /\ count' = [c EXCEPT ![from] = @ - 1, ![to] = @ + 1]

PtrAllocFromPartial ==
  /\ mem.head["partial"] /= NULL
  /\ LET s == mem.head["partial"]
     IN /\ PtrTakeFrom(s, first[s], next_free[s], slab_free[s])
        /\ IF slab_free'[s] = 0
           THEN MoveHead(mem, count, "partial", "full")
           ELSE UNCHANGED <<mem, count>>
  /\ free_objs_count' = free_objs_count - 1
  /\ used_objs_count' = used_objs_count + 1
  /\ UNCHANGED <<slab_count, created, mapped>>

PtrAllocFromFree ==
  /\ mem.head["partial"] = NULL
  /\ mem.head["free"] /= NULL
  /\ LET s == mem.head["free"]
     IN /\ PtrTakeFrom(s, first[s], next_free[s], slab_free[s])
        /\ MoveHead(mem, count, "free", IF slab_free'[s] /= 0 THEN "partial" ELSE "full")
  /\ free_objs_count' = free_objs_count - 1
  /\ used_objs_count' = used_objs_count + 1
  /\ UNCHANGED <<slab_count, created, mapped>>

(* create_slab leaves prev and next of the descriptor as it got them: zero,
   since no descriptor is ever given back to its cache. *)
PtrNewChain == [i \in 1..SlabObjs |-> IF i < SlabObjs THEN i + 1 ELSE 0]

PtrAllocFromNew(s) ==
  /\ mem.head["partial"] = NULL
  /\ mem.head["free"] = NULL
  /\ s \notin created
  /\ PagesOf(s) \notin mapped
  /\ created' = created \cup {s}
  /\ mapped' = mapped \cup {PagesOf(s)}
  /\ PtrTakeFrom(s, 1, PtrNewChain, SlabObjs)
  /\ MoveHead([mem EXCEPT !.head["free"] = s], [count EXCEPT !["free"] = @ + 1],
              "free", IF slab_free'[s] /= 0 THEN "partial" ELSE "full")
  /\ slab_count' = slab_count + 1
  /\ free_objs_count' = free_objs_count + ObjsPerSlab - 1
  /\ used_objs_count' = used_objs_count + 1

(* default_slab_freeing_policy: pops the head of the free list, one slab at a
   time, from the memory and counters the caller left. *)
PtrFreeingPolicy(m, c) ==
  LET drop == IF c["free"] > MaxFreeSlabs THEN c["free"] - MaxFreeSlabs ELSE 0
      after[k \in 0..drop] == IF k = 0 THEN m ELSE DeleteHead(after[k-1], "free")
  IN /\ mem' = after[drop]
     /\ count' = [c EXCEPT !["free"] = @ - drop]
     /\ Munmap({DescrOf(after[k].head["free"]) : k \in 0..drop-1})

Move(s, from, to) ==
  PtrFreeingPolicy(PushHead(DeleteEl(mem, from, s), to, s),
                   [count EXCEPT ![from] = @ - 1, ![to] = @ + 1])

PtrFree(s, i) ==
  /\ <<s, i>> \in held
  /\ PtrPutBack(s, i)
  /\ LET was_full == slab_free[s] = 0
         now_free == slab_free'[s] = ObjsPerSlab
     IN CASE ~was_full /\ now_free -> Move(s, "partial", "free")
          [] was_full /\ ~now_free -> Move(s, "full", "partial")
          [] was_full /\ now_free  -> Move(s, "full", "free")
          [] OTHER                 -> PtrFreeingPolicy(mem, count)
  /\ free_objs_count' = free_objs_count + 1
  /\ used_objs_count' = used_objs_count - 1
  /\ UNCHANGED <<slab_count, created>>

PtrNext ==
  \/ PtrAllocFromPartial
  \/ PtrAllocFromFree
  \/ \E s \in Slabs : PtrAllocFromNew(s)
  \/ \E s \in Slabs, i \in 1..SlabObjs : PtrFree(s, i)

PtrSpec == PtrInit /\ [][PtrNext]_ptr_vars

-----------------------------------------------------------------------------
(* prev and next are each other's inverse, a head has no predecessor, and a
   slab that is on no list keeps no link: DeleteEl follows el->prev without
   looking (queue.h:46-60), and create_slab sets neither link. *)
WellLinked ==
  LET On == UNION {{ListOf(l)[i] : i \in DOMAIN ListOf(l)} : l \in Lists}
      Heads == {mem.head[l] : l \in Lists} \ {NULL}
  IN /\ \A s \in On : /\ mem.prev[s] = NULL <=> s \in Heads
                      /\ mem.prev[s] /= NULL => mem.next[mem.prev[s]] = s
                      /\ mem.next[s] /= NULL => mem.prev[mem.next[s]] = s
     /\ \A s \in Slabs \ On : mem.prev[s] = NULL /\ mem.next[s] = NULL

(* The pointer code implements the cache of sequences. *)
CacheSpec == Cache!Spec
=============================================================================
