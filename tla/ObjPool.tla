------------------------------ MODULE ObjPool ------------------------------
(***************************************************************************)
(* What a slab cache (slab.h) promises its callers, without lists or       *)
(* counters: objects are handed out one at a time and never twice, memory  *)
(* is asked of the operating system only when every object of the pool is  *)
(* in use, and the pool forgets a slab only when none of its objects is in *)
(* use.                                                                    *)
(***************************************************************************)
EXTENDS Naturals

CONSTANTS Slabs,    \* the slabs the operating system can provide
          SlabObjs  \* the number of objects in each of them

VARIABLES live,     \* the objects the callers hold
          pool      \* the slabs the cache allocates from

vars == <<live, pool>>

ObjectsOf(S) == S \X (1..SlabObjs)

TypeOK == /\ live \subseteq ObjectsOf(Slabs)
          /\ pool \subseteq Slabs

Init == live = {} /\ pool = {}

(* An object of the pool that is not in use. *)
Reuse == \E o \in ObjectsOf(pool) \ live :
            /\ live' = live \cup {o}
            /\ pool' = pool

(* The pool grows only when it is exhausted. *)
Grow == /\ ObjectsOf(pool) \subseteq live
        /\ \E s \in Slabs \ pool :
              /\ pool' = pool \cup {s}
              /\ \E o \in ObjectsOf({s}) : live' = live \cup {o}

(* A caller returns an object; slabs without live objects may be forgotten. *)
Free == \E o \in live :
            /\ live' = live \ {o}
            /\ pool' \subseteq pool
            /\ \A s \in pool \ pool' : ObjectsOf({s}) \cap live' = {}

Next == Reuse \/ Grow \/ Free

Spec == Init /\ [][Next]_vars
=============================================================================
