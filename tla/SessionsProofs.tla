--------------------------- MODULE SessionsProofs ---------------------------
(***************************************************************************)
(* The registry for any number of threads, chunks and ids.                 *)
(*                                                                         *)
(* Why no thread ever hangs, although create_session runs without mutual   *)
(* exclusion: a session is linked in front of one that was linked before   *)
(* it, so that a rank decreases along next.  Which session the head is and *)
(* whose id is whose depends on the order of the calls, and holds while    *)
(* they do not overlap.                                                    *)
(***************************************************************************)
EXTENDS Sessions, Lemmas, FiniteSetTheorems

(* The sessions create_session has not linked yet, and all others. *)
Unlinked == {new[t] : t \in {u \in Threads : new[u] /= NULL /\ ~linked[u]}}
Linked == allocated \ Unlinked

Decreases(rank) ==
  \A c \in Linked : /\ rank[c] < Cardinality(Linked)
                    /\ next[c] /= NULL => rank[next[c]] < rank[c]

(* The shape of the list as long as no session was closed. *)
Acyclic ==
  /\ sessions \in Linked \cup {NULL}
  /\ \A c \in Linked : next[c] \in Linked \cup {NULL}
  /\ \A t \in Threads : new[t] \in allocated \cup {NULL}
  /\ \A t, u \in Threads : new[t] = new[u] /\ new[t] /= NULL => t = u
  /\ \E rank \in [Chunks -> Nat] : Decreases(rank)

(* The sessions that have been the head. *)
Open == allocated \ {new[t] : t \in Threads}

(* Ids count the open sessions along the list, as long as no two calls of
   create_session have overlapped. *)
Counted ==
  /\ sessions \in Open \cup {NULL}
  /\ \A c \in Open : /\ sessions /= NULL
                     /\ id[c] \in 1..id[sessions]
                     /\ next[c] = NULL <=> id[c] = 1
                     /\ next[c] /= NULL => next[c] \in Open /\ id[next[c]] = id[c] - 1
  /\ \A c, d \in Open : id[c] = id[d] => c = d

OneAtATime ==
  /\ \A t, u \in Threads : new[t] /= NULL /\ new[u] /= NULL => t = u
  /\ \A t \in Threads : new[t] /= NULL =>
       /\ id[new[t]] = NextId
       /\ linked[t] => next[new[t]] = sessions

Owned ==
  \A t \in Threads : mine[t] /= None => /\ mine[t].chunk \in Open
                                        /\ id[mine[t].chunk] = mine[t].id

Typed ==
  /\ TypeOK
  /\ linked \in [Threads -> BOOLEAN]
  /\ closed \in BOOLEAN /\ raced \in BOOLEAN
  /\ \A t \in Threads : /\ new[t] /= NULL => id[new[t]] >= 1
                        /\ linked[t] => new[t] /= NULL

IInv ==
  /\ Typed
  /\ ~closed => Acyclic
  /\ ~closed /\ ~raced => Counted /\ OneAtATime /\ Owned

-----------------------------------------------------------------------------
(* Types *)

LEMMA InitTyped == Init => Typed
<1>. SUFFICES ASSUME Init PROVE Typed
  OBVIOUS
<1>1. 0 \in 0..MaxId
  BY SessionsAssumption
<1>2. /\ id \in [Chunks -> 0..MaxId] /\ next \in [Chunks -> Chunks \cup {NULL}]
      /\ new \in [Threads -> Chunks \cup {NULL}] /\ linked \in [Threads -> BOOLEAN]
  BY <1>1 DEF Init
<1>3. mine \in [Threads -> [chunk : Chunks, id : 1..MaxId] \cup {None}]
  BY DEF Init
<1>. QED BY <1>2, <1>3 DEF Init, Typed, TypeOK

LEMMA NextIdType == ASSUME Typed PROVE NextId \in Nat \ {0}
BY SessionsAssumption DEF Typed, TypeOK, NextId

LEMMA TakeIdTyped ==
  ASSUME Typed, NEW t \in Threads, TakeId(t)
  PROVE  Typed'
<1>1. PICK p \in Chunks \ allocated :
        /\ allocated' = allocated \cup {p}
        /\ id' = [id EXCEPT ![p] = NextId]
        /\ new' = [new EXCEPT ![t] = p]
  BY DEF TakeId
<1>2. NextId \in Nat \ {0} /\ NextId <= MaxId
  BY NextIdType DEF TakeId
<1>3. /\ new[t] = NULL /\ closed' = closed /\ linked' = linked /\ sessions' = sessions
      /\ next' = next /\ mine' = mine /\ raced' \in BOOLEAN
  BY DEF TakeId
<1>4. id' \in [Chunks -> 0..MaxId] /\ new' \in [Threads -> Chunks \cup {NULL}]
  BY <1>1, <1>2, SessionsAssumption DEF Typed, TypeOK
<1>5. ASSUME NEW u \in Threads
      PROVE  (new[u] /= NULL => id[new[u]] >= 1)' /\ (linked[u] => new[u] /= NULL)'
  BY <1>1, <1>2, <1>3, SessionsAssumption DEF Typed, TypeOK
<1>. QED BY <1>1, <1>3, <1>4, <1>5 DEF Typed, TypeOK

LEMMA LinkTyped ==
  ASSUME Typed, NEW t \in Threads, Link(t)
  PROVE  Typed'
BY SessionsAssumption DEF Typed, TypeOK, Link, HeadRead

LEMMA PublishTyped ==
  ASSUME Typed, NEW t \in Threads, Publish(t)
  PROVE  Typed'
<1>1. /\ new[t] \in Chunks /\ id[new[t]] \in 1..MaxId
      /\ sessions' = new[t] /\ new' = [new EXCEPT ![t] = NULL]
      /\ linked' = [linked EXCEPT ![t] = FALSE]
      /\ mine' = [mine EXCEPT ![t] = [chunk |-> new[t], id |-> id[new[t]]]]
      /\ UNCHANGED <<id, next, allocated, closed, raced>>
  BY SessionsAssumption DEF Publish, Published, Typed, TypeOK
<1>2. mine' \in [Threads -> [chunk : Chunks, id : 1..MaxId] \cup {None}]
  BY <1>1 DEF Typed, TypeOK
<1>3. TypeOK'
  BY <1>1, <1>2 DEF Typed, TypeOK
<1>. QED BY <1>1, <1>3 DEF Typed, TypeOK

LEMMA ByeTyped ==
  ASSUME Typed, NEW t \in Threads, Bye(t)
  PROVE  Typed'
<1>1. /\ allocated' \subseteq allocated /\ sessions' \in {sessions, NULL}
      /\ mine' = [mine EXCEPT ![t] = None] /\ closed' = TRUE
      /\ UNCHANGED <<id, next, new, linked, raced>>
  BY DEF Bye, close_session
<1>. QED BY <1>1 DEF Typed, TypeOK

-----------------------------------------------------------------------------
(* The list has no cycle. *)

LEMMA LinkedFinite ==
  ASSUME Typed
  PROVE  /\ Linked \subseteq Chunks /\ IsFiniteSet(Linked) /\ Cardinality(Linked) \in Nat
         /\ Cardinality(Chunks) \in Nat /\ Cardinality(Linked) <= Cardinality(Chunks)
<1>1. Linked \subseteq Chunks
  BY DEF Typed, TypeOK, Linked
<1>. QED BY <1>1, SessionsAssumption, FS_Subset, FS_CardinalityType

LEMMA InitAcyclic == Init => Acyclic
<1>. SUFFICES ASSUME Init PROVE Acyclic
  OBVIOUS
<1>1. Linked = {}
  BY DEF Init, Linked
<1>2. \E rank \in [Chunks -> Nat] : Decreases(rank)
  <2>1. [c \in Chunks |-> 0] \in [Chunks -> Nat]
    OBVIOUS
  <2>. QED BY <1>1, <2>1 DEF Decreases
<1>. QED BY <1>1, <1>2 DEF Init, Acyclic

LEMMA TakeIdAcyclic ==
  ASSUME Typed, Acyclic, NEW t \in Threads, TakeId(t)
  PROVE  Acyclic'
<1>1. PICK p \in Chunks \ allocated :
        /\ allocated' = allocated \cup {p}
        /\ new' = [new EXCEPT ![t] = p]
  BY DEF TakeId
<1>2. new[t] = NULL /\ ~linked[t] /\ UNCHANGED <<sessions, next, linked>> /\ p /= NULL
  BY SessionsAssumption DEF TakeId, Typed, TypeOK
<1>3. Unlinked' = Unlinked \cup {p}
  BY <1>1, <1>2 DEF Unlinked, Typed, TypeOK
<1>4. Linked' = Linked
  BY <1>1, <1>3 DEF Linked
<1>5. \E rank \in [Chunks -> Nat] : Decreases(rank)'
  BY <1>2, <1>4 DEF Acyclic, Decreases
<1>6. /\ \A u \in Threads : new'[u] \in allocated' \cup {NULL}
      /\ \A u, v \in Threads : new'[u] = new'[v] /\ new'[u] /= NULL => u = v
  BY <1>1, <1>2 DEF Acyclic, Typed, TypeOK
<1>. QED BY <1>2, <1>4, <1>5, <1>6 DEF Acyclic

LEMMA LinkAcyclic ==
  ASSUME Typed, Acyclic, NEW t \in Threads, Link(t)
  PROVE  Acyclic'
<1>. DEFINE p == new[t]
<1>1. /\ p \in Chunks /\ p \in allocated /\ p /= NULL /\ ~linked[t]
      /\ next' = [next EXCEPT ![p] = sessions] /\ linked' = [linked EXCEPT ![t] = TRUE]
      /\ UNCHANGED <<sessions, allocated, new>>
  BY DEF Link, HeadRead, Acyclic, Typed, TypeOK
<1>2. p \notin Linked
  BY <1>1 DEF Linked, Unlinked
<1>3. Unlinked' = Unlinked \ {p}
  BY <1>1 DEF Unlinked, Acyclic, Typed
<1>4. Linked' = Linked \cup {p}
  BY <1>1, <1>3 DEF Linked
<1>5. /\ next'[p] = sessions /\ \A c \in Linked : c \in Chunks /\ next'[c] = next[c]
  BY <1>1, <1>2, LinkedFinite DEF Typed, TypeOK
<1>6. Cardinality(Linked') = Cardinality(Linked) + 1 /\ Cardinality(Linked) \in Nat
  BY <1>2, <1>4, LinkedFinite, FS_AddElement
<1>7. \E rank \in [Chunks -> Nat] : Decreases(rank)'
  <2>1. PICK rank \in [Chunks -> Nat] : Decreases(rank)
    BY DEF Acyclic
  <2>. DEFINE above == [rank EXCEPT ![p] = IF sessions = NULL THEN 0 ELSE rank[sessions] + 1]
  <2>2. sessions \in Linked \cup {NULL} /\ \A c \in Linked : next[c] \in Linked \cup {NULL}
    BY DEF Acyclic
  <2>3. above \in [Chunks -> Nat]
    <3>1. (IF sessions = NULL THEN 0 ELSE rank[sessions] + 1) \in Nat
      BY <2>1, <2>2, <1>5
    <3>. QED BY <2>1, <3>1
  <2>4. above[p] = (IF sessions = NULL THEN 0 ELSE rank[sessions] + 1)
    BY <1>1
  <2>5. \A c \in Linked : above[c] = rank[c]
    BY <1>2, <1>5
  <2>6. ASSUME NEW c \in Linked'
        PROVE  above[c] < Cardinality(Linked') /\ (next'[c] /= NULL => above[next'[c]] < above[c])
    <3>. HIDE DEF above, p
    <3>1. CASE c = p
      BY <3>1, <1>5, <1>6, <2>1, <2>2, <2>4, <2>5 DEF Decreases
    <3>2. CASE c \in Linked
      BY <3>2, <1>5, <1>6, <2>1, <2>2, <2>5 DEF Decreases
    <3>. QED BY <3>1, <3>2, <1>4
  <2>. HIDE DEF above
  <2>. QED BY <2>3, <2>6 DEF Decreases
<1>8. /\ sessions' \in Linked' \cup {NULL}
      /\ \A c \in Linked' : next'[c] \in Linked' \cup {NULL}
  BY <1>1, <1>4, <1>5 DEF Acyclic
<1>. QED BY <1>1, <1>7, <1>8 DEF Acyclic

LEMMA PublishAcyclic ==
  ASSUME Typed, Acyclic, NEW t \in Threads, Publish(t)
  PROVE  Acyclic'
<1>1. /\ new[t] \in allocated /\ new[t] /= NULL /\ linked[t]
      /\ sessions' = new[t]
      /\ new' = [new EXCEPT ![t] = NULL] /\ linked' = [linked EXCEPT ![t] = FALSE]
      /\ UNCHANGED <<next, allocated>>
  BY DEF Publish, Published, Acyclic
<1>2. Unlinked' = Unlinked
  BY <1>1 DEF Unlinked, Typed, TypeOK
<1>3. Linked' = Linked
  BY <1>1, <1>2 DEF Linked
<1>4. new[t] \in Linked
  BY <1>1 DEF Linked, Unlinked, Acyclic
<1>5. \E rank \in [Chunks -> Nat] : Decreases(rank)'
  BY <1>1, <1>3 DEF Acyclic, Decreases
<1>6. /\ \A u \in Threads : new'[u] \in allocated' \cup {NULL}
      /\ \A u, v \in Threads : new'[u] = new'[v] /\ new'[u] /= NULL => u = v
  BY <1>1 DEF Acyclic, Typed, TypeOK
<1>. QED BY <1>1, <1>3, <1>4, <1>5, <1>6 DEF Acyclic

-----------------------------------------------------------------------------
(* Calls that do not overlap number the sessions. *)

LEMMA InitOrderly == Init => Counted /\ OneAtATime /\ Owned
BY DEF Init, Counted, OneAtATime, Owned, Open

LEMMA TakeIdOrderly ==
  ASSUME Typed, Acyclic, Counted, OneAtATime, Owned, NEW t \in Threads, TakeId(t), ~raced'
  PROVE  (Counted /\ OneAtATime /\ Owned)'
<1>1. PICK p \in Chunks \ allocated :
        /\ allocated' = allocated \cup {p}
        /\ id' = [id EXCEPT ![p] = NextId]
        /\ new' = [new EXCEPT ![t] = p]
  BY DEF TakeId
<1>2. /\ \A u \in Threads : new[u] = NULL /\ ~linked[u]
      /\ UNCHANGED <<sessions, next, linked, mine>>
  BY DEF TakeId, Typed
<1>3. /\ p /= NULL /\ new'[t] = p /\ \A u \in Threads : u /= t => new'[u] = NULL
      /\ id'[p] = NextId /\ \A c \in Chunks : c /= p => id'[c] = id[c]
  BY <1>1, <1>2, SessionsAssumption DEF Typed, TypeOK
<1>4. Open' = Open
  <2>1. Open = allocated /\ p \in {new'[u] : u \in Threads} /\ \A u \in Threads : new'[u] \in {p, NULL}
    BY <1>2, <1>3, SessionsAssumption DEF Open, Typed, TypeOK
  <2>. QED BY <2>1, <1>1, SessionsAssumption DEF Open, Typed, TypeOK
<1>5. p \notin Open /\ \A c \in Open : c \in Chunks /\ id'[c] = id[c]
  BY <1>1, <1>3 DEF Open, Typed, TypeOK
<1>6. NextId' = NextId
  BY <1>2, <1>5 DEF NextId, Counted
<1>7. Counted'
  BY <1>2, <1>4, <1>5 DEF Counted
<1>8. OneAtATime'
  BY <1>2, <1>3, <1>6 DEF OneAtATime
<1>9. Owned'
  BY <1>2, <1>4, <1>5 DEF Owned
<1>. QED BY <1>7, <1>8, <1>9

LEMMA LinkOrderly ==
  ASSUME Typed, Counted, OneAtATime, Owned, NEW t \in Threads, Link(t)
  PROVE  (Counted /\ OneAtATime /\ Owned)'
<1>1. /\ new[t] \in Chunks /\ new[t] /= NULL
      /\ next' = [next EXCEPT ![new[t]] = sessions]
      /\ linked' = [linked EXCEPT ![t] = TRUE]
      /\ UNCHANGED <<sessions, id, allocated, new, mine>>
  BY DEF Link, HeadRead, Typed, TypeOK
<1>2. Open' = Open /\ NextId' = NextId
  BY <1>1 DEF Open, NextId
<1>3. \A c \in Open : next'[c] = next[c]
  BY <1>1 DEF Open, Typed, TypeOK
<1>4. next'[new[t]] = sessions
  BY <1>1 DEF Typed, TypeOK
<1>5. Counted'
  BY <1>1, <1>2, <1>3 DEF Counted
<1>6. OneAtATime'
  BY <1>1, <1>2, <1>4 DEF OneAtATime
<1>7. Owned'
  BY <1>1, <1>2 DEF Owned
<1>. QED BY <1>5, <1>6, <1>7

LEMMA PublishOrderly ==
  ASSUME Typed, Acyclic, Counted, OneAtATime, Owned, NEW t \in Threads, Publish(t)
  PROVE  (Counted /\ OneAtATime /\ Owned)'
<1>. DEFINE p == new[t]
<1>1. /\ p \in Chunks /\ p \in allocated /\ p /= NULL /\ p \notin Open
      /\ id[p] = NextId /\ next[p] = sessions
      /\ \A u \in Threads : u /= t => new[u] = NULL
  BY DEF Publish, Acyclic, OneAtATime, Open, Typed, TypeOK
<1>2. /\ sessions' = p /\ new' = [new EXCEPT ![t] = NULL]
      /\ mine' = [mine EXCEPT ![t] = [chunk |-> p, id |-> id[p]]]
      /\ UNCHANGED <<id, next, allocated>>
  BY DEF Publish, Published
<1>3. \A u \in Threads : new'[u] = NULL
  BY <1>1, <1>2 DEF Typed, TypeOK
<1>4. Open' = Open \cup {p}
  BY <1>1, <1>2, <1>3, SessionsAssumption DEF Open, Typed, TypeOK
<1>5. Counted'
  <2>1. CASE sessions = NULL
    <3>1. Open = {} /\ id[p] = 1
      BY <2>1, <1>1 DEF Counted, NextId
    <3>. QED BY <3>1, <2>1, <1>1, <1>2, <1>4 DEF Counted
  <2>2. CASE sessions /= NULL
    <3>1. id[p] = id[sessions] + 1 /\ sessions \in Open /\ id[sessions] \in Nat \ {0}
      BY <2>2, <1>1, SessionsAssumption DEF Counted, NextId
    <3>2. \A c \in Open : id[c] \in 1..id[sessions] /\ id[c] \in 1..id[p] /\ id[c] /= id[p]
      BY <3>1 DEF Counted
    <3>3. \A c \in Open' : /\ id[c] \in 1..id[p]
                           /\ next[c] = NULL <=> id[c] = 1
                           /\ next[c] /= NULL => next[c] \in Open' /\ id[next[c]] = id[c] - 1
      BY <2>2, <3>1, <3>2, <1>1, <1>4 DEF Counted
    <3>4. \A c, d \in Open' : id[c] = id[d] => c = d
      BY <3>2, <1>4 DEF Counted
    <3>. QED BY <3>3, <3>4, <1>1, <1>2, <1>4 DEF Counted
  <2>. QED BY <2>1, <2>2
<1>6. OneAtATime'
  BY <1>3 DEF OneAtATime
<1>7. Owned'
  <2>. SUFFICES ASSUME NEW u \in Threads, mine'[u] /= None
                PROVE  mine'[u].chunk \in Open' /\ id[mine'[u].chunk] = mine'[u].id
    BY <1>2 DEF Owned
  <2>1. CASE u = t
    BY <2>1, <1>2, <1>4 DEF Typed, TypeOK
  <2>2. CASE u /= t
    BY <2>2, <1>2, <1>4 DEF Owned, Typed, TypeOK
  <2>. QED BY <2>1, <2>2
<1>. QED BY <1>5, <1>6, <1>7

-----------------------------------------------------------------------------
(* The invariant holds in every reachable state. *)
LEMMA Invariance == Spec => []IInv
<1>1. Init => IInv
  BY InitTyped, InitAcyclic, InitOrderly DEF IInv
<1>2. IInv /\ [Next]_vars => IInv'
  <2>. SUFFICES ASSUME IInv, [Next]_vars PROVE IInv'
    OBVIOUS
  <2>1. CASE UNCHANGED vars
    BY <2>1 DEF vars, registry, IInv, Typed, TypeOK, Acyclic, Decreases, Linked, Unlinked,
                Counted, Open, OneAtATime, NextId, Owned
  <2>2. ASSUME NEW t \in Threads, TakeId(t) PROVE IInv'
    <3>1. closed' = closed /\ (~raced' => ~raced)
      BY <2>2 DEF TakeId, IInv, Typed
    <3>. QED BY <2>2, <3>1, TakeIdTyped, TakeIdAcyclic, TakeIdOrderly DEF IInv
  <2>3. ASSUME NEW t \in Threads, Link(t) PROVE IInv'
    <3>1. closed' = closed /\ raced' = raced
      BY <2>3 DEF Link
    <3>. QED BY <2>3, <3>1, LinkTyped, LinkAcyclic, LinkOrderly DEF IInv
  <2>4. ASSUME NEW t \in Threads, Publish(t) PROVE IInv'
    <3>1. closed' = closed /\ raced' = raced
      BY <2>4 DEF Publish
    <3>. QED BY <2>4, <3>1, PublishTyped, PublishAcyclic, PublishOrderly DEF IInv
  <2>5. ASSUME NEW t \in Threads, Bye(t) PROVE IInv'
    <3>1. closed'
      BY <2>5 DEF Bye
    <3>. QED BY <2>5, <3>1, ByeTyped DEF IInv
  <2>. QED BY <2>1, <2>2, <2>3, <2>4, <2>5 DEF Next, Creating
<1>. QED BY <1>1, <1>2, PTL DEF Spec

(* Every value has its type. *)
THEOREM TypeCorrect == Spec => []TypeOK
BY Invariance, PTL DEF IInv, Typed

-----------------------------------------------------------------------------
(* What a walk along next meets. *)

LEMMA WalkFacts ==
  ASSUME Typed
  PROVE  Walk[0] = sessions /\ \A n \in Nat : Walk[n+1] = After(Walk[n])
<1>. DEFINE D == Chunks \cup {NULL}
            F == [c \in D |-> After(c)]
            W(w) == [i \in Nat |-> IF i = 0 THEN sessions ELSE After(w[i-1])]
<1>1. sessions \in D /\ F \in [D -> D]
  BY DEF Typed, TypeOK, After
<1>2. PICK g : g \in [Nat -> D] /\ g[0] = sessions /\ \A n \in Nat : g[n+1] = F[g[n]]
  <2>. HIDE DEF D, F
  <2>1. \E g : Iterates(g, D, sessions, F)
    BY <1>1, Iteration
  <2>. QED BY <2>1 DEF Iterates
<1>3. \A n \in Nat : g[n+1] = After(g[n])
  BY <1>2
<1>4. g = W(g)
  <2>1. \A i \in Nat : g[i] = IF i = 0 THEN sessions ELSE After(g[i-1])
    <3>. SUFFICES ASSUME NEW i \in Nat, i /= 0 PROVE g[i] = After(g[i-1])
      BY <1>2
    <3>1. i - 1 \in Nat /\ (i - 1) + 1 = i
      OBVIOUS
    <3>. QED BY <1>3, <3>1
  <2>. QED BY <1>2, <2>1
<1>5. Walk = W(Walk)
  BY <1>4 DEF Walk
<1>6. \A n \in Nat : n + 1 \in Nat /\ n + 1 /= 0 /\ (n + 1) - 1 = n
  OBVIOUS
<1>. QED BY <1>5, <1>6

LEMMA WalkEnds ==
  ASSUME Typed, Acyclic
  PROVE  \E k \in Steps : Walk[k] = NULL /\ \A i \in 0..k-1 : Walk[i] \in allocated
<1>1. PICK rank \in [Chunks -> Nat] : Decreases(rank)
  BY DEF Acyclic
<1>. DEFINE size == Cardinality(Linked)
            S == {i \in Nat : \/ Walk[i] = NULL
                              \/ Walk[i] \in Linked /\ rank[Walk[i]] + i < size}
<1>2. size \in Nat /\ Linked \subseteq Chunks /\ size <= Cardinality(Chunks) /\ Cardinality(Chunks) \in Nat
  BY LinkedFinite
<1>3. 0 \in S
  BY <1>1, <1>2, WalkFacts DEF Acyclic, Decreases
<1>4. ASSUME NEW i \in Nat, i \in S PROVE i + 1 \in S
  <2>1. CASE Walk[i] = NULL
    BY <2>1, WalkFacts DEF After
  <2>2. CASE Walk[i] \in Linked /\ Walk[i] /= NULL
    <3>. DEFINE c == Walk[i]
    <3>1. Walk[i+1] = next[c] /\ rank[c] + i < size /\ rank[c] \in Nat
      BY <1>2, <1>4, <2>2, WalkFacts DEF After
    <3>2. next[c] /= NULL => next[c] \in Linked /\ rank[next[c]] < rank[c] /\ rank[next[c]] \in Nat
      BY <1>1, <1>2, <2>2 DEF Acyclic, Decreases
    <3>. HIDE DEF c
    <3>3. next[c] /= NULL => next[c] \in Linked /\ rank[next[c]] + (i + 1) < size
      BY <3>1, <3>2, <1>2
    <3>. QED BY <3>1, <3>3
  <2>. QED BY <1>4, <2>1, <2>2
<1>5. Nat \subseteq S
  <2>. HIDE DEF S
  <2>. QED BY <1>3, <1>4, SetInduction
<1>6. Walk[size] = NULL
  <2>1. size \in S
    BY <1>2, <1>5
  <2>2. ASSUME Walk[size] \in Linked, rank[Walk[size]] + size < size PROVE FALSE
    <3>1. rank[Walk[size]] \in Nat
      BY <1>1, <1>2, <2>2
    <3>. QED BY <1>2, <2>2, <3>1
  <2>. QED BY <2>1, <2>2
<1>7. PICK k \in Nat : Walk[k] = NULL /\ \A j \in Nat : Walk[j] = NULL => k <= j
  <2>. DEFINE T == {j \in Nat : Walk[j] = NULL}
  <2>1. T \in SUBSET Nat /\ T /= {}
    BY <1>2, <1>6
  <2>2. PICK k \in T : \A j \in T : k <= j
    <3>. HIDE DEF T
    <3>. QED BY <2>1, Least
  <2>. QED BY <2>2
<1>8. k \in Steps
  BY <1>2, <1>6, <1>7 DEF Steps
<1>9. \A i \in 0..k-1 : Walk[i] \in allocated
  <2>. SUFFICES ASSUME NEW i \in 0..k-1 PROVE Walk[i] \in allocated
    OBVIOUS
  <2>1. i \in Nat /\ i < k
    BY <1>7
  <2>. QED BY <1>5, <1>7, <2>1 DEF Linked
<1>. QED BY <1>7, <1>8, <1>9

(* Until a session is closed no lookup hangs a thread, whatever the order in
   which the calls of create_session read and write the head: every walk from
   the head meets live sessions and then the end of the list. *)
THEOREM NoLookupHangs == Spec => []LookupsEnd
<1>1. IInv => LookupsEnd
  BY WalkEnds DEF IInv, LookupsEnd
<1>. QED BY <1>1, Invariance, PTL

LEMMA OwnFound ==
  ASSUME Typed, Acyclic, Counted, Owned, NEW t \in Threads, mine[t] /= None
  PROVE  get_session(mine[t].id) = mine[t].chunk
<1>. DEFINE c == mine[t].chunk
            n == mine[t].id
            last == id[sessions] - 1
            k == id[sessions] - n
            S == {i \in 0..last : Walk[i] \in Open /\ id[Walk[i]] = id[sessions] - i}
<1>1. c \in Open /\ id[c] = n
  BY DEF Owned
<1>2. /\ sessions \in Open /\ sessions /= NULL /\ id[sessions] \in Nat \ {0} /\ last \in Nat
      /\ n \in 1..id[sessions] /\ k \in 0..last
  BY <1>1, SessionsAssumption DEF Counted, Open, Typed, TypeOK
<1>3. \A d \in Open : d /= NULL /\ d \in Chunks
  BY SessionsAssumption DEF Open, Typed, TypeOK
<1>4. 0 \in S
  BY <1>2, WalkFacts
<1>5. ASSUME NEW i \in 0..last-1, i \in S PROVE i + 1 \in S
  <2>1. /\ Walk[i] \in Open /\ id[Walk[i]] = id[sessions] - i
        /\ id[Walk[i]] /= 1 /\ i \in Nat /\ i + 1 \in 0..last
    BY <1>2, <1>5
  <2>2. next[Walk[i]] \in Open /\ id[next[Walk[i]]] = id[Walk[i]] - 1
    BY <2>1 DEF Counted
  <2>3. Walk[i+1] = next[Walk[i]]
    BY <2>1, <1>3, WalkFacts DEF After
  <2>4. (id[sessions] - i) - 1 = id[sessions] - (i + 1)
    BY <1>2
  <2>. HIDE DEF last
  <2>. QED BY <2>1, <2>2, <2>3, <2>4
<1>6. 0..last \subseteq S
  <2>. HIDE DEF S, last
  <2>. QED BY <1>2, <1>4, <1>5, BoundedInduction
<1>7. \A i \in 0..last : Walk[i] \in Open /\ Walk[i] /= NULL /\ id[Walk[i]] = id[sessions] - i
  BY <1>3, <1>6
<1>8. Walk[k] = c /\ id[Walk[k]] = n
  <2>1. id[Walk[k]] = n /\ Walk[k] \in Open
    BY <1>2, <1>7
  <2>. QED BY <1>1, <2>1 DEF Counted
<1>9. k \in Stops(n)
  <2>1. PICK e \in Steps : Walk[e] = NULL
    BY WalkEnds
  <2>2. k \in Steps
    BY <1>2, <1>7, <2>1, LinkedFinite DEF Steps
  <2>. QED BY <1>8, <2>2 DEF Stops
<1>10. \A j \in Stops(n) : k <= j
  <2>. SUFFICES ASSUME NEW j \in Stops(n), j < k PROVE FALSE
    BY <1>2, LinkedFinite DEF Stops, Steps
  <2>1. j \in 0..last /\ id[sessions] - j /= n
    BY <1>2, LinkedFinite DEF Stops, Steps
  <2>. HIDE DEF last
  <2>. QED BY <1>7, <2>1 DEF Stops
<1>11. Min(Stops(n)) = k
  <2>1. \A j \in Stops(n) : j \in Nat
    BY LinkedFinite DEF Stops, Steps
  <2>2. k \in Nat
    BY <1>2
  <2>. HIDE DEF k
  <2>3. \A x \in Stops(n) : (\A y \in Stops(n) : x <= y) => x = k
    BY <1>9, <1>10, <2>1, <2>2
  <2>. QED BY <1>9, <1>10, <2>3 DEF Min
<1>. QED BY <1>8, <1>11 DEF get_session

(* As long as no session was closed and no two calls of create_session have
   overlapped, the id a client was given leads get_session to that client's
   document. *)
THEOREM ClientsKeepDocuments == Spec => []OwnDocument
<1>1. IInv => OwnDocument
  BY OwnFound DEF IInv, OwnDocument
<1>. QED BY <1>1, Invariance, PTL

(* Under the same conditions close_session frees the memory of the session it
   was asked to close, if that is the newest or the one before. *)
THEOREM FirstCloseIsRight == Spec => CloseFreesOwn
<1>. DEFINE Right == \A t \in Threads :
                       /\ Bye(t) /\ ~closed /\ ~raced
                       /\ mine[t].chunk \in {sessions, After(sessions)}
                       => allocated' = allocated \ {mine[t].chunk}
<1>1. IInv => Right
  <2>. SUFFICES ASSUME IInv, NEW t \in Threads, Bye(t), ~closed, ~raced,
                       mine[t].chunk \in {sessions, After(sessions)}
                PROVE  allocated' = allocated \ {mine[t].chunk}
    OBVIOUS
  <2>1. mine[t] /= None /\ close_session(mine[t].id)
    BY DEF Bye
  <2>2. get_session(mine[t].id) = mine[t].chunk
    BY <2>1, OwnFound DEF IInv
  <2>3. mine[t].chunk /= NULL /\ sessions /= NULL
    BY <2>1, SessionsAssumption DEF IInv, Owned, Counted, Open, Typed, TypeOK
  <2>. QED BY <2>1, <2>2, <2>3 DEF close_session, FreedByWalk, After
<1>. QED BY <1>1, Invariance, PTL DEF CloseFreesOwn
=============================================================================
