------------------------------ MODULE Sessions ------------------------------
(***************************************************************************)
(* session.c: the registry of open documents that the server's threads     *)
(* share.  It is a singly linked list of malloc'ed struct roman, and the   *)
(* mutexes that should guard it are local variables of each call: they     *)
(* exclude nobody.  create_session is therefore one action per access to   *)
(* the shared head; the walks of close_session and get_session are one     *)
(* action each.                                                            *)
(*                                                                         *)
(* A struct roman that has been freed keeps its id and its next, which lie *)
(* past the words the allocator uses, until malloc hands it out again; a   *)
(* second free of the same chunk makes the allocator abort the process.    *)
(***************************************************************************)
EXTENDS Integers, FiniteSetsExt

CONSTANTS Threads,  \* the server threads, one client each
          Chunks,   \* addresses malloc can return for a struct roman
          MaxId,    \* bound: no session is created past this id
          NULL

ASSUME SessionsAssumption ==
  /\ NULL \notin Chunks
  /\ IsFiniteSet(Chunks)
  /\ MaxId \in Nat

VARIABLES
  sessions,   \* the head of the list
  id, next,   \* the fields of every chunk
  allocated,  \* the chunks malloc has handed out
  new,        \* per thread: the session create_session is linking, or NULL
  linked,     \* per thread: its next is set
  mine,       \* per thread: the session its client was given, and its id
  aborted,    \* the allocator has stopped the process
  closed,     \* history: some session has been closed
  raced       \* history: two create_session calls have overlapped

registry == <<sessions, id, next, allocated>>
vars == <<registry, new, linked, mine, aborted, closed, raced>>

None == [chunk |-> NULL, id |-> 0]

-----------------------------------------------------------------------------
(* The nodes a walk from the head meets, and NULL from its end on.  There are
   only so many chunks: a walk that goes on past their number goes in a circle. *)
After(c) == IF c = NULL THEN NULL ELSE next[c]

Walk[i \in Nat] == IF i = 0 THEN sessions ELSE After(Walk[i-1])

Steps == 0..Cardinality(Chunks)

(* get_session: the first node with the id, NULL at the end of the list.  A
   walk that meets neither never returns. *)
Stops(n) == {i \in Steps : Walk[i] = NULL \/ id[Walk[i]] = n}
Returns(n) == Stops(n) /= {}
get_session(n) == Walk[Min(Stops(n))]

-----------------------------------------------------------------------------
Init ==
  /\ sessions = NULL /\ allocated = {}
  /\ id = [c \in Chunks |-> 0] /\ next = [c \in Chunks |-> NULL]
  /\ new = [t \in Threads |-> NULL] /\ linked = [t \in Threads |-> FALSE]
  /\ mine = [t \in Threads |-> None]
  /\ aborted = FALSE /\ closed = FALSE /\ raced = FALSE

(* Seeded fault: the first id is 0. *)
NextIdFromZero == IF sessions = NULL THEN 0 ELSE id[sessions] + 1

NextId == IF sessions = NULL THEN 1 ELSE id[sessions] + 1

(* create_session: malloc, and the id computed from the head's.  The code reads
   the head twice, for its null test and for the id; one access stands for both,
   so that a close_session in between, after which the second read goes through
   a null pointer, is not among the steps. *)
TakeId(t) ==
  /\ mine[t] = None /\ new[t] = NULL
  /\ NextId <= MaxId
  /\ \E p \in Chunks \ allocated :
       /\ allocated' = allocated \cup {p}
       /\ id' = [id EXCEPT ![p] = NextId]
       /\ new' = [new EXCEPT ![t] = p]
  /\ raced' = (raced \/ \E u \in Threads : new[u] /= NULL)
  /\ UNCHANGED <<sessions, next, linked, mine, closed>>

(* Seeded fault: the head has been overwritten before it is read. *)
HeadReadLate(p) == p
HeadRead(p) == sessions

(* p->next = sessions *)
Link(t) ==
  /\ new[t] /= NULL /\ ~linked[t]
  /\ next' = [next EXCEPT ![new[t]] = HeadRead(new[t])]
  /\ linked' = [linked EXCEPT ![t] = TRUE]
  /\ UNCHANGED <<sessions, id, allocated, new, mine, closed, raced>>

(* Seeded fault: a session that is not the first one is not made the head. *)
PublishedOnlyFirst(p) == IF sessions = NULL THEN p ELSE sessions
Published(p) == p

(* sessions = p, and the id goes to the client. *)
Publish(t) ==
  /\ new[t] /= NULL /\ linked[t]
  /\ sessions' = Published(new[t])
  /\ mine' = [mine EXCEPT ![t] = [chunk |-> new[t], id |-> id[new[t]]]]
  /\ new' = [new EXCEPT ![t] = NULL]
  /\ linked' = [linked EXCEPT ![t] = FALSE]
  /\ UNCHANGED <<id, next, allocated, closed, raced>>

(* Seeded fault: the head is freed instead of its successor. *)
FreedByWalkHead == sessions
FreedByWalk == next[sessions]

(* close_session(n): the head is freed and the whole list forgotten; a session
   found further down frees the head's successor, whichever it is, and stays
   linked.  An id that is not found changes nothing (-1). *)
close_session(n) ==
  /\ Returns(n)
  /\ LET found == get_session(n)
         victim == IF found = NULL THEN NULL
                   ELSE IF found = sessions THEN sessions ELSE FreedByWalk
     IN /\ allocated' = allocated \ {victim}
        /\ aborted' = (victim /= NULL /\ victim \notin allocated)
        /\ sessions' = IF found /= NULL /\ found = sessions THEN NULL ELSE sessions
  /\ UNCHANGED <<id, next>>

(* bye: the thread closes the session of its client. *)
Bye(t) ==
  /\ mine[t] /= None
  /\ close_session(mine[t].id)
  /\ mine' = [mine EXCEPT ![t] = None]
  /\ closed' = TRUE
  /\ UNCHANGED <<new, linked, raced>>

Creating(t) == (TakeId(t) \/ Link(t) \/ Publish(t)) /\ UNCHANGED aborted

Next == ~aborted /\ \E t \in Threads : Creating(t) \/ Bye(t)

Spec == Init /\ [][Next]_vars

-----------------------------------------------------------------------------
(* Properties *)

(* The list is made of chunks, and a thread holds the chunk it was given. *)
TypeOK ==
  /\ sessions \in Chunks \cup {NULL}
  /\ next \in [Chunks -> Chunks \cup {NULL}]
  /\ id \in [Chunks -> 0..MaxId]
  /\ allocated \subseteq Chunks
  /\ new \in [Threads -> Chunks \cup {NULL}]
  /\ mine \in [Threads -> [chunk : Chunks, id : 1..MaxId] \cup {None}]

(* Until a session is closed every walk ends and meets live sessions only,
   even when calls of create_session overlap: a lookup never hangs a thread. *)
LookupsEnd ==
  ~closed => \E k \in Steps : Walk[k] = NULL /\ \A i \in 0..k-1 : Walk[i] \in allocated

(* Until a session is closed, and as long as no two create_session calls have
   overlapped, a client's id leads to the client's own document and to no
   other's. *)
OwnDocument ==
  ~closed /\ ~raced =>
    \A t \in Threads : mine[t] /= None => get_session(mine[t].id) = mine[t].chunk

(* Closing the newest session or the one before it frees that session's
   memory and no other. *)
CloseFreesOwn ==
  [][\A t \in Threads :
       /\ Bye(t) /\ ~closed /\ ~raced
       /\ mine[t].chunk \in {sessions, After(sessions)}
       => allocated' = allocated \ {mine[t].chunk}]_vars

(* session.c:7, "returns an id_session when session is created": the id a
   client is given is the one of the session made for it. *)
IdIsOfItsSession ==
  ~closed =>
    \A t \in Threads : mine[t] /= None => get_session(mine[t].id) = mine[t].chunk
=============================================================================
