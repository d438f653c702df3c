---------------------------- MODULE ServerProofs ----------------------------
(***************************************************************************)
(* The server for any number of clients and any scripts, as long as the    *)
(* clients come one after the other and none is killed while an answer is  *)
(* on its way to it.                                                       *)
(*                                                                         *)
(* At most one client is connected.  A connected client that waits for a   *)
(* reply has exactly one message in the system: its request in the socket, *)
(* then in its thread, then the reply in the thread's buffer, then in the  *)
(* socket; and the session at the head of the registry is its own and      *)
(* holds what its script has done so far.  That a client may connect while *)
(* the thread of the one before is still at work is harmless, because such *)
(* a thread packs nothing any more.                                        *)
(***************************************************************************)
EXTENDS Server, Lemmas

OneByOne == ~Overlap /\ KillPoints \subseteq {"ready"}
FewClients == IsFiniteSet(Clients) /\ Cardinality(Clients) <= MAXCLIENTS

-----------------------------------------------------------------------------
(* The document of a client that has sent the first k requests of s. *)
Writes(s, k, a) == {j \in 1..k : s[j].method = "set_val" /\ s[j].at = a}
Uses(s, k) == {j \in 1..k : s[j].method \in {"set_val", "get_val"}}
Holds(s, k, a) == IF Writes(s, k, a) = {} THEN 0 ELSE s[Max(Writes(s, k, a))].val

CellsAfter(s, k) == [a \in {s[j].at : j \in Uses(s, k)} |-> Holds(s, k, a)]
SheetsAfter(s, k) ==
  IF k = 1 THEN <<>> ELSE <<[live |-> k < Len(s) - 1, cells |-> CellsAfter(s, k)]>>
SessionAfter(s, k, n) == [id |-> n, sheets |-> SheetsAfter(s, k), freed |-> FALSE]

(* After k requests of c, before the last one: it is at the head. *)
Doc(c, k, n) ==
  k \in 1..Len(Script[c]) - 1 =>
    sessions /= <<>> /\ sessions[1] = SessionAfter(Script[c], k, n)

-----------------------------------------------------------------------------
(* Where a client, its thread and their sockets are, together. *)
Quiet(c) == toServer[c] = <<>> /\ toClient[c] = <<>>

(* The thread waits for a request, or will when it has cleared its buffer. *)
Idle(c) ==
  \/ thread[c] = [pc |-> "read", req |-> NULL] /\ sbuf[c] = <<>>
  \/ thread[c] = [pc |-> "clear", req |-> Request(c)] /\ Request(c).method /= "bye"

Heard(c) ==
  heard[c] /= NULL =>
    heard[c].reply /= NULL /\ Promised(Script[c], heard[c].req, heard[c].reply)

Unmet(c) ==
  /\ client[c] = Away
  /\ thread[c] = [pc |-> "none", req |-> NULL] /\ sbuf[c] = <<>>
  /\ Quiet(c) /\ heard[c] = NULL

Welcomed(c) ==
  /\ client[c] = [pc |-> "welcome", at |-> 1, id |-> 0]
  /\ sbuf[c] = <<>> /\ toServer[c] = <<>> /\ heard[c] = NULL
  /\ \/ /\ thread[c] \in {[pc |-> "none", req |-> NULL], [pc |-> "start", req |-> NULL]}
        /\ toClient[c] = <<>>
     \/ /\ thread[c] = [pc |-> "read", req |-> NULL]
        /\ toClient[c] = <<Welcome>> /\ pk = c

InScript(c, pc) ==
  /\ client[c] = [pc |-> pc, at |-> client[c].at, id |-> client[c].id]
  /\ client[c].at \in 1..Len(Script[c]) /\ client[c].id \in Nat

Rests(c) ==
  /\ InScript(c, "ready")
  /\ Quiet(c) /\ Idle(c) /\ pk = c
  /\ Doc(c, client[c].at - 1, client[c].id)
  /\ Heard(c)

Message(c) ==
  [method |-> Asked(c).method, at |-> Asked(c).at, val |-> Asked(c).val,
   id |-> client[c].id]

(* The request has been answered by r, and the document has changed. *)
Answering(c, r) ==
  /\ r \in Replies /\ Promised(Script[c], client[c].at, r)
  /\ client[c].at = 1 => r.val \in Nat
  /\ Doc(c, client[c].at, IF client[c].at = 1 THEN r.val ELSE client[c].id)

(* One message: on its way, in the thread, answered in the buffer, and on its
   way back. *)
Sent(c) ==
  /\ Idle(c) /\ toServer[c] = <<Message(c)>> /\ toClient[c] = <<>>
  /\ Doc(c, client[c].at - 1, client[c].id)
InThread(c) ==
  /\ thread[c] = [pc |-> "handle", req |-> Message(c)] /\ sbuf[c] = <<>> /\ Quiet(c)
  /\ Doc(c, client[c].at - 1, client[c].id)
Packed(c) ==
  /\ thread[c] = [pc |-> "send", req |-> Message(c)] /\ Quiet(c)
  /\ \E r \in ToSet(sbuf[c]) : sbuf[c] = <<r>> /\ Answering(c, r)
Returned(c) ==
  /\ toServer[c] = <<>>
  /\ \E r \in ToSet(toClient[c]) : toClient[c] = <<r>> /\ Answering(c, r)
  /\ \/ Idle(c) /\ Asked(c).method /= "bye"
     \/ Asked(c).method = "bye"
        /\ thread[c] \in {[pc |-> "clear", req |-> Message(c)],
                          [pc |-> "close", req |-> NULL], [pc |-> "done", req |-> NULL]}

Waits(c) ==
  /\ InScript(c, "reading") /\ heard[c] = NULL /\ pk = c
  /\ Sent(c) \/ InThread(c) \/ Packed(c) \/ Returned(c)

Gone(c) ==
  /\ client[c].pc = "gone" /\ client[c].at = Len(Script[c]) + 1 /\ client[c].id \in Nat
  /\ Quiet(c) /\ Heard(c)
  /\ \/ thread[c] = [pc |-> "clear", req |-> Request(c)] /\ Request(c).method = "bye"
     \/ thread[c] \in {[pc |-> "close", req |-> NULL], [pc |-> "done", req |-> NULL]}

Vanished(c) ==
  /\ client[c] = [pc |-> "killed", at |-> 0, id |-> 0]
  /\ Quiet(c) /\ Idle(c) /\ heard[c] = NULL

Stage(c) ==
  Unmet(c) \/ Welcomed(c) \/ Rests(c) \/ Waits(c) \/ Gone(c) \/ Vanished(c)

-----------------------------------------------------------------------------
PerClient(f) == f = [c \in Clients |-> f[c]]

Typed ==
  /\ main \in {"check", "accept", "join", "ended", "crashed"}
  /\ pk \in Clients \cup {NULL}
  /\ PerClient(thread) /\ PerClient(client) /\ PerClient(heard)
  /\ PerClient(sbuf) /\ PerClient(toServer) /\ PerClient(toClient)

OneConnected == \A c, d \in Clients : Connected(c) /\ Connected(d) => c = d

Queue ==
  \/ backlog = <<>>
  \/ \E c \in Clients : /\ backlog = <<c>>
                        /\ client[c].pc = "welcome" /\ thread[c].pc = "none"

Started ==
  /\ thLanzados \in Seq(Clients) /\ IsInjective(thLanzados)
  /\ \A c \in Clients : c \in ToSet(thLanzados) <=> thread[c].pc /= "none"

Registry ==
  /\ sessions \in Seq(ToSet(sessions))
  /\ sessions /= <<>> => sessions[1].id \in Nat /\ ~sessions[1].freed

IInv ==
  /\ Typed /\ OneConnected /\ Queue /\ Started /\ Registry
  /\ \A c \in Clients : Stage(c)

-----------------------------------------------------------------------------
(* What a script has written. *)
Scripts == {s \in Seq([method : STRING, at : Nat, val : Int]) : Len(s) >= 4}

LEMMA ScriptFacts ==
  ASSUME NEW c \in Clients
  PROVE  /\ Script[c] \in Scripts /\ Len(Script[c]) \in Nat
         /\ \A k \in 1..Len(Script[c]) :
              LET method == Script[c][k].method
              IN /\ method = "HELO" <=> k = 1
                 /\ method = "create_sheet" <=> k = 2
                 /\ method = "delete_sheet" <=> k = Len(Script[c]) - 1
                 /\ method = "bye" <=> k = Len(Script[c])
                 /\ method \in {"set_val", "get_val", "get_cell"} <=> k \in 3..Len(Script[c]) - 2
<1> DEFINE s == Script[c]
<1>1. /\ s \in Scripts /\ Len(s) \in Nat /\ Len(s) >= 4
      /\ s[1].method = "HELO" /\ s[2].method = "create_sheet"
      /\ s[Len(s)-1].method = "delete_sheet" /\ s[Len(s)].method = "bye"
      /\ \A k \in 3..Len(s)-2 : s[k].method \in {"set_val", "get_val", "get_cell"}
  BY ServerAssumption DEF ServerAssumption, Scripts
<1> HIDE DEF s
<1>2. ASSUME NEW k \in 1..Len(s)
      PROVE  LET method == s[k].method
             IN /\ method = "HELO" <=> k = 1
                /\ method = "create_sheet" <=> k = 2
                /\ method = "delete_sheet" <=> k = Len(s) - 1
                /\ method = "bye" <=> k = Len(s)
                /\ method \in {"set_val", "get_val", "get_cell"} <=> k \in 3..Len(s) - 2
  <2>1. k = 1 \/ k = 2 \/ k \in 3..Len(s)-2 \/ k = Len(s) - 1 \/ k = Len(s)
    BY <1>1
  <2>. QED BY <1>1, <2>1
<1>. QED BY <1>1, <1>2 DEF s

LEMMA Entry ==
  ASSUME NEW s \in Scripts, NEW k \in 1..Len(s)
  PROVE  s[k] = [method |-> s[k].method, at |-> s[k].at, val |-> s[k].val]
         /\ s[k].at \in Nat /\ s[k].val \in Int
<1>1. s \in Seq([method : STRING, at : Nat, val : Int])
  BY DEF Scripts
<1>2. s[k] \in [method : STRING, at : Nat, val : Int]
  BY <1>1, ElementOfSeq
<1>. QED BY <1>2

(* The largest number of a set that is bounded. *)
LEMMA MaxOfNext ==
  ASSUME NEW k \in Nat, NEW W \in SUBSET (1..k)
  PROVE  Max(W \cup {k + 1}) = k + 1
<1>1. \A w \in W \cup {k + 1} : w \in Nat /\ k + 1 >= w
  OBVIOUS
<1>2. \A x \in W \cup {k + 1} : x >= k + 1 => x = k + 1
  BY <1>1
<1>3. k + 1 \in W \cup {k + 1}
  OBVIOUS
<1>. QED BY <1>1, <1>2, <1>3, Zenon DEF Max

LEMMA MaxIn ==
  ASSUME NEW k \in Nat, NEW W \in SUBSET (1..k), W /= {}
  PROVE  Max(W) \in W
<1> DEFINE T == {k - w : w \in W}
<1>1. T \in SUBSET Nat /\ T /= {}
  <2>1. \A w \in W : k - w \in Nat
    OBVIOUS
  <2>. QED BY <2>1
<1>2. PICK x \in T : \A y \in T : x <= y
  <2> HIDE DEF T
  <2>. QED BY <1>1, Least
<1>3. \A w \in W : x <= k - w
  BY <1>2
<1>4. k - x \in W /\ \A w \in W : k - x >= w
  BY <1>2, <1>3
<1>. QED BY <1>4 DEF Max

LEMMA HoldsNumber ==
  ASSUME NEW s \in Scripts, NEW k \in 0..Len(s), NEW a PROVE Holds(s, k, a) \in Int
<1>1. k \in Nat /\ Writes(s, k, a) \in SUBSET (1..k) /\ Len(s) \in Nat
  BY DEF Writes, Scripts
<1>2. CASE Writes(s, k, a) /= {}
  <2>1. Max(Writes(s, k, a)) \in 1..k
    BY <1>1, <1>2, MaxIn
  <2>2. Max(Writes(s, k, a)) \in 1..Len(s)
    BY <1>1, <2>1
  <2>3. s[Max(Writes(s, k, a))].val \in Int
    BY <2>2, Entry
  <2>. QED BY <1>2, <2>3 DEF Holds
<1>. QED BY <1>2 DEF Holds

(* One more request. *)
LEMMA OneMore ==
  ASSUME NEW s \in Scripts, NEW k \in 0..Len(s) - 1, NEW a
  PROVE  /\ Writes(s, k+1, a) = IF s[k+1].method = "set_val" /\ s[k+1].at = a
                                THEN Writes(s, k, a) \cup {k+1} ELSE Writes(s, k, a)
         /\ Uses(s, k+1) = IF s[k+1].method \in {"set_val", "get_val"}
                           THEN Uses(s, k) \cup {k+1} ELSE Uses(s, k)
         /\ Writes(s, k, a) \in SUBSET (1..k) /\ k \in Nat
         /\ Wrote(s, k+1) = Writes(s, k, s[k+1].at)
         /\ Touched(s, k+1) = {j \in Uses(s, k) : s[j].at = s[k+1].at}
         /\ LastWritten(s, k+1) = Holds(s, k, s[k+1].at)
<1>1. Len(s) \in Nat /\ k \in Nat /\ 1..k+1 = 1..k \cup {k+1} /\ 1..(k+1)-1 = 1..k
  BY DEF Scripts
<1>2. Writes(s, k+1, a) = IF s[k+1].method = "set_val" /\ s[k+1].at = a
                          THEN Writes(s, k, a) \cup {k+1} ELSE Writes(s, k, a)
  BY <1>1 DEF Writes
<1>3. Uses(s, k+1) = IF s[k+1].method \in {"set_val", "get_val"}
                     THEN Uses(s, k) \cup {k+1} ELSE Uses(s, k)
  BY <1>1 DEF Uses
<1>4. Writes(s, k, a) \in SUBSET (1..k)
  BY DEF Writes
<1>5. Wrote(s, k+1) = Writes(s, k, s[k+1].at)
  BY <1>1 DEF Writes, Wrote
<1>6. Touched(s, k+1) = {j \in Uses(s, k) : s[j].at = s[k+1].at}
  BY <1>1 DEF Touched, Uses
<1>7. LastWritten(s, k+1) = Holds(s, k, s[k+1].at)
  BY <1>5 DEF LastWritten, Holds
<1>. QED BY <1>1, <1>2, <1>3, <1>4, <1>5, <1>6, <1>7

LEMMA CellsStep ==
  ASSUME NEW s \in Scripts, NEW k \in 0..Len(s) - 1
  PROVE  LET cells == CellsAfter(s, k)
             next == CellsAfter(s, k+1)
             r == s[k+1]
         IN /\ r.method = "set_val" => next = Written(cells, r.at, r.val)
            /\ r.method = "get_val" => /\ next = lookat(cells, r.at)
                                       /\ next[r.at] = LastWritten(s, k+1)
            /\ r.method \notin {"set_val", "get_val"} => next = cells
            /\ r.at \in DOMAIN cells <=> Touched(s, k+1) /= {}
            /\ r.at \in DOMAIN cells => cells[r.at] = LastWritten(s, k+1)
            /\ LastWritten(s, k+1) \in Int
<1> DEFINE at == s[k+1].at
           Places(n) == {s[j].at : j \in Uses(s, n)}
<1>1. /\ DOMAIN CellsAfter(s, k) = Places(k) /\ DOMAIN CellsAfter(s, k+1) = Places(k+1)
      /\ \A a \in Places(k) : CellsAfter(s, k)[a] = Holds(s, k, a)
      /\ \A a \in Places(k+1) : CellsAfter(s, k+1)[a] = Holds(s, k+1, a)
      /\ CellsAfter(s, k) = [a \in Places(k) |-> Holds(s, k, a)]
      /\ CellsAfter(s, k+1) = [a \in Places(k+1) |-> Holds(s, k+1, a)]
  BY DEF CellsAfter
<1>2. Places(k+1) = IF s[k+1].method \in {"set_val", "get_val"}
                    THEN Places(k) \cup {at} ELSE Places(k)
  <2>1. Uses(s, k+1) = IF s[k+1].method \in {"set_val", "get_val"}
                       THEN Uses(s, k) \cup {k+1} ELSE Uses(s, k)
    BY OneMore
  <2>2. CASE s[k+1].method \in {"set_val", "get_val"}
    <3>1. Uses(s, k+1) = Uses(s, k) \cup {k+1}
      BY <2>1, <2>2
    <3>. QED BY <2>2, <3>1
  <2>. QED BY <2>1, <2>2
<1>3. at \in Places(k) <=> Touched(s, k+1) /= {}
  BY OneMore
<1>4. ASSUME NEW a
      PROVE  Holds(s, k+1, a) = IF s[k+1].method = "set_val" /\ a = at
                                THEN s[k+1].val ELSE Holds(s, k, a)
  <2>1. CASE s[k+1].method = "set_val" /\ a = at
    <3>1. Max(Writes(s, k+1, a)) = k + 1 /\ Writes(s, k+1, a) /= {}
      BY <2>1, OneMore, MaxOfNext, ZenonT(40)
    <3>. QED BY <2>1, <3>1 DEF Holds
  <2>2. CASE ~(s[k+1].method = "set_val" /\ a = at)
    <3>1. Writes(s, k+1, a) = Writes(s, k, a)
      BY <2>2, OneMore
    <3>. QED BY <2>2, <3>1 DEF Holds
  <2>. QED BY <2>1, <2>2
<1>5. LastWritten(s, k+1) = Holds(s, k, at) /\ LastWritten(s, k+1) \in Int
  <2>1. Len(s) \in Nat /\ k \in 0..Len(s)
    BY DEF Scripts
  <2>2. LastWritten(s, k+1) = Holds(s, k, at)
    BY OneMore
  <2>3. Holds(s, k, at) \in Int
    BY <2>1, HoldsNumber
  <2>. QED BY <2>2, <2>3
<1>6. at \notin Places(k) => Holds(s, k, at) = 0
  <2>1. Writes(s, k, at) /= {} => at \in Places(k)
    BY DEF Writes, Uses
  <2>. QED BY <2>1 DEF Holds
<1> HIDE DEF Places, at
<1>7. ASSUME s[k+1].method = "set_val"
      PROVE  CellsAfter(s, k+1) = Written(CellsAfter(s, k), at, s[k+1].val)
  <2>1. Written(CellsAfter(s, k), at, s[k+1].val)
          = [a \in Places(k+1) |-> IF a = at THEN s[k+1].val ELSE CellsAfter(s, k)[a]]
    BY <1>1, <1>2, <1>7 DEF Written
  <2>2. \A a \in Places(k+1) :
          Holds(s, k+1, a) = IF a = at THEN s[k+1].val ELSE CellsAfter(s, k)[a]
    BY <1>1, <1>2, <1>4, <1>7
  <2>. QED BY <1>1, <2>1, <2>2
<1>8. ASSUME s[k+1].method = "get_val"
      PROVE  /\ CellsAfter(s, k+1) = lookat(CellsAfter(s, k), at)
             /\ CellsAfter(s, k+1)[at] = LastWritten(s, k+1)
  <2>1. Places(k+1) = Places(k) \cup {at} /\ at \in Places(k+1)
    BY <1>2, <1>8
  <2>2. \A a : Holds(s, k+1, a) = Holds(s, k, a)
    BY <1>4, <1>8
  <2>3. CASE at \in Places(k)
    <3>1. CellsAfter(s, k+1) = CellsAfter(s, k)
      BY <1>1, <2>1, <2>2, <2>3
    <3>. QED BY <1>1, <1>5, <2>1, <2>2, <2>3, <3>1 DEF lookat
  <2>4. CASE at \notin Places(k)
    <3>1. Written(CellsAfter(s, k), at, 0)
            = [a \in Places(k+1) |-> IF a = at THEN 0 ELSE CellsAfter(s, k)[a]]
      BY <1>1, <2>1 DEF Written
    <3>2. \A a \in Places(k+1) :
            Holds(s, k+1, a) = IF a = at THEN 0 ELSE CellsAfter(s, k)[a]
      BY <1>1, <1>6, <2>1, <2>2, <2>4
    <3>3. CellsAfter(s, k+1) = Written(CellsAfter(s, k), at, 0)
      BY <1>1, <3>1, <3>2
    <3>. QED BY <1>1, <1>5, <2>1, <2>2, <2>4, <3>3 DEF lookat
  <2>. QED BY <2>3, <2>4
<1>9. s[k+1].method \notin {"set_val", "get_val"} => CellsAfter(s, k+1) = CellsAfter(s, k)
  BY <1>1, <1>2, <1>4
<1>. QED BY <1>1, <1>3, <1>5, <1>7, <1>8, <1>9 DEF at

-----------------------------------------------------------------------------
(* A step that leaves a client, its thread and their sockets alone leaves the
   client where it is; the packer and the registry belong to the client that
   is connected. *)
Same(c) ==
  /\ client'[c] = client[c] /\ thread'[c] = thread[c] /\ heard'[c] = heard[c]
  /\ sbuf'[c] = sbuf[c] /\ toServer'[c] = toServer[c] /\ toClient'[c] = toClient[c]

LEMMA Frame ==
  ASSUME NEW c \in Clients, Stage(c), Same(c),
         Connected(c) => pk' = pk /\ sessions' = sessions
  PROVE  Stage(c)'
<1> USE DEF Same
<1>0. Quiet(c)' = Quiet(c) /\ (Idle(c)' <=> Idle(c)) /\ (Heard(c)' <=> Heard(c))
      /\ Request(c)' = Request(c)
  BY DEF Quiet, Idle, Heard, Request, Promised, Wrote, Touched, LastWritten
<1>1. CASE Unmet(c)
  BY <1>0, <1>1 DEF Stage, Unmet
<1>2. CASE Welcomed(c)
  <2>1. Connected(c)
    BY <1>2 DEF Welcomed, Connected
  <2>. QED BY <1>2, <2>1 DEF Stage, Welcomed
<1>3. CASE Gone(c)
  BY <1>0, <1>3 DEF Stage, Gone
<1>4. CASE Vanished(c)
  BY <1>0, <1>4 DEF Stage, Vanished
<1>5. ASSUME Rests(c) \/ Waits(c)
      PROVE  /\ pk' = pk /\ sessions' = sessions
             /\ \A k, n : Doc(c, k, n)' <=> Doc(c, k, n)
             /\ \A pc : InScript(c, pc)' <=> InScript(c, pc)
             /\ Asked(c)' = Asked(c) /\ Message(c)' = Message(c)
             /\ \A r : Answering(c, r)' <=> Answering(c, r)
  <2>1. Connected(c)
    BY <1>5 DEF Rests, Waits, InScript, Connected
  <2>2. pk' = pk /\ sessions' = sessions
    BY <2>1
  <2>3. \A k, n : Doc(c, k, n)' <=> Doc(c, k, n)
    BY <2>2 DEF Doc
  <2>4. \A pc : InScript(c, pc)' <=> InScript(c, pc)
    BY DEF InScript
  <2>5. Asked(c)' = Asked(c) /\ Message(c)' = Message(c)
    BY DEF Asked, Message
  <2>6. \A r : Answering(c, r)' <=> Answering(c, r)
    BY <2>2 DEF Answering, Doc
  <2>. QED BY <2>2, <2>3, <2>4, <2>5, <2>6
<1>6. CASE Rests(c)
  <2>1. Rests(c)'
    BY <1>0, <1>5, <1>6 DEF Rests
  <2>. QED BY <2>1 DEF Stage
<1>7. CASE Waits(c)
  <2>1. Sent(c) => Sent(c)'
    BY <1>0, <1>5, <1>7 DEF Sent
  <2>2. InThread(c) => InThread(c)'
    BY <1>0, <1>5, <1>7 DEF InThread
  <2>3. Packed(c) => Packed(c)'
    BY <1>0, <1>5, <1>7 DEF Packed
  <2>4. Returned(c) => Returned(c)'
    BY <1>0, <1>5, <1>7 DEF Returned
  <2>5. Waits(c)'
    BY <1>5, <1>7, <2>1, <2>2, <2>3, <2>4 DEF Waits
  <2>. QED BY <2>5 DEF Stage
<1>. QED BY <1>1, <1>2, <1>3, <1>4, <1>6, <1>7 DEF Stage

LEMMA InitInv == Init => IInv
<1> SUFFICES ASSUME Init PROVE IInv
  OBVIOUS
<1> USE DEF Init
<1>1. Typed
  BY DEF Typed, PerClient
<1>2. OneConnected /\ Queue
  BY DEF OneConnected, Queue, Connected, Away
<1>3. Started
  BY DEF Started, IsInjective, ToSet
<1>4. Registry
  BY DEF Registry, ToSet
<1>5. \A c \in Clients : Stage(c)
  BY DEF Stage, Unmet, Quiet
<1>. QED BY <1>1, <1>2, <1>3, <1>4, <1>5 DEF IInv

-----------------------------------------------------------------------------
(* What a step of one client, or of its thread, has to show. *)
LEMMA Alone ==
  ASSUME NEW t \in Clients, IInv, Typed',
         \A c \in Clients \ {t} : Same(c),
         Connected(t) \/ (pk' = pk /\ sessions' = sessions),
         Stage(t)'
  PROVE  \A c \in Clients : Stage(c)'
<1> SUFFICES ASSUME NEW c \in Clients \ {t} PROVE Stage(c)'
  OBVIOUS
<1>1. Stage(c) /\ Same(c)
  BY DEF IInv
<1>2. Connected(c) => pk' = pk /\ sessions' = sessions
  BY DEF IInv, OneConnected
<1>. QED BY <1>1, <1>2, Frame

LEMMA ThreadStep ==
  ASSUME NEW t \in Clients, IInv, Typed', Registry',
         \A c \in Clients \ {t} : Same(c),
         Connected(t) \/ (pk' = pk /\ sessions' = sessions),
         Stage(t)',
         client' = client, backlog' = backlog, thLanzados' = thLanzados,
         thread[t].pc /= "none", thread'[t].pc /= "none"
  PROVE  IInv'
<1>1. \A c \in Clients : thread'[c].pc = "none" <=> thread[c].pc = "none"
  BY DEF Same
<1>2. OneConnected' /\ Queue'
  BY <1>1 DEF IInv, OneConnected, Queue, Connected
<1>3. Started'
  BY <1>1 DEF IInv, Started, IsInjective, ToSet
<1>. QED BY <1>2, <1>3, Alone DEF IInv

(* Which client a thread at work can belong to. *)
LEMMA Working ==
  ASSUME NEW t \in Clients, Stage(t)
  PROVE  /\ thread[t].pc = "start" =>
              Welcomed(t) /\ thread[t] = [pc |-> "start", req |-> NULL] /\ toClient[t] = <<>>
         /\ thread[t].pc = "read" => thread[t] = [pc |-> "read", req |-> NULL] /\ sbuf[t] = <<>>
         /\ thread[t].pc = "read" /\ toServer[t] /= <<>> => Waits(t) /\ Sent(t)
         /\ thread[t].pc = "handle" => Waits(t) /\ InThread(t)
         /\ thread[t].pc = "send" => Waits(t) /\ Packed(t)
         /\ thread[t].pc = "clear" => thread[t] = [pc |-> "clear", req |-> Request(t)]
         /\ thread[t].pc = "close" => thread[t] = [pc |-> "close", req |-> NULL]
BY DEF Stage, Unmet, Welcomed, Rests, Waits, Gone, Vanished, Sent, InThread, Packed, Returned,
       Idle, Quiet, Request

(* Where a client can be, by what it does. *)
LEMMA Standing ==
  ASSUME NEW t \in Clients, Stage(t)
  PROVE  /\ client[t].pc = "away" => Unmet(t)
         /\ client[t].pc = "welcome" => Welcomed(t)
         /\ client[t].pc = "ready" => Rests(t)
         /\ client[t].pc = "reading" => Waits(t)
BY DEF Stage, Unmet, Welcomed, Rests, Waits, Gone, Vanished, InScript, Away

LEMMA StartInv ==
  ASSUME NEW t \in Clients, IInv, Start(t),
         UNCHANGED <<backlog, thLanzados, client, heard>>
  PROVE  IInv'
<1> USE DEF Start, Go, Bound
<1>1. Welcomed(t) /\ thread[t] = [pc |-> "start", req |-> NULL] /\ toClient[t] = <<>>
  BY Working DEF IInv
<1>2. Typed'
  BY DEF IInv, Typed, PerClient
<1>3. /\ thread'[t] = [pc |-> "read", req |-> NULL] /\ toClient'[t] = <<Welcome>> /\ pk' = t
      /\ \A c \in Clients \ {t} : Same(c)
  BY <1>1 DEF IInv, Typed, PerClient, Same
<1>4. Stage(t)'
  BY <1>1, <1>3 DEF Welcomed, Stage
<1>5. Connected(t)
  BY <1>1 DEF Welcomed, Connected
<1>6. Registry'
  BY DEF IInv, Registry, ToSet
<1>. QED BY <1>1, <1>2, <1>3, <1>4, <1>5, <1>6, ThreadStep

(* A read takes the only message there is. *)
LEMMA TakenAll ==
  ASSUME NEW m, NEW n \in 1..Len(<<m>>)
  PROVE  SubSeq(<<m>>, n+1, Len(<<m>>)) = <<>> /\ Head(<<m>>) = m
<1>1. n = 1 /\ Len(<<m>>) = 1
  OBVIOUS
<1>2. SubSeq(<<m>>, 2, 1) = <<>>
  OBVIOUS
<1>. QED BY <1>1, <1>2

LEMMA ReadInv ==
  ASSUME NEW t \in Clients, IInv, Read(t),
         UNCHANGED <<backlog, thLanzados, client, heard>>
  PROVE  IInv'
<1>1. PICK n \in 1..Len(toServer[t]) :
        toServer' = [toServer EXCEPT ![t] = SubSeq(@, n+1, Len(@))]
  BY DEF Read
<1>2. /\ thread[t].pc = "read"
      /\ thread' = [thread EXCEPT ![t] = [pc |-> "handle", req |-> Head(toServer[t])]]
      /\ UNCHANGED <<main, pk, sbuf, sessions, toClient>>
  BY DEF Read
<1>3. toServer[t] /= <<>>
  BY <1>1
<1>4. Waits(t) /\ Sent(t) /\ sbuf[t] = <<>>
  BY <1>2, <1>3, Working DEF IInv
<1>5. toServer[t] = <<Message(t)>> /\ toClient[t] = <<>>
  BY <1>4 DEF Sent
<1>6. SubSeq(toServer[t], n+1, Len(toServer[t])) = <<>> /\ Head(toServer[t]) = Message(t)
  BY <1>1, <1>5, TakenAll
<1>7. Typed'
  BY <1>1, <1>2 DEF IInv, Typed, PerClient
<1>8. /\ thread'[t] = [pc |-> "handle", req |-> Message(t)] /\ toServer'[t] = <<>>
      /\ \A c \in Clients \ {t} : Same(c)
  BY <1>1, <1>2, <1>6 DEF IInv, Typed, PerClient, Same
<1>9. InThread(t)'
  BY <1>2, <1>4, <1>5, <1>8 DEF Sent, InThread, Quiet, Message, Asked, Doc
<1>10. Stage(t)'
  BY <1>2, <1>4, <1>9 DEF Waits, Stage, InScript
<1>11. Registry'
  BY <1>2 DEF IInv, Registry, ToSet
<1>. QED BY <1>2, <1>7, <1>8, <1>10, <1>11, ThreadStep

LEMMA Single == ASSUME NEW r PROVE ToSet(<<r>>) = {r}
<1>1. DOMAIN <<r>> = {1} /\ <<r>>[1] = r
  OBVIOUS
<1>. QED BY <1>1 DEF ToSet

LEMMA SendInv ==
  ASSUME NEW t \in Clients, IInv, Send(t),
         UNCHANGED <<backlog, thLanzados, client, heard>>
  PROVE  IInv'
<1> USE DEF Send, Go
<1>1. Waits(t) /\ Packed(t)
  BY Working DEF IInv
<1>2. PICK r : /\ thread[t] = [pc |-> "send", req |-> Message(t)] /\ Quiet(t)
               /\ sbuf[t] = <<r>> /\ Answering(t, r)
  BY <1>1 DEF Packed
<1>3. <<>> \o <<r>> = <<r>>
  OBVIOUS
<1>4. Typed'
  BY DEF IInv, Typed, PerClient
<1>5. /\ thread'[t] = [pc |-> "clear", req |-> Message(t)] /\ toClient'[t] = <<r>>
      /\ toServer'[t] = <<>>
      /\ \A c \in Clients \ {t} : Same(c)
  BY <1>2, <1>3 DEF IInv, Typed, PerClient, Same, Quiet
<1>6. Answering(t, r)' /\ Message(t)' = Message(t) /\ Asked(t)' = Asked(t)
  BY <1>2 DEF Answering, Doc, Message, Asked
<1>7. Returned(t)'
  <2>1. Request(t)' = Message(t) /\ Message(t).method = Asked(t).method
    BY <1>5 DEF Request, Message
  <2>2. r \in ToSet(toClient'[t])
    BY <1>5, Single
  <2>. QED BY <1>5, <1>6, <2>1, <2>2 DEF Returned, Idle
<1>8. Stage(t)'
  BY <1>1, <1>7 DEF Waits, Stage, InScript
<1>9. Registry'
  BY DEF IInv, Registry, ToSet
<1>. QED BY <1>2, <1>4, <1>5, <1>8, <1>9, ThreadStep

LEMMA ClearInv ==
  ASSUME NEW t \in Clients, IInv, Clear(t),
         UNCHANGED <<backlog, thLanzados, client, heard>>
  PROVE  IInv'
<1> USE DEF Clear, Cleared, AfterHandling
<1>1. Stage(t) /\ thread[t] = [pc |-> "clear", req |-> Request(t)]
  BY Working DEF IInv
<1>2. Typed'
  BY DEF IInv, Typed, PerClient
<1>3. /\ sbuf'[t] = <<>> /\ client'[t] = client[t] /\ heard'[t] = heard[t]
      /\ toServer'[t] = toServer[t] /\ toClient'[t] = toClient[t]
      /\ thread'[t] = [pc |-> IF Request(t).method = "bye" THEN "close" ELSE "read",
                       req |-> NULL]
      /\ \A c \in Clients \ {t} : Same(c)
  BY <1>1 DEF IInv, Typed, PerClient, Same
<1>4. Idle(t) => Idle(t)'
  BY <1>1, <1>3 DEF Idle
<1>5. /\ Quiet(t)' <=> Quiet(t)
      /\ Heard(t)' <=> Heard(t)
      /\ Message(t)' = Message(t) /\ Asked(t)' = Asked(t)
      /\ \A pc : InScript(t, pc)' <=> InScript(t, pc)
      /\ \A k, n : Doc(t, k, n)' <=> Doc(t, k, n)
      /\ \A r : Answering(t, r)' <=> Answering(t, r)
  BY <1>3 DEF Quiet, Heard, Message, Asked, InScript, Doc, Answering
<1>6. Stage(t)'
  <2>1. CASE Rests(t)
    BY <1>3, <1>4, <1>5, <2>1 DEF Rests, Stage
  <2>2. CASE Waits(t) /\ Sent(t)
    BY <1>3, <1>4, <1>5, <2>2 DEF Waits, Sent, Stage
  <2>3. CASE Waits(t) /\ Returned(t)
    <3>1. Message(t).method = Asked(t).method
      BY DEF Message
    <3>2. Returned(t)'
      BY <1>1, <1>3, <1>4, <1>5, <2>3, <3>1 DEF Returned, Idle
    <3>. QED BY <1>5, <2>3, <3>2, <1>3 DEF Waits, Stage
  <2>4. CASE Gone(t)
    BY <1>1, <1>3, <1>5, <2>4 DEF Gone, Stage
  <2>5. CASE Vanished(t)
    BY <1>3, <1>4, <1>5, <2>5 DEF Vanished, Stage
  <2>. QED BY <1>1, <2>1, <2>2, <2>3, <2>4, <2>5
           DEF Stage, Unmet, Welcomed, Waits, InThread, Packed
<1>7. Registry'
  BY DEF IInv, Registry, ToSet
<1>8. thread[t].pc /= "none" /\ thread'[t].pc /= "none"
  BY <1>1, <1>3
<1>. QED BY <1>2, <1>3, <1>6, <1>7, <1>8, ThreadStep

LEMMA CloseInv ==
  ASSUME NEW t \in Clients, IInv, Close(t),
         UNCHANGED <<backlog, thLanzados, client, heard>>
  PROVE  IInv'
<1> USE DEF Close, Go
<1>1. Stage(t) /\ thread[t] = [pc |-> "close", req |-> NULL]
  BY Working DEF IInv
<1>2. Typed'
  BY DEF IInv, Typed, PerClient
<1>3. /\ client'[t] = client[t] /\ heard'[t] = heard[t]
      /\ toServer'[t] = toServer[t] /\ toClient'[t] = toClient[t]
      /\ thread'[t] = [pc |-> "done", req |-> NULL]
      /\ \A c \in Clients \ {t} : Same(c)
  BY <1>1 DEF IInv, Typed, PerClient, Same
<1>4. /\ Quiet(t)' <=> Quiet(t)
      /\ Heard(t)' <=> Heard(t)
      /\ Message(t)' = Message(t) /\ Asked(t)' = Asked(t)
      /\ \A pc : InScript(t, pc)' <=> InScript(t, pc)
      /\ \A r : Answering(t, r)' <=> Answering(t, r)
  BY <1>3 DEF Quiet, Heard, Message, Asked, InScript, Doc, Answering
<1>5. Stage(t)'
  <2>1. CASE Waits(t) /\ Returned(t)
    <3>1. Asked(t).method = "bye"
      BY <1>1, <2>1 DEF Returned, Idle
    <3>2. Returned(t)'
      BY <1>3, <1>4, <2>1, <3>1 DEF Returned
    <3>. QED BY <1>3, <1>4, <2>1, <3>2 DEF Waits, Stage
  <2>2. CASE Gone(t)
    BY <1>3, <1>4, <2>2 DEF Gone, Stage
  <2>. QED BY <1>1, <2>1, <2>2
           DEF Stage, Unmet, Welcomed, Rests, Waits, Sent, InThread, Packed, Vanished, Idle
<1>6. Registry'
  BY DEF IInv, Registry, ToSet
<1>7. thread[t].pc /= "none" /\ thread'[t].pc /= "none"
  BY <1>1, <1>3
<1>. QED BY <1>2, <1>3, <1>5, <1>6, <1>7, ThreadStep

-----------------------------------------------------------------------------
(* The head of the registry. *)
LEMMA OwnSeq ==
  ASSUME NEW S, NEW l \in Seq(S)
  PROVE  l \in Seq(ToSet(l))
<1>1. /\ Len(l) \in Nat /\ DOMAIN l = 1..Len(l) /\ l = [i \in 1..Len(l) |-> l[i]]
      /\ \A i \in 1..Len(l) : l[i] \in ToSet(l)
  BY DEF ToSet
<1>2. l \in [1..Len(l) -> ToSet(l)]
  BY <1>1
<1>. QED BY <1>1, <1>2, SeqDef

LEMMA NewHead ==
  ASSUME NEW e, sessions \in Seq(ToSet(sessions))
  PROVE  /\ LET l == <<e>> \o sessions
            IN l \in Seq(ToSet(l)) /\ l /= <<>> /\ l[1] = e
         /\ sessions /= <<>> =>
              LET l == [sessions EXCEPT ![1] = e]
              IN l \in Seq(ToSet(l)) /\ l /= <<>> /\ l[1] = e
<1> DEFINE S == ToSet(sessions) \cup {e}
           a == <<e>> \o sessions
           b == [sessions EXCEPT ![1] = e]
<1>1. sessions \in Seq(S) /\ e \in S
  BY SeqMonotonic, Zenon
<1> HIDE DEF S
<1>2. a \in Seq(S) /\ a /= <<>> /\ a[1] = e
  BY <1>1
<1>3. sessions /= <<>> => b \in Seq(S) /\ b /= <<>> /\ b[1] = e
  <2> SUFFICES ASSUME sessions /= <<>> PROVE b \in Seq(S) /\ b /= <<>> /\ b[1] = e
    OBVIOUS
  <2>1. 1 \in 1..Len(sessions)
    BY <1>1
  <2>2. b \in Seq(S) /\ Len(b) = Len(sessions) /\ b[1] = e
    BY <1>1, <2>1
  <2>. QED BY <2>1, <2>2
<1> HIDE DEF a, b
<1>4. a \in Seq(ToSet(a)) /\ (sessions /= <<>> => b \in Seq(ToSet(b)))
  BY <1>2, <1>3, OwnSeq
<1>. QED BY <1>2, <1>3, <1>4 DEF a, b

LEMMA HeadFound ==
  ASSUME NEW n, sessions \in Seq(ToSet(sessions)), sessions /= <<>>, sessions[1].id = n
  PROVE  get_session(n) = 1
<1> DEFINE I == {i \in 1..Len(sessions) : sessions[i].id = n}
<1>1. 1 \in I /\ I \subseteq Nat /\ \A i \in I : 1 <= i
  OBVIOUS
<1>2. get_session(n) = IF I # {} THEN Min(I) ELSE 0
  BY DEF get_session, SelectInSeq
<1> HIDE DEF I
<1>3. \A i \in I : i <= 1 => i = 1
  BY <1>1
<1>4. Min(I) = 1
  BY <1>1, <1>3 DEF Min
<1>. QED BY <1>1, <1>2, <1>4

(* A handler that packs one reply, the right one, and leaves the document as
   the script has it. *)
LEMMA AnswerInv ==
  ASSUME NEW t \in Clients, IInv, Waits(t), InThread(t), NEW r \in Replies, Answer(t, r),
         Promised(Script[t], client[t].at, r), client[t].at = 1 => r.val \in Nat,
         UNCHANGED <<main, pk, toServer, toClient, backlog, thLanzados, client, heard>>,
         Registry',
         client[t].at \in 1..Len(Script[t]) - 1 =>
           /\ sessions' /= <<>>
           /\ sessions'[1] = SessionAfter(Script[t], client[t].at,
                                IF client[t].at = 1 THEN r.val ELSE client[t].id)
  PROVE  IInv'
<1> USE DEF Answer, Pack, Go
<1>1. pk = t /\ thread[t] = [pc |-> "handle", req |-> Message(t)] /\ sbuf[t] = <<>> /\ Quiet(t)
  BY DEF Waits, InThread
<1>2. sbuf' = [sbuf EXCEPT ![t] = Append(@, r)] /\ thread' = [thread EXCEPT ![t].pc = "send"]
  BY <1>1
<1>3. Append(<<>>, r) = <<r>>
  OBVIOUS
<1>4. Typed'
  BY <1>2 DEF IInv, Typed, PerClient
<1>5. /\ sbuf'[t] = <<r>> /\ Quiet(t)'
      /\ thread'[t] = [pc |-> "send", req |-> Message(t)]
      /\ \A c \in Clients \ {t} : Same(c)
  BY <1>1, <1>2, <1>3 DEF IInv, Typed, PerClient, Same, Quiet
<1>6. Answering(t, r)' /\ Message(t)' = Message(t)
  BY DEF Answering, Doc, Message, Asked
<1>7. r \in ToSet(sbuf'[t])
  BY <1>5, Single
<1>8. Packed(t)'
  BY <1>5, <1>6, <1>7 DEF Packed
<1>9. Stage(t)' /\ Connected(t)
  BY <1>8 DEF Waits, InScript, Stage, Connected
<1>. QED BY <1>1, <1>4, <1>5, <1>9, ThreadStep

(* The request a thread works on, and the document it finds. *)
LEMMA AtWork ==
  ASSUME NEW t \in Clients, IInv, Waits(t), InThread(t)
  PROVE  /\ client[t].at \in 1..Len(Script[t]) /\ client[t].id \in Nat
         /\ Len(Script[t]) \in Nat /\ Script[t] \in Scripts
         /\ Request(t) = Message(t)
         /\ Request(t).method = Script[t][client[t].at].method
         /\ Request(t).at = Script[t][client[t].at].at
         /\ Request(t).val = Script[t][client[t].at].val
         /\ Request(t).method = "HELO" <=> client[t].at = 1
         /\ client[t].at > 1 =>
              /\ Index(t) = 1 /\ sessions /= <<>>
              /\ sessions[1] = SessionAfter(Script[t], client[t].at - 1, client[t].id)
         /\ client[t].at > 2 =>
              sessions[1].sheets = <<[live |-> client[t].at < Len(Script[t]),
                                      cells |-> CellsAfter(Script[t], client[t].at - 1)]>>
<1> DEFINE k == client[t].at
<1>1. k \in 1..Len(Script[t]) /\ client[t].id \in Nat
  BY DEF Waits, InScript
<1>2. Script[t] \in Scripts /\ Len(Script[t]) \in Nat
  BY ScriptFacts
<1>3. Request(t) = Message(t)
  BY DEF InThread, Request
<1>4. /\ Request(t).method = Script[t][k].method /\ Request(t).at = Script[t][k].at
      /\ Request(t).val = Script[t][k].val /\ Request(t).id = client[t].id
  BY <1>3 DEF Message, Asked
<1>5. Request(t).method = "HELO" <=> k = 1
  BY <1>1, <1>4, ScriptFacts
<1>6. ASSUME k > 1
      PROVE  /\ sessions /= <<>>
             /\ sessions[1] = SessionAfter(Script[t], k - 1, client[t].id)
  <2>1. k - 1 \in 1..Len(Script[t]) - 1
    BY <1>1, <1>2, <1>6
  <2>2. Doc(t, k - 1, client[t].id)
    BY DEF InThread
  <2>. QED BY <2>1, <2>2 DEF Doc
<1>7. ASSUME k > 1 PROVE Index(t) = 1
  <2>1. sessions[1].id = client[t].id
    BY <1>6, <1>7 DEF SessionAfter
  <2>2. sessions \in Seq(ToSet(sessions))
    BY DEF IInv, Registry
  <2>. QED BY <1>4, <1>6, <1>7, <2>1, <2>2, HeadFound DEF Index
<1>8. ASSUME k > 2
      PROVE  sessions[1].sheets = <<[live |-> k < Len(Script[t]),
                                     cells |-> CellsAfter(Script[t], k - 1)]>>
  <2>1. k > 1 /\ k - 1 /= 1 /\ (k - 1 < Len(Script[t]) - 1 <=> k < Len(Script[t]))
    BY <1>1, <1>2, <1>8
  <2>. QED BY <1>6, <2>1 DEF SessionAfter, SheetsAfter
<1>. QED BY <1>1, <1>2, <1>3, <1>4, <1>5, <1>6, <1>7, <1>8

(* The sheet of the document, when there is one. *)
LEMMA OneSheet ==
  ASSUME NEW live, NEW cells, sessions[1].sheets = <<[live |-> live, cells |-> cells]>>
  PROVE  /\ Cur(1) = 1 /\ Live(1) = {k \in {1} : live} /\ Cells(1) = cells
         /\ live => Min(Live(1)) = 1
<1>1. /\ Len(sessions[1].sheets) = 1 /\ DOMAIN sessions[1].sheets = {1}
      /\ sessions[1].sheets[1] = [live |-> live, cells |-> cells]
  OBVIOUS
<1>2. Cur(1) = 1 /\ Cells(1) = cells
  BY <1>1 DEF Cur, Cells
<1>3. Live(1) = {k \in {1} : live}
  BY <1>1 DEF Live
<1>4. live => Min({k \in {1} : live}) = 1
  BY DEF Min
<1>. QED BY <1>2, <1>3, <1>4

LEMMA NoFault ==
  ASSUME NEW t \in Clients, IInv, Waits(t), InThread(t)
  PROVE  Faults(t) = {FALSE}
<1> DEFINE k == client[t].at
           method == Request(t).method
<1>1. /\ k \in 1..Len(Script[t]) /\ Len(Script[t]) \in Nat
      /\ method = Script[t][k].method
      /\ method = "HELO" <=> k = 1
      /\ k > 1 => Index(t) = 1
      /\ k > 2 => sessions[1].sheets = <<[live |-> k < Len(Script[t]),
                                          cells |-> CellsAfter(Script[t], k - 1)]>>
  BY AtWork
<1>2. thread[pk].pc /= "done"
  BY DEF Waits, InThread
<1>3. CASE k = 1
  <2>1. method = "HELO"
    BY <1>1, <1>3
  <2>. QED BY <1>2, <2>1 DEF Faults
<1>4. CASE k = 2
  <2>1. method = "create_sheet" /\ Index(t) = 1
    BY <1>1, <1>4, ScriptFacts
  <2>. QED BY <1>2, <2>1 DEF Faults
<1>5. CASE k = Len(Script[t])
  <2>1. method = "bye"
    BY <1>1, <1>5, ScriptFacts
  <2>2. k > 1
    BY <1>1, <1>5, ScriptFacts DEF Scripts
  <2>3. Index(t) = 1
    BY <1>1, <2>2
  <2>. QED BY <1>2, <2>1, <2>3 DEF Faults
<1>6. CASE k > 2 /\ k < Len(Script[t])
  <2>1. /\ Index(t) = 1 /\ method \notin {"HELO", "bye"}
        /\ Cur(Index(t)) = 1 /\ Live(Index(t)) = {1}
    <3>1. Cur(1) = 1 /\ Live(1) = {j \in {1} : k < Len(Script[t])}
      BY <1>1, <1>6, OneSheet
    <3>2. method /= "bye"
      BY <1>1, <1>6, ScriptFacts
    <3>. QED BY <1>1, <1>6, <3>1, <3>2
  <2>2. /\ ~(method = "bye" /\ Index(t) > 1 /\ sessions[2].freed)
        /\ ~(method \notin {"HELO", "bye"} /\ Index(t) = 0)
        /\ ~(method = "delete_sheet" /\ Index(t) > 0 /\ Live(Index(t)) = {})
        /\ ~(method \in {"set_val", "get_val", "get_cell"} /\ Index(t) > 0 /\ Cur(Index(t)) = 0)
        /\ ~(thread[pk].pc = "done"
             \/ (method \in {"set_val", "get_val", "get_cell"} /\ Cur(Index(t)) \notin Live(Index(t))))
    BY <1>2, <2>1
  <2>. HIDE DEF method
  <2>. QED BY <2>2, Zenon DEF Faults, method
<1>7. k = 1 \/ k = 2 \/ k = Len(Script[t]) \/ (k > 2 /\ k < Len(Script[t]))
  BY <1>1
<1>. QED BY <1>3, <1>4, <1>5, <1>6, <1>7

LEMMA HELOInv ==
  ASSUME NEW t \in Clients, IInv, Waits(t), InThread(t), Request(t).method = "HELO", HELO(t),
         UNCHANGED <<main, pk, toServer, toClient, backlog, thLanzados, client, heard>>
  PROVE  IInv'
<1>1. /\ client[t].at = 1 /\ Script[t][1].method = "HELO"
      /\ Len(Script[t]) \in Nat
  BY AtWork
<1>2. NextId \in Nat
  BY DEF NextId, IInv, Registry
<1>3. Id(NextId) \in Replies /\ Id(NextId).key = "id" /\ Id(NextId).val = NextId
  BY <1>2 DEF Id, Replies
<1>4. /\ sessions' \in Seq(ToSet(sessions')) /\ sessions' /= <<>>
      /\ sessions'[1] = [id |-> NextId, sheets |-> <<>>, freed |-> FALSE]
  BY NewHead DEF HELO, IInv, Registry
<1>5. sessions'[1] = SessionAfter(Script[t], 1, NextId) /\ Registry'
  BY <1>2, <1>4 DEF SessionAfter, SheetsAfter, Registry
<1>6. Promised(Script[t], 1, Id(NextId))
  BY <1>1, <1>3 DEF Promised
<1>7. Answer(t, Id(NextId))
  BY DEF HELO
<1>. QED BY <1>1, <1>2, <1>3, <1>4, <1>5, <1>6, <1>7, AnswerInv

(* The handlers that work on the head, which stays what it was but for its
   sheets. *)
LEMMA HeadInv ==
  ASSUME NEW t \in Clients, IInv, Waits(t), InThread(t), client[t].at > 1,
         NEW r \in Replies, Answer(t, r), Promised(Script[t], client[t].at, r),
         sessions' = [sessions EXCEPT ![1] =
           [sessions[1] EXCEPT !.sheets = SheetsAfter(Script[t], client[t].at)]],
         UNCHANGED <<main, pk, toServer, toClient, backlog, thLanzados, client, heard>>
  PROVE  IInv'
<1>1. /\ sessions /= <<>> /\ client[t].id \in Nat
      /\ sessions[1] = SessionAfter(Script[t], client[t].at - 1, client[t].id)
  BY AtWork
<1>2. [sessions[1] EXCEPT !.sheets = SheetsAfter(Script[t], client[t].at)]
        = SessionAfter(Script[t], client[t].at, client[t].id)
  <2>1. PICK f : f = FALSE
    OBVIOUS
  <2>2. sessions[1] = [id |-> client[t].id,
                       sheets |-> SheetsAfter(Script[t], client[t].at - 1), freed |-> f]
    BY <1>1, <2>1, Zenon DEF SessionAfter
  <2>3. [sessions[1] EXCEPT !.sheets = SheetsAfter(Script[t], client[t].at)]
          = [id |-> client[t].id, sheets |-> SheetsAfter(Script[t], client[t].at), freed |-> f]
    BY <2>2
  <2>. QED BY <2>1, <2>3, Zenon DEF SessionAfter
<1>3. /\ sessions' \in Seq(ToSet(sessions')) /\ sessions' /= <<>>
      /\ sessions'[1] = SessionAfter(Script[t], client[t].at, client[t].id)
  BY <1>1, <1>2, NewHead DEF IInv, Registry
<1>4. Registry'
  BY <1>1, <1>3 DEF Registry, SessionAfter
<1>5. /\ client[t].at = 1 => r.val \in Nat
      /\ sessions'[1] = SessionAfter(Script[t], client[t].at,
                                     IF client[t].at = 1 THEN r.val ELSE client[t].id)
  BY <1>3
<1>. QED BY <1>3, <1>4, <1>5, AnswerInv

LEMMA CreateSheetInv ==
  ASSUME NEW t \in Clients, IInv, Waits(t), InThread(t), Request(t).method = "create_sheet",
         create_sheet(t, Index(t)),
         UNCHANGED <<main, pk, toServer, toClient, backlog, thLanzados, client, heard>>
  PROVE  IInv'
<1>1. /\ client[t].at = 2 /\ Script[t][2].method = "create_sheet"
      /\ Script[t] \in Scripts /\ Len(Script[t]) \in Nat /\ Index(t) = 1
      /\ sessions[1] = SessionAfter(Script[t], 1, client[t].id)
  <2>1. client[t].at \in 1..Len(Script[t]) /\ Script[t][client[t].at].method = "create_sheet"
    BY AtWork
  <2>2. client[t].at = 2
    BY <2>1, ScriptFacts
  <2>3. client[t].at > 1
    BY <2>2
  <2>5. Index(t) = 1 /\ sessions[1] = SessionAfter(Script[t], client[t].at - 1, client[t].id)
    BY <2>3, AtWork
  <2>4. Script[t] \in Scripts /\ Len(Script[t]) \in Nat /\ 2 - 1 = 1
    BY ScriptFacts
  <2>. QED BY <2>1, <2>2, <2>4, <2>5
<1>2. Ret(0) \in Replies /\ Promised(Script[t], 2, Ret(0))
  BY <1>1 DEF Ret, Replies, Promised
<1>3. Uses(Script[t], 2) = {}
  <2>1. \A j \in 1..2 : j \in 1..Len(Script[t]) /\ j \notin 3..Len(Script[t]) - 2
    BY <1>1 DEF Scripts
  <2>2. \A j \in 1..2 : Script[t][j].method \notin {"set_val", "get_val"}
    BY <2>1, ScriptFacts
  <2>. QED BY <2>2 DEF Uses
<1>4. CellsAfter(Script[t], 2) = <<>>
  BY <1>3 DEF CellsAfter
<1>5. SheetsAfter(Script[t], 2) = <<[live |-> TRUE, cells |-> <<>>]>>
  <2>1. (2 < Len(Script[t]) - 1) = TRUE /\ 2 /= 1
    BY <1>1 DEF Scripts
  <2>. QED BY <1>4, <2>1, Zenon DEF SheetsAfter
<1>6. sessions[1].sheets = <<>>
  BY <1>1 DEF SessionAfter, SheetsAfter
<1>7. sessions' = [sessions EXCEPT ![1] =
                     [sessions[1] EXCEPT !.sheets = SheetsAfter(Script[t], 2)]]
  <2>1. sessions' = [sessions EXCEPT ![1] =
          [sessions[1] EXCEPT !.sheets = Append(@, [live |-> TRUE, cells |-> <<>>])]]
    BY <1>1 DEF create_sheet
  <2>2. Append(<<>>, [live |-> TRUE, cells |-> <<>>]) = <<[live |-> TRUE, cells |-> <<>>]>>
    OBVIOUS
  <2>. QED BY <1>5, <1>6, <2>1, <2>2
<1>8. Answer(t, Ret(0))
  BY DEF create_sheet
<1>9. /\ client[t].at > 1 /\ Promised(Script[t], client[t].at, Ret(0))
      /\ sessions' = [sessions EXCEPT ![1] =
           [sessions[1] EXCEPT !.sheets = SheetsAfter(Script[t], client[t].at)]]
  BY <1>1, <1>2, <1>7
<1>. QED BY <1>2, <1>8, <1>9, HeadInv

LEMMA DeleteSheetInv ==
  ASSUME NEW t \in Clients, IInv, Waits(t), InThread(t), Request(t).method = "delete_sheet",
         delete_sheet(t, Index(t)),
         UNCHANGED <<main, pk, toServer, toClient, backlog, thLanzados, client, heard>>
  PROVE  IInv'
<1> DEFINE k == client[t].at
<1>1. /\ k = Len(Script[t]) - 1 /\ k > 2 /\ k \in Nat
      /\ Script[t][k].method = "delete_sheet" /\ k \in 1..Len(Script[t])
      /\ Script[t] \in Scripts /\ Len(Script[t]) \in Nat /\ Index(t) = 1
      /\ sessions[1].sheets = <<[live |-> k < Len(Script[t]),
                                 cells |-> CellsAfter(Script[t], k - 1)]>>
  <2>1. k \in 1..Len(Script[t]) /\ Script[t][k].method = "delete_sheet"
    BY AtWork
  <2>2. k = Len(Script[t]) - 1
    BY <2>1, ScriptFacts
  <2>3. Len(Script[t]) >= 4 /\ Len(Script[t]) \in Nat /\ Script[t] \in Scripts
    BY ScriptFacts DEF Scripts
  <2>4. k > 2 /\ k \in Nat
    BY <2>2, <2>3
  <2>5. /\ Index(t) = 1
        /\ sessions[1].sheets = <<[live |-> k < Len(Script[t]),
                                   cells |-> CellsAfter(Script[t], k - 1)]>>
    BY <2>4, AtWork
  <2>. QED BY <2>1, <2>2, <2>3, <2>4, <2>5
<1>2. Ret(0) \in Replies /\ Promised(Script[t], k, Ret(0))
  BY <1>1 DEF Ret, Replies, Promised
<1>3. CellsAfter(Script[t], k) = CellsAfter(Script[t], k - 1)
  <2>1. k - 1 \in 0..Len(Script[t]) - 1 /\ (k - 1) + 1 = k
    BY <1>1
  <2>2. Script[t][(k - 1) + 1].method \notin {"set_val", "get_val"}
    BY <1>1, <2>1
  <2>. QED BY <1>1, <2>1, <2>2, CellsStep
<1>4. SheetsAfter(Script[t], k) = <<[live |-> FALSE, cells |-> CellsAfter(Script[t], k - 1)]>>
  <2>1. k /= 1 /\ (k < Len(Script[t]) - 1) = FALSE
    BY <1>1
  <2>. QED BY <1>3, <2>1, Zenon DEF SheetsAfter
<1>5. Min(Live(1)) = 1 /\ sessions[1].sheets = <<[live |-> TRUE, cells |-> CellsAfter(Script[t], k - 1)]>>
  <2>1. (k < Len(Script[t])) = TRUE
    BY <1>1
  <2>2. sessions[1].sheets = <<[live |-> TRUE, cells |-> CellsAfter(Script[t], k - 1)]>>
    BY <1>1, <2>1, Zenon
  <2>. QED BY <2>2, OneSheet
<1>6. sessions' = [sessions EXCEPT ![1] =
                     [sessions[1] EXCEPT !.sheets = SheetsAfter(Script[t], k)]]
  <2>1. sessions' = [sessions EXCEPT ![1] =
          [sessions[1] EXCEPT !.sheets =
            [sessions[1].sheets EXCEPT ![1] = [sessions[1].sheets[1] EXCEPT !.live = FALSE]]]]
    BY <1>1, <1>5 DEF delete_sheet
  <2>2. PICK f, g : f = FALSE /\ g = TRUE
    OBVIOUS
  <2>3. sessions[1].sheets = <<[live |-> g, cells |-> CellsAfter(Script[t], k - 1)]>>
    BY <1>5, <2>2, Zenon
  <2>4. [sessions[1].sheets EXCEPT ![1] = [sessions[1].sheets[1] EXCEPT !.live = f]]
          = <<[live |-> f, cells |-> CellsAfter(Script[t], k - 1)]>>
    BY <2>3
  <2>5. [sessions[1].sheets EXCEPT ![1] = [sessions[1].sheets[1] EXCEPT !.live = FALSE]]
          = SheetsAfter(Script[t], k)
    BY <1>4, <2>2, <2>4, Zenon
  <2>. QED BY <2>1, <2>5, Zenon
<1>7. Answer(t, Ret(0))
  BY DEF delete_sheet
<1>8. k > 1
  BY <1>1
<1>. QED BY <1>2, <1>6, <1>7, <1>8, HeadInv

(* A request for a cell: the sheet's cells become those the script has after
   it, and the reply carries the number last written. *)
LEMMA AtCell ==
  ASSUME NEW t \in Clients, IInv, Waits(t), InThread(t),
         Request(t).method \in {"set_val", "get_val", "get_cell"}
  PROVE  LET s == Script[t]
             k == client[t].at
             cells == CellsAfter(s, k - 1)
             after == CellsAfter(s, k)
             at == Request(t).at
             live == k < Len(Script[t])
         IN /\ k > 1 /\ Index(t) = 1 /\ sessions[1].sheets = <<[live |-> TRUE, cells |-> cells]>>
            /\ Cells(Index(t)) = cells
            /\ SheetsAfter(s, k) = <<[live |-> TRUE, cells |-> after]>>
            /\ Request(t).method = s[k].method /\ s[k].at = at
            /\ s[k].method = "set_val" => after = Written(cells, at, Request(t).val)
            /\ s[k].method = "get_val" => after = lookat(cells, at) /\ after[at] = LastWritten(s, k)
            /\ s[k].method = "get_cell" => after = cells
            /\ at \in DOMAIN cells <=> Touched(s, k) /= {}
            /\ at \in DOMAIN cells => cells[at] = LastWritten(s, k)
            /\ Val(LastWritten(s, k)) \in Replies
<1> DEFINE s == Script[t]
           k == client[t].at
<1>1. /\ k \in 1..Len(s) /\ Len(s) \in Nat /\ s \in Scripts
      /\ Request(t).method = s[k].method /\ Request(t).at = s[k].at /\ Request(t).val = s[k].val
  BY AtWork
<1>2. k \in 3..Len(s) - 2
  BY <1>1, ScriptFacts
<1>3. k > 1 /\ k > 2 /\ (k < Len(s)) = TRUE /\ (k < Len(s) - 1) = TRUE /\ k /= 1
  BY <1>1, <1>2
<1>4. /\ Index(t) = 1
      /\ sessions[1].sheets = <<[live |-> k < Len(s), cells |-> CellsAfter(s, k - 1)]>>
  BY <1>3, AtWork
<1>5. sessions[1].sheets = <<[live |-> TRUE, cells |-> CellsAfter(s, k - 1)]>>
  BY <1>3, <1>4, Zenon
<1>6. Cells(Index(t)) = CellsAfter(s, k - 1)
  BY <1>4, <1>5, OneSheet
<1>7. SheetsAfter(s, k) = <<[live |-> TRUE, cells |-> CellsAfter(s, k)]>>
  BY <1>3, Zenon DEF SheetsAfter
<1>8. k - 1 \in 0..Len(s) - 1 /\ (k - 1) + 1 = k
  BY <1>1, <1>3
<1>9. /\ s[k].method = "set_val" => CellsAfter(s, k) = Written(CellsAfter(s, k - 1), s[k].at, s[k].val)
      /\ s[k].method = "get_val" => /\ CellsAfter(s, k) = lookat(CellsAfter(s, k - 1), s[k].at)
                                    /\ CellsAfter(s, k)[s[k].at] = LastWritten(s, k)
      /\ s[k].method \notin {"set_val", "get_val"} => CellsAfter(s, k) = CellsAfter(s, k - 1)
      /\ s[k].at \in DOMAIN CellsAfter(s, k - 1) <=> Touched(s, k) /= {}
      /\ s[k].at \in DOMAIN CellsAfter(s, k - 1) => CellsAfter(s, k - 1)[s[k].at] = LastWritten(s, k)
      /\ LastWritten(s, k) \in Int
  <2> HIDE DEF s, k
  <2>. QED BY <1>1, <1>8, CellsStep
<1>10. Val(LastWritten(s, k)) \in Replies
  BY <1>9 DEF Val, Replies
<1>. QED BY <1>1, <1>3, <1>4, <1>5, <1>6, <1>7, <1>9, <1>10

LEMMA WrittenInv ==
  ASSUME NEW t \in Clients, IInv, Waits(t), InThread(t), client[t].at > 1,
         NEW r \in Replies, Answer(t, r), Promised(Script[t], client[t].at, r),
         NEW old, NEW cells, NEW live, sessions[1].sheets = <<[live |-> live, cells |-> old]>>,
         SheetsAfter(Script[t], client[t].at) = <<[live |-> live, cells |-> cells]>>,
         sessions' = [sessions EXCEPT ![1] = WithCells(@, cells)],
         UNCHANGED <<main, pk, toServer, toClient, backlog, thLanzados, client, heard>>
  PROVE  IInv'
<1> DEFINE x == sessions[1]
<1>1. Len(x.sheets) = 1
  OBVIOUS
<1>2. WithCells(x, cells)
        = [x EXCEPT !.sheets = [x.sheets EXCEPT ![1] = [x.sheets[1] EXCEPT !.cells = cells]]]
  BY <1>1 DEF WithCells
<1>3. [x.sheets EXCEPT ![1] = [x.sheets[1] EXCEPT !.cells = cells]]
        = SheetsAfter(Script[t], client[t].at)
  OBVIOUS
<1>4. sessions' = [sessions EXCEPT ![1] =
                     [x EXCEPT !.sheets = SheetsAfter(Script[t], client[t].at)]]
  BY <1>2, <1>3, Zenon
<1>. QED BY <1>4, HeadInv

LEMMA SetValInv ==
  ASSUME NEW t \in Clients, IInv, Waits(t), InThread(t), Request(t).method = "set_val",
         set_val(t, Index(t)),
         UNCHANGED <<main, pk, toServer, toClient, backlog, thLanzados, client, heard>>
  PROVE  IInv'
<1> DEFINE s == Script[t]
           k == client[t].at
<1>1. /\ k > 1 /\ Index(t) = 1
      /\ sessions[1].sheets = <<[live |-> TRUE, cells |-> CellsAfter(s, k - 1)]>>
      /\ SheetsAfter(s, k) = <<[live |-> TRUE, cells |-> CellsAfter(s, k)]>>
      /\ s[k].method = "set_val"
      /\ Written(Cells(1), Request(t).at, Request(t).val) = CellsAfter(s, k)
  BY AtCell
<1>2. sessions' = [sessions EXCEPT ![1] = WithCells(@, CellsAfter(s, k))]
  BY <1>1, Zenon DEF set_val
<1>3. Ret(0) \in Replies /\ Promised(s, k, Ret(0)) /\ Answer(t, Ret(0))
  BY <1>1 DEF Ret, Replies, Promised, set_val
<1>. QED BY <1>1, <1>2, <1>3, WrittenInv

LEMMA GetValInv ==
  ASSUME NEW t \in Clients, IInv, Waits(t), InThread(t), Request(t).method = "get_val",
         get_val(t, Index(t)),
         UNCHANGED <<main, pk, toServer, toClient, backlog, thLanzados, client, heard>>
  PROVE  IInv'
<1> DEFINE s == Script[t]
           k == client[t].at
<1>1. /\ k > 1 /\ Index(t) = 1
      /\ sessions[1].sheets = <<[live |-> TRUE, cells |-> CellsAfter(s, k - 1)]>>
      /\ SheetsAfter(s, k) = <<[live |-> TRUE, cells |-> CellsAfter(s, k)]>>
      /\ s[k].method = "get_val" /\ Val(LastWritten(s, k)) \in Replies
      /\ lookat(Cells(1), Request(t).at) = CellsAfter(s, k)
      /\ CellsAfter(s, k)[Request(t).at] = LastWritten(s, k)
  BY AtCell
<1>2. sessions' = [sessions EXCEPT ![1] = WithCells(@, CellsAfter(s, k))]
  BY <1>1, Zenon DEF get_val
<1>3. Answer(t, Val(LastWritten(s, k))) /\ Promised(s, k, Val(LastWritten(s, k)))
  BY <1>1 DEF get_val, Promised
<1>. QED BY <1>1, <1>2, <1>3, WrittenInv

LEMMA GetCellInv ==
  ASSUME NEW t \in Clients, IInv, Waits(t), InThread(t), Request(t).method = "get_cell",
         get_cell(t, Index(t)),
         UNCHANGED <<main, pk, toServer, toClient, backlog, thLanzados, client, heard>>
  PROVE  IInv'
<1> DEFINE s == Script[t]
           k == client[t].at
           r == IF Touched(s, k) = {} THEN Ret(-1) ELSE Val(LastWritten(s, k))
<1>1. /\ k > 1 /\ Index(t) = 1
      /\ sessions[1].sheets = <<[live |-> TRUE, cells |-> CellsAfter(s, k - 1)]>>
      /\ SheetsAfter(s, k) = <<[live |-> TRUE, cells |-> CellsAfter(s, k - 1)]>>
      /\ s[k].method = "get_cell" /\ Val(LastWritten(s, k)) \in Replies
      /\ Request(t).at \in DOMAIN Cells(1) <=> Touched(s, k) /= {}
      /\ Request(t).at \in DOMAIN Cells(1) => Cells(1)[Request(t).at] = LastWritten(s, k)
  BY AtCell, ZenonT(40)
<1>2. sessions[1].sheets = SheetsAfter(s, k)
  BY <1>1, Zenon
<1>3. sessions \in Seq(ToSet(sessions)) /\ sessions /= <<>> /\ k \in 1..Len(Script[t])
      /\ sessions[1] = SessionAfter(Script[t], k - 1, client[t].id)
  BY <1>1, AtWork DEF IInv, Registry
<1>4. sessions[1] = SessionAfter(Script[t], k, client[t].id)
  <2>1. SheetsAfter(s, k - 1) = sessions[1].sheets
    BY <1>3 DEF SessionAfter
  <2>. QED BY <1>2, <1>3, <2>1, Zenon DEF SessionAfter
<1>5. r \in Replies /\ Promised(s, k, r)
  BY <1>1 DEF Ret, Replies, Promised
<1>6. Answer(t, r) /\ sessions' = sessions
  BY <1>1 DEF get_cell
<1>7. Registry'
  BY <1>6 DEF IInv, Registry
<1>8. k /= 1
  BY <1>1
<1>. QED BY <1>3, <1>4, <1>5, <1>6, <1>7, <1>8, AnswerInv

LEMMA ByeInv ==
  ASSUME NEW t \in Clients, IInv, Waits(t), InThread(t), Request(t).method = "bye",
         bye(t, Index(t)),
         UNCHANGED <<main, pk, toServer, toClient, backlog, thLanzados, client, heard>>
  PROVE  IInv'
<1> DEFINE s == Script[t]
           k == client[t].at
<1>1. k \in 1..Len(s) /\ s[k].method = "bye"
  BY AtWork
<1>2. k = Len(s) /\ Len(s) \in Nat /\ Len(s) >= 4
  BY <1>1, ScriptFacts DEF Scripts
<1>3. k > 1
  BY <1>2
<1>4. Index(t) = 1
  BY <1>3, AtWork
<1>5. sessions' = <<>> /\ Answer(t, Ret(0))
  BY <1>4 DEF bye
<1>6. Ret(0) \in Replies /\ Promised(s, k, Ret(0))
  BY <1>1 DEF Ret, Replies, Promised
<1>7. Registry'
  BY <1>5 DEF Registry, ToSet
<1>8. k /= 1 /\ k \notin 1..Len(s) - 1
  <2> HIDE DEF k, s
  <2>. QED BY <1>2
<1>. QED BY <1>5, <1>6, <1>7, <1>8, AnswerInv

LEMMA HandleInv ==
  ASSUME NEW t \in Clients, IInv, Handle(t),
         UNCHANGED <<backlog, thLanzados, client, heard>>
  PROVE  IInv'
<1>1. Waits(t) /\ InThread(t)
  BY Working DEF IInv, Handle
<1>2. Works(t) /\ UNCHANGED <<main, pk, toServer, toClient, backlog, thLanzados, client, heard>>
  BY <1>1, NoFault DEF Handle
<1>. QED BY <1>1, <1>2, HELOInv, CreateSheetInv, DeleteSheetInv, SetValInv, GetValInv,
         GetCellInv, ByeInv DEF Works

-----------------------------------------------------------------------------
(* The main thread *)
LEMMA AcceptInv ==
  ASSUME IInv, Accept,
         UNCHANGED <<got_SIGINT, pk, sbuf, sessions, toServer, toClient, client, heard>>
  PROVE  /\ IInv'
         /\ \E t \in Clients : t \notin ToSet(thLanzados)
<1>1. PICK t \in Clients : backlog = <<t>> /\ client[t].pc = "welcome" /\ thread[t].pc = "none"
  BY DEF IInv, Queue, Accept
<1>2. Head(<<t>>) = t /\ Tail(<<t>>) = <<>>
  OBVIOUS
<1>3. /\ backlog' = <<>> /\ thLanzados' = Append(thLanzados, t)
      /\ thread' = [thread EXCEPT ![t].pc = "start"]
  BY <1>1, <1>2 DEF Accept
<1>4. Welcomed(t) /\ thread[t] = [pc |-> "none", req |-> NULL] /\ toClient[t] = <<>>
  BY <1>1, Standing DEF IInv, Welcomed
<1>5. Typed'
  BY <1>3 DEF IInv, Typed, PerClient, Accept
<1>6. /\ thread'[t] = [pc |-> "start", req |-> NULL]
      /\ \A c \in Clients \ {t} : Same(c)
  BY <1>3, <1>4 DEF IInv, Typed, PerClient, Same
<1>7. Stage(t)'
  BY <1>4, <1>6 DEF Welcomed, Stage
<1>8. OneConnected' /\ Queue' /\ Registry'
  BY <1>3 DEF IInv, OneConnected, Connected, Queue, Registry
<1>9. thLanzados \in Seq(Clients) /\ IsInjective(thLanzados) /\ t \notin ToSet(thLanzados)
  BY <1>1 DEF IInv, Started
<1>10. Started'
  <2>1. /\ thLanzados' \in Seq(Clients) /\ IsInjective(thLanzados')
        /\ ToSet(thLanzados') = ToSet(thLanzados) \cup {t}
    BY <1>3, <1>9, AppendedProperties
  <2>2. \A c \in Clients : thread'[c].pc /= "none" <=> c = t \/ thread[c].pc /= "none"
    BY <1>6 DEF Same
  <2>3. \A c \in Clients : c \in ToSet(thLanzados') <=> thread'[c].pc /= "none"
    BY <2>1, <2>2 DEF IInv, Started
  <2>. QED BY <2>1, <2>3 DEF Started
<1>11. IInv'
  <2>1. \A c \in Clients : Stage(c)'
    BY <1>5, <1>6, <1>7, Alone
  <2>. QED BY <1>5, <1>8, <1>10, <2>1 DEF IInv
<1>. QED BY <1>9, <1>11

(* The steps that concern no client. *)
LEMMA AloneNone ==
  ASSUME IInv, main' \in {"check", "accept", "join", "ended", "crashed"},
         UNCHANGED <<backlog, thLanzados, pk, sbuf, thread, sessions, toServer, toClient,
                     client, heard>>
  PROVE  IInv'
<1>1. \A c \in Clients : Stage(c)'
  BY Frame DEF IInv, Same
<1>2. Typed' /\ OneConnected' /\ Queue' /\ Started' /\ Registry'
  BY DEF IInv, Typed, PerClient, OneConnected, Connected, Queue, Started, Registry
<1>. QED BY <1>1, <1>2 DEF IInv

LEMMA MainInv ==
  ASSUME IInv, Main PROVE IInv'
<1>1. CASE Check
  BY <1>1, AloneNone DEF Check, Main, clients
<1>2. CASE Accept
  BY <1>2, AcceptInv DEF Main, clients
<1>3. CASE Join
  BY <1>3, AloneNone DEF Join, Main, clients
<1>. QED BY <1>1, <1>2, <1>3 DEF Main

-----------------------------------------------------------------------------
(* The clients *)
LEMMA ClientStep ==
  ASSUME NEW t \in Clients, IInv, Serverless, thLanzados' = thLanzados, main' = main,
         PerClient(client'), PerClient(heard'), PerClient(toServer'), PerClient(toClient'),
         \A c \in Clients \ {t} : Same(c),
         OneConnected', Queue', Stage(t)'
  PROVE  IInv'
<1>1. Typed' /\ Started' /\ Registry'
  BY DEF IInv, Typed, PerClient, Started, Registry, Serverless
<1>2. \A c \in Clients : Stage(c)'
  BY <1>1, Alone DEF Serverless
<1>. QED BY <1>1, <1>2 DEF IInv

LEMMA ConnectInv ==
  ASSUME NEW t \in Clients, ~Overlap, IInv, Connect(t), Serverless
  PROVE  IInv'
<1> USE DEF Connect, Serverless
<1>1. Unmet(t)
  BY Standing DEF IInv
<1>2. \A c \in Clients : ~Connected(c)
  OBVIOUS
<1>3. backlog = <<>> /\ backlog' = <<t>>
  <2>1. backlog = <<>>
    BY <1>2 DEF IInv, Queue, Connected
  <2>2. Append(<<>>, t) = <<t>>
    OBVIOUS
  <2>. QED BY <2>1, <2>2
<1>4. /\ client'[t] = [pc |-> "welcome", at |-> 1, id |-> 0]
      /\ PerClient(client') /\ \A c \in Clients \ {t} : Same(c)
  BY <1>1 DEF IInv, Typed, PerClient, Same, Unmet, Away
<1>5. Stage(t)'
  BY <1>1, <1>4 DEF Unmet, Welcomed, Stage, Quiet
<1>6. OneConnected'
  BY <1>2, <1>4 DEF OneConnected, Connected, Same
<1>7. Queue'
  BY <1>1, <1>3, <1>4 DEF Queue, Unmet
<1>8. PerClient(heard') /\ PerClient(toServer') /\ PerClient(toClient')
  BY DEF IInv, Typed, PerClient
<1>. QED BY <1>4, <1>5, <1>6, <1>7, <1>8, ClientStep

LEMMA VanishInv ==
  ASSUME NEW t \in Clients, KillPoints \subseteq {"ready"}, IInv, Vanish(t), Serverless
  PROVE  IInv'
<1> USE DEF Vanish, Serverless, server
<1>1. Rests(t)
  BY Standing DEF IInv
<1>2. /\ client'[t] = [pc |-> "killed", at |-> 0, id |-> 0] /\ heard'[t] = NULL
      /\ toClient'[t] = <<>> /\ client'[t].pc = "killed"
      /\ PerClient(client') /\ \A c \in Clients \ {t} : Same(c)
  BY DEF IInv, Typed, PerClient, Same, Away
<1>3. Stage(t)'
  BY <1>1, <1>2 DEF Rests, Vanished, Stage, Quiet, Idle, Request
<1>4. OneConnected'
  BY <1>2 DEF IInv, OneConnected, Connected, Same
<1>5. Queue'
  BY <1>1, <1>2 DEF IInv, Queue, Rests, InScript, Same
<1>6. PerClient(heard') /\ PerClient(toServer') /\ PerClient(toClient')
  BY DEF IInv, Typed, PerClient
<1>. QED BY <1>2, <1>3, <1>4, <1>5, <1>6, ClientStep

LEMMA ReadWelcomeInv ==
  ASSUME NEW t \in Clients, IInv, ReadWelcome(t), Serverless
  PROVE  IInv'
<1> USE DEF ReadWelcome, Serverless, server
<1>1. Welcomed(t)
  BY Standing DEF IInv
<1>2. PICK n \in 1..Len(toClient[t]) :
        toClient' = [toClient EXCEPT ![t] = SubSeq(@, n+1, Len(@))]
  BY DEF Taken
<1>3. toClient[t] /= <<>>
  BY <1>2
<1>4. /\ toClient[t] = <<Welcome>> /\ pk = t /\ thread[t] = [pc |-> "read", req |-> NULL]
      /\ client[t] = [pc |-> "welcome", at |-> 1, id |-> 0]
      /\ toServer[t] = <<>> /\ heard[t] = NULL /\ sbuf[t] = <<>>
  BY <1>1, <1>3 DEF Welcomed
<1>5. SubSeq(toClient[t], n+1, Len(toClient[t])) = <<>>
  BY <1>2, <1>4, TakenAll
<1>6. /\ client'[t] = [pc |-> "ready", at |-> 1, id |-> 0] /\ toClient'[t] = <<>>
      /\ PerClient(client') /\ PerClient(heard') /\ PerClient(toServer') /\ PerClient(toClient')
      /\ \A c \in Clients \ {t} : Same(c)
  <2>1. client'[t] = [pc |-> "ready", at |-> 1, id |-> 0]
    BY <1>4 DEF IInv, Typed, PerClient
  <2>. QED BY <2>1, <1>2, <1>4, <1>5 DEF IInv, Typed, PerClient, Same
<1>7. Stage(t)'
  <2>1. 1 \in 1..Len(Script[t]) /\ 1 - 1 \notin 1..Len(Script[t]) - 1
    BY ScriptFacts DEF Scripts
  <2>2. Rests(t)'
    BY <1>4, <1>6, <2>1 DEF Rests, InScript, Quiet, Idle, Doc, Heard
  <2>. QED BY <2>2 DEF Stage
<1>8. OneConnected'
  BY <1>6 DEF IInv, OneConnected, Connected, Same
<1>9. Queue'
  BY <1>4, <1>6 DEF IInv, Queue, Same
<1>. QED BY <1>6, <1>7, <1>8, <1>9, ClientStep

LEMMA AskInv ==
  ASSUME NEW t \in Clients, IInv, Ask(t), Serverless
  PROVE  IInv'
<1> USE DEF Ask, Serverless, server
<1>1. Rests(t)
  BY Standing DEF IInv
<1>2. Append(<<>>, Message(t)) = <<Message(t)>>
  OBVIOUS
<1>3. toServer' = [toServer EXCEPT ![t] = Append(@, Message(t))]
  BY DEF Message
<1>4. client[t] = [pc |-> "ready", at |-> client[t].at, id |-> client[t].id]
  BY <1>1 DEF Rests, InScript
<1>5. /\ client'[t] = [pc |-> "reading", at |-> client[t].at, id |-> client[t].id]
      /\ client'[t].at = client[t].at /\ client'[t].id = client[t].id
      /\ toServer'[t] = <<Message(t)>> /\ heard'[t] = NULL
      /\ PerClient(client') /\ PerClient(heard') /\ PerClient(toServer') /\ PerClient(toClient')
      /\ \A c \in Clients \ {t} : Same(c)
  BY <1>1, <1>2, <1>3, <1>4 DEF Rests, Quiet, IInv, Typed, PerClient, Same
<1>6. Message(t)' = Message(t) /\ Asked(t)' = Asked(t)
  BY <1>5 DEF Message, Asked
<1>7. Stage(t)'
  <2>1. Sent(t)'
    BY <1>1, <1>5, <1>6 DEF Rests, Sent, Quiet, Idle, Doc, Request
  <2>2. Waits(t)'
    BY <1>1, <1>5, <2>1 DEF Rests, Waits, InScript
  <2>. QED BY <2>2 DEF Stage
<1>8. OneConnected'
  BY <1>5 DEF IInv, OneConnected, Connected, Same
<1>9. Queue'
  BY <1>4, <1>5 DEF IInv, Queue, Same
<1>. QED BY <1>5, <1>7, <1>8, <1>9, ClientStep

LEMMA ReadReplyInv ==
  ASSUME NEW t \in Clients, IInv, ReadReply(t), Serverless
  PROVE  IInv'
<1>0. PICK k, id : k = client[t].at /\ id = client[t].id
  OBVIOUS
<1>1. Waits(t) /\ client[t] = [pc |-> "reading", at |-> k, id |-> id]
      /\ k \in 1..Len(Script[t]) /\ Len(Script[t]) \in Nat /\ id \in Nat
  BY <1>0, Standing, ScriptFacts DEF IInv, ReadReply, Waits, InScript
<1>2. Returned(t) /\ toClient[t] /= <<>>
  <2>1. Sent(t) \/ InThread(t) \/ Packed(t) => toClient[t] = <<>> /\ thread[t].pc /= "done"
    BY DEF Sent, InThread, Packed, Idle, Quiet
  <2>2. toClient[t] = <<>> => thread[t].pc = "done"
    BY DEF ReadReply
  <2>3. Returned(t)
    BY <1>1, <2>1, <2>2 DEF Waits
  <2>4. PICK r : toClient[t] = <<r>>
    BY <2>3 DEF Returned
  <2>. QED BY <2>3, <2>4
<1>3. PICK r : toClient[t] = <<r>> /\ Answering(t, r)
  BY <1>2 DEF Returned
<1>4. Head(<<r>>) = r /\ r \in Replies /\ r /= NULL
  BY <1>3, ServerAssumption DEF Answering, ServerAssumption
<1> DEFINE new == IF k = 1 THEN r.val ELSE id
<1>5. (Asked(t).method = "HELO" /\ r.key = "id") <=> k = 1
  BY <1>0, <1>1, <1>3, ScriptFacts DEF Answering, Promised, Asked
<1>6. /\ client' = [client EXCEPT ![t] = [pc |-> Ready(t), at |-> k + 1, id |-> new]]
      /\ heard' = [heard EXCEPT ![t] = [req |-> k, reply |-> r]]
      /\ UNCHANGED <<server, toServer>>
  BY <1>0, <1>2, <1>3, <1>4, <1>5 DEF ReadReply
<1>7. PICK n \in 1..Len(toClient[t]) :
        toClient' = [toClient EXCEPT ![t] = SubSeq(@, n+1, Len(@))]
  BY <1>2 DEF ReadReply, Taken
<1>8. SubSeq(toClient[t], n+1, Len(toClient[t])) = <<>>
  BY <1>3, <1>7, TakenAll
<1>9. /\ client'[t] = [pc |-> Ready(t), at |-> k + 1, id |-> new]
      /\ heard'[t] = [req |-> k, reply |-> r] /\ toClient'[t] = <<>> /\ toServer'[t] = <<>>
      /\ PerClient(client') /\ PerClient(heard') /\ PerClient(toServer') /\ PerClient(toClient')
      /\ \A c \in Clients \ {t} : Same(c)
  BY <1>2, <1>6, <1>7, <1>8 DEF Returned, Serverless, IInv, Typed, PerClient, Same
<1>10. Heard(t)'
  BY <1>0, <1>3, <1>4, <1>9 DEF Heard, Answering
<1>11. new \in Nat
  BY <1>0, <1>1, <1>3 DEF Answering
<1>12. Stage(t)'
  <2>1. CASE k = Len(Script[t])
    <3>1. Asked(t).method = "bye"
      BY <1>0, <1>1, <2>1, ScriptFacts DEF Asked
    <3>2. /\ thread'[t] \in {[pc |-> "clear", req |-> Message(t)],
                             [pc |-> "close", req |-> NULL], [pc |-> "done", req |-> NULL]}
          /\ Message(t).method = "bye"
      BY <1>2, <3>1 DEF Returned, Serverless, Message
    <3>3. client'[t].pc = "gone"
      BY <1>0, <1>9, <2>1 DEF Ready
    <3>4. Gone(t)'
      BY <1>9, <1>10, <1>11, <2>1, <3>2, <3>3 DEF Gone, Quiet, Request
    <3>. QED BY <3>4 DEF Stage
  <2>2. CASE k /= Len(Script[t])
    <3>1. Asked(t).method /= "bye"
      BY <1>0, <1>1, <2>2, ScriptFacts DEF Asked
    <3>2. Idle(t)'
      BY <1>2, <3>1 DEF Returned, Serverless, Idle, Request
    <3>3. client'[t] = [pc |-> "ready", at |-> k + 1, id |-> new]
      BY <1>0, <1>9, <2>2 DEF Ready
    <3>4. k + 1 \in 1..Len(Script[t]) /\ (k + 1) - 1 = k
      BY <1>1, <2>2
    <3>5. Doc(t, k, new)'
      BY <1>0, <1>3 DEF Answering, Doc, Serverless
    <3>6. Rests(t)'
      <4>1. InScript(t, "ready")' /\ Quiet(t)' /\ pk' = t
        BY <1>1, <1>9, <1>11, <3>3, <3>4 DEF InScript, Quiet, Waits, Serverless
      <4>2. Doc(t, client[t].at - 1, client[t].id)'
        <5>1. client'[t].at - 1 = k /\ client'[t].id = new
          BY <3>3, <3>4
        <5> HIDE DEF new
        <5>. QED BY <5>1, <3>5 DEF Doc
      <4>. QED BY <1>10, <3>2, <4>1, <4>2 DEF Rests
    <3>. QED BY <3>6 DEF Stage
  <2>. QED BY <2>1, <2>2
<1>13. OneConnected'
  BY <1>1, <1>9 DEF IInv, OneConnected, Connected, Same
<1>14. Queue'
  BY <1>1, <1>6, <1>9 DEF IInv, Queue, Same, Serverless, server
<1>. QED BY <1>6, <1>9, <1>12, <1>13, <1>14, ClientStep DEF server

-----------------------------------------------------------------------------
LEMMA ThreadInv ==
  ASSUME NEW t \in Clients, IInv, Thread(t) PROVE IInv'
BY StartInv, ReadInv, HandleInv, SendInv, ClearInv, CloseInv DEF Thread, clients

LEMMA StepInv ==
  ASSUME OneByOne, IInv, [Next]_vars PROVE IInv'
<1>1. CASE Main
  BY <1>1, MainInv
<1>2. CASE SIGINT
  BY <1>2, AloneNone DEF SIGINT, server, clients, IInv, Typed
<1>3. ASSUME NEW t \in Clients, Thread(t) PROVE IInv'
  BY <1>3, ThreadInv
<1>4. ASSUME NEW t \in Clients, Connect(t) \/ Vanish(t), Serverless PROVE IInv'
  BY <1>4, ConnectInv, VanishInv DEF OneByOne
<1>5. ASSUME NEW t \in Clients, Program(t), Serverless PROVE IInv'
  BY <1>5, ReadWelcomeInv, AskInv, ReadReplyInv DEF Program
<1>6. CASE UNCHANGED vars
  BY <1>6, AloneNone DEF vars, server, clients, IInv, Typed
<1>. QED BY <1>1, <1>2, <1>3, <1>4, <1>5, <1>6 DEF Next

(* The inductive invariant: server.c:183-240 and the two client programs keep
   one message under way at most, and the registry's head is the document of
   the client that is connected. *)
THEOREM Invariance ==
  ASSUME OneByOne PROVE Spec => []IInv
<1>1. IInv /\ [Next]_vars => IInv'
  BY StepInv
<1>. QED BY InitInv, <1>1, PTL DEF Spec

(* A client goes through its script, and a thread runs for each client that was
   accepted. *)
THEOREM TypeCorrect ==
  ASSUME OneByOne PROVE Spec => []TypeOK
<1>1. IInv => TypeOK
  <2> SUFFICES ASSUME IInv PROVE TypeOK
    OBVIOUS
  <2>1. ToSet(backlog \o thLanzados) \subseteq Clients
    <3>1. backlog \in Seq(Clients) /\ thLanzados \in Seq(Clients)
      <4>1. <<>> \in Seq(Clients) /\ \A c \in Clients : <<c>> \in Seq(Clients)
        OBVIOUS
      <4>2. backlog = <<>> \/ \E c \in Clients : backlog = <<c>>
        BY DEF IInv, Queue
      <4>3. backlog \in Seq(Clients)
        BY <4>1, <4>2, Zenon
      <4>. QED BY <4>3 DEF IInv, Started
    <3>2. backlog \o thLanzados \in Seq(Clients)
      BY <3>1
    <3>. QED BY <3>2, ElementsOf
  <2>2. ASSUME NEW c \in Clients
        PROVE  /\ thread[c].pc \in {"none", "start", "read", "handle", "send", "clear",
                                    "close", "done"}
               /\ client[c].pc \in {"away", "welcome", "ready", "reading", "gone", "killed"}
               /\ client[c].at \in 0..Len(Script[c])+1
               /\ client[c].id \in Nat
    <3>1. Stage(c) /\ Len(Script[c]) \in Nat
      BY ScriptFacts DEF IInv
    <3>2. Len(Script[c]) >= 4
      BY ScriptFacts DEF Scripts
    <3>3. thread[c].pc \in {"none", "start", "read", "handle", "send", "clear", "close", "done"}
      BY <3>1 DEF Stage, Unmet, Welcomed, Rests, Waits, Gone, Vanished, Sent, InThread, Packed,
                  Returned, Idle
    <3>4. /\ client[c].pc \in {"away", "welcome", "ready", "reading", "gone", "killed"}
          /\ client[c].at \in 0..Len(Script[c])+1
          /\ client[c].id \in Nat
      BY <3>1, <3>2 DEF Stage, Unmet, Welcomed, Rests, Waits, Gone, Vanished, InScript, Away
    <3>. QED BY <3>3, <3>4
  <2>. QED BY <2>1, <2>2 DEF IInv, Typed, Started, TypeOK
<1>. QED BY <1>1, Invariance, PTL

(* Every client is answered by the replies to its own requests, with what its
   own document holds (server.c:249-379), whoever was there before it. *)
THEOREM RepliesAreOwn ==
  ASSUME OneByOne PROVE Spec => []OwnReplies
<1>1. IInv => OwnReplies
  <2> SUFFICES ASSUME IInv, NEW c \in Clients, heard[c] /= NULL
               PROVE  heard[c].reply /= NULL
                      /\ Promised(Script[c], heard[c].req, heard[c].reply)
    BY DEF OwnReplies
  <2>. QED BY DEF IInv, Stage, Unmet, Welcomed, Rests, Waits, Gone, Vanished, Heard
<1>. QED BY <1>1, Invariance, PTL

(* With room in thLanzados for all of them (server.c:25), the clients never
   bring the server down: no request finds its session or its sheet missing,
   and no connection is written past the array. *)
THEOREM ServerSurvives ==
  ASSUME OneByOne, FewClients PROVE Spec => []NoCrash
<1>1. ASSUME IInv, NoCrash, [Next]_vars PROVE NoCrash'
  <2>1. CASE Check
    BY <2>1 DEF Check, NoCrash
  <2>2. CASE Accept /\ Main
    <3>1. \E t \in Clients : t \notin ToSet(thLanzados)
      BY <1>1, <2>2, AcceptInv DEF Main, clients
    <3>2. ToSet(thLanzados) \in SUBSET Clients /\ ToSet(thLanzados) /= Clients
      BY <1>1, <3>1, ElementsOf DEF IInv, Started
    <3>3. /\ Cardinality(ToSet(thLanzados)) = Len(thLanzados)
          /\ Cardinality(ToSet(thLanzados)) < Cardinality(Clients)
          /\ Cardinality(Clients) \in Nat /\ Len(thLanzados) \in Nat
      BY <1>1, <3>2, InjectiveLen, FS_Subset, FS_CardinalityType
         DEF IInv, Started, FewClients
    <3>4. Len(thLanzados) < MAXCLIENTS
      BY <3>3, ServerAssumption DEF FewClients, ServerAssumption
    <3>. QED BY <2>2, <3>4 DEF Accept, NoCrash
  <2>3. CASE Join
    BY <2>3 DEF Join, NoCrash
  <2>4. ASSUME NEW t \in Clients, Thread(t) PROVE NoCrash'
    <3>1. CASE Handle(t)
      <4>1. Waits(t) /\ InThread(t)
        BY <1>1, <3>1, Working DEF IInv, Handle
      <4>. QED BY <1>1, <3>1, <4>1, NoFault DEF Handle, NoCrash
    <3>. QED BY <1>1, <2>4, <3>1 DEF Thread, Start, Read, Send, Clear, Close, NoCrash
  <2>5. CASE main' = main
    BY <1>1, <2>5 DEF NoCrash
  <2>. QED BY <1>1, <2>1, <2>2, <2>3, <2>4, <2>5
           DEF Next, Main, SIGINT, server, vars, Connect, Vanish, Program, ReadWelcome, Ask,
               ReadReply
<1>2. Init => NoCrash
  BY DEF Init, NoCrash
<1>3. IInv /\ NoCrash /\ [Next]_vars => NoCrash'
  BY <1>1
<1>. QED BY <1>2, <1>3, Invariance, PTL DEF Spec

=============================================================================
