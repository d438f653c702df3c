------------------------------- MODULE Server -------------------------------
(***************************************************************************)
(* server.c with the clients client.c and tui.c: the main thread accepts   *)
(* connections and starts a thread for each, a thread reads a request,     *)
(* works on its session and sends the reply, a client sends one request    *)
(* and waits for one read.                                                 *)
(*                                                                         *)
(* Every thread has a buffer of its own, sbuf, but the packer pk that      *)
(* fills the buffers is one global: it writes to the buffer of the thread  *)
(* that was started last.  A socket carries a stream; a read returns what  *)
(* has arrived, one message or more, and only the first one is decoded.    *)
(*                                                                         *)
(* The registry is the list of Sessions with each call as one step, and a  *)
(* sheet is a map from places to numbers, as SheetMap describes it.        *)
(***************************************************************************)
EXTENDS Integers, SequencesExt, FiniteSetsExt

CONSTANTS
  Clients,     \* the clients; a thread has the name of its client
  MAXCLIENTS,  \* entries of thLanzados
  Script,      \* per client: the requests its program sends
  Overlap,     \* clients connect while others are connected
  Mortal,      \* the clients that may be killed
  KillPoints,  \* where: "ready" is between two requests, "welcome" and
               \* "reading" while an answer is on its way
  NULL

Replies == [key : {"welcome", "id", "ret", "val"}, val : Int]

(* client.c and tui.c open a session and a sheet before anything else, write
   and read cells, delete the sheet and say bye at the end.  With several
   clients none is killed: a second reply to one that is gone would raise
   SIGPIPE. *)
ASSUME ServerAssumption ==
  /\ KillPoints \subseteq {"welcome", "ready", "reading"}
  /\ Overlap => Mortal = {}
  /\ NULL \notin Replies
  /\ MAXCLIENTS \in Nat
  /\ \A c \in Clients :
       LET s == Script[c]
       IN /\ s \in Seq([method : STRING, at : Nat, val : Int]) /\ Len(s) >= 4
          /\ s[1].method = "HELO" /\ s[2].method = "create_sheet"
          /\ s[Len(s)-1].method = "delete_sheet" /\ s[Len(s)].method = "bye"
          /\ \A k \in 3..Len(s)-2 : s[k].method \in {"set_val", "get_val", "get_cell"}

VARIABLES
  main,         \* what the main thread does
  got_SIGINT,
  backlog,      \* connections accept has not returned yet
  thLanzados,   \* the threads started, intLanzados of them
  pk,           \* the thread whose buffer the packer writes to
  sbuf,         \* per thread: the replies in its buffer
  thread,       \* per thread: where it is, and the request it works on
  sessions,     \* the registry, the newest session first
  toServer, toClient,  \* what the sockets carry
  client,       \* per client: where it is in its script, and its id_session
  heard         \* per client: the reply to the last request, as decoded

server == <<main, backlog, thLanzados>>
clients == <<client, heard>>
vars == <<server, got_SIGINT, pk, sbuf, thread, sessions, toServer, toClient, clients>>

-----------------------------------------------------------------------------
(* Messages *)
Welcome == [key |-> "welcome", val |-> 0]
Id(n) == [key |-> "id", val |-> n]
Ret(res) == [key |-> "ret", val |-> res]
Val(v) == [key |-> "val", val |-> v]    \* ret 0, and the number

(* The registry *)
NextId == IF sessions = <<>> THEN 1 ELSE sessions[1].id + 1
(* Seeded fault: the head of the list is not compared. *)
get_sessionBeyondHead(n) == SelectInSeq(sessions, LAMBDA s : s.id = n /\ s /= sessions[1])
(* The position of the first session with the id, 0 if there is none. *)
get_session(n) == SelectInSeq(sessions, LAMBDA s : s.id = n)

Away == [pc |-> "away", at |-> 0, id |-> 0]

Init ==
  /\ main = "check" /\ got_SIGINT = FALSE
  /\ backlog = <<>> /\ thLanzados = <<>> /\ pk = NULL /\ sessions = <<>>
  /\ sbuf = [c \in Clients |-> <<>>]
  /\ thread = [c \in Clients |-> [pc |-> "none", req |-> NULL]]
  /\ toServer = [c \in Clients |-> <<>>] /\ toClient = [c \in Clients |-> <<>>]
  /\ client = [c \in Clients |-> Away]
  /\ heard = [c \in Clients |-> NULL]

-----------------------------------------------------------------------------
(* The main thread *)

(* while (! got_SIGINT) *)
Check ==
  /\ main = "check"
  /\ main' = IF got_SIGINT THEN "join" ELSE "accept"
  /\ UNCHANGED <<backlog, thLanzados, thread>>

(* Seeded fault: the thread is not counted. *)
AcceptUncounted ==
  /\ main = "accept" /\ backlog /= <<>>
  /\ main' = "check"
  /\ backlog' = Tail(backlog)
  /\ thread' = [thread EXCEPT ![Head(backlog)].pc = "start"]
  /\ UNCHANGED thLanzados

(* accept returns a connection and a thread is started for it.  The handler of
   SIGINT restarts accept, which goes on waiting.  Nothing stops the connection
   after MAXCLIENTS: it is written past the array, over main's variables. *)
Accept ==
  /\ main = "accept" /\ backlog /= <<>>
  /\ main' = IF Len(thLanzados) < MAXCLIENTS THEN "check" ELSE "crashed"
  /\ backlog' = Tail(backlog)
  /\ thLanzados' = Append(thLanzados, Head(backlog))
  /\ thread' = [thread EXCEPT ![Head(backlog)].pc = "start"]

(* pthread_join on every thread, and the process ends. *)
Join ==
  /\ main = "join"
  /\ \A t \in ToSet(thLanzados) : thread[t].pc = "done"
  /\ main' = "ended"
  /\ UNCHANGED <<backlog, thLanzados, thread>>

Main ==
  /\ Check \/ Accept \/ Join
  /\ UNCHANGED <<got_SIGINT, pk, sbuf, sessions, toServer, toClient, clients>>

SIGINT ==
  /\ ~got_SIGINT /\ got_SIGINT' = TRUE
  /\ UNCHANGED <<server, pk, sbuf, thread, sessions, toServer, toClient, clients>>

-----------------------------------------------------------------------------
(* A connection thread *)

Go(t, pc) == thread' = [thread EXCEPT ![t].pc = pc]

(* Seeded fault: the packer is bound by the first thread only. *)
BoundOnce(t) == IF pk = NULL THEN t ELSE pk
Bound(t) == t

(* The thread binds the packer to its buffer and greets its client. *)
Start(t) ==
  /\ thread[t].pc = "start"
  /\ pk' = Bound(t)
  /\ toClient' = [toClient EXCEPT ![t] = Append(@, Welcome)]
  /\ Go(t, "read")
  /\ UNCHANGED <<main, sbuf, sessions, toServer>>

(* read and unpack: what has arrived is taken, its first message decoded.
   Once the client is gone read returns 0 and is called again, for ever. *)
Read(t) ==
  /\ thread[t].pc = "read"
  /\ \E n \in 1..Len(toServer[t]) :
       toServer' = [toServer EXCEPT ![t] = SubSeq(@, n+1, Len(@))]
  /\ thread' = [thread EXCEPT ![t] = [pc |-> "handle", req |-> Head(toServer[t])]]
  /\ UNCHANGED <<main, pk, sbuf, sessions, toClient>>

(* A reply goes to the buffer that pk is bound to.  Packed into the buffer of
   a thread that has ended it is lost. *)
Pack(reply) ==
  sbuf' = IF thread[pk].pc = "done" THEN sbuf ELSE [sbuf EXCEPT ![pk] = Append(@, reply)]

Answer(t, reply) == Pack(reply) /\ Go(t, "send")

Request(t) == thread[t].req
Index(t) == get_session(Request(t).id)

(* The sheets of a session: the last one is cur_sh, all have the same name. *)
Cur(i) == Len(sessions[i].sheets)
Live(i) == {k \in DOMAIN sessions[i].sheets : sessions[i].sheets[k].live}
Cells(i) == sessions[i].sheets[Cur(i)].cells
WithCells(session, cells) ==
  [session EXCEPT !.sheets[Len(session.sheets)].cells = cells]

Written(cells, at, val) ==
  [a \in DOMAIN cells \cup {at} |-> IF a = at THEN val ELSE cells[a]]
lookat(cells, at) == IF at \in DOMAIN cells THEN cells ELSE Written(cells, at, 0)

HELO(t) ==
  /\ \A i \in DOMAIN sessions : ~sessions[i].freed   \* bound: see Sessions
  /\ sessions' = <<[id |-> NextId, sheets |-> <<>>, freed |-> FALSE]>> \o sessions
  /\ Answer(t, Id(NextId))

create_sheet(t, i) ==
  /\ sessions' = [sessions EXCEPT
       ![i].sheets = Append(@, [live |-> TRUE, cells |-> <<>>])]
  /\ Answer(t, Ret(0))

delete_sheet(t, i) ==
  /\ sessions' = [sessions EXCEPT ![i].sheets[Min(Live(i))].live = FALSE]
  /\ Answer(t, Ret(0))

set_val(t, i) ==
  /\ sessions' = [sessions EXCEPT
       ![i] = WithCells(@, Written(Cells(i), Request(t).at, Request(t).val))]
  /\ Answer(t, Ret(0))

get_val(t, i) ==
  LET found == lookat(Cells(i), Request(t).at)
  IN /\ sessions' = [sessions EXCEPT ![i] = WithCells(@, found)]
     /\ Answer(t, Val(found[Request(t).at]))

get_cell(t, i) ==
  /\ Answer(t, IF Request(t).at \in DOMAIN Cells(i)
               THEN Val(Cells(i)[Request(t).at]) ELSE Ret(-1))
  /\ UNCHANGED sessions

(* close_session: closing the head forgets all sessions, closing another one
   frees the head's successor, which stays linked; -1 when there is none. *)
bye(t, i) ==
  /\ sessions' = CASE i = 0 -> sessions
                    [] i = 1 -> <<>>
                    [] OTHER -> [sessions EXCEPT ![2].freed = TRUE]
  /\ Answer(t, Ret(IF i = 0 THEN -1 ELSE 0))

(* Can the request make the process fault?  A session that is not found, a
   sheet that is not there and a current sheet that was never created are null
   pointers, and no chunk is freed twice.  Reading a freed sheet and packing
   into a destroyed buffer may fault or not. *)
Faults(t) ==
  LET i == Index(t)
      method == Request(t).method
  IN CASE method = "bye" /\ i > 1 /\ sessions[2].freed -> {TRUE}
       [] method \notin {"HELO", "bye"} /\ i = 0 -> {TRUE}
       [] method = "delete_sheet" /\ i > 0 /\ Live(i) = {} -> {TRUE}
       [] method \in {"set_val", "get_val", "get_cell"} /\ i > 0 /\ Cur(i) = 0 -> {TRUE}
       [] OTHER ->
            IF thread[pk].pc = "done"
               \/ (method \in {"set_val", "get_val", "get_cell"} /\ Cur(i) \notin Live(i))
            THEN BOOLEAN ELSE {FALSE}

Works(t) ==
  \/ Request(t).method = "HELO" /\ HELO(t)
  \/ Request(t).method = "create_sheet" /\ create_sheet(t, Index(t))
  \/ Request(t).method = "delete_sheet" /\ delete_sheet(t, Index(t))
  \/ Request(t).method = "set_val" /\ set_val(t, Index(t))
  \/ Request(t).method = "get_val" /\ get_val(t, Index(t))
  \/ Request(t).method = "get_cell" /\ get_cell(t, Index(t))
  \/ Request(t).method = "bye" /\ bye(t, Index(t))

(* process_msg up to the reply. *)
Handle(t) ==
  /\ thread[t].pc = "handle"
  /\ \E fault \in Faults(t) :
       IF fault THEN main' = "crashed" /\ UNCHANGED <<sbuf, thread, sessions>>
       ELSE Works(t) /\ UNCHANGED main
  /\ UNCHANGED <<pk, toServer, toClient>>

(* send(msocket, sbuf->data, sbuf->size): the thread's own buffer, whatever is
   in it; no bytes are no message. *)
Send(t) ==
  /\ thread[t].pc = "send"
  /\ toClient' = [toClient EXCEPT ![t] = @ \o sbuf[t]]
  /\ Go(t, "clear")
  /\ UNCHANGED <<main, pk, sbuf, sessions, toServer>>

(* Seeded fault: the buffer keeps what was sent. *)
ClearedKeeping(t) == sbuf[t]
Cleared(t) == <<>>

(* Seeded fault: the loop goes on after bye. *)
AfterHandlingBye(t) == "read"
AfterHandling(t) == IF Request(t).method = "bye" THEN "close" ELSE "read"

Clear(t) ==
  /\ thread[t].pc = "clear"
  /\ sbuf' = [sbuf EXCEPT ![t] = Cleared(t)]
  /\ thread' = [thread EXCEPT ![t] = [pc |-> AfterHandling(t), req |-> NULL]]
  /\ UNCHANGED <<main, pk, sessions, toServer, toClient>>

(* The socket is closed and the buffer destroyed. *)
Close(t) ==
  /\ thread[t].pc = "close"
  /\ sbuf' = [sbuf EXCEPT ![t] = <<>>]
  /\ Go(t, "done")
  /\ UNCHANGED <<main, pk, sessions, toServer, toClient>>

Thread(t) ==
  /\ Start(t) \/ Read(t) \/ Handle(t) \/ Send(t) \/ Clear(t) \/ Close(t)
  /\ UNCHANGED <<got_SIGINT, backlog, thLanzados, clients>>

-----------------------------------------------------------------------------
(* A client program *)

Connected(c) == client[c].pc \in {"welcome", "ready", "reading"}

(* connect: the kernel completes it as long as the server's socket is open. *)
Connect(c) ==
  /\ client[c].pc = "away"
  /\ Overlap \/ ~\E d \in Clients : Connected(d)
  /\ client' = [client EXCEPT ![c] = [pc |-> "welcome", at |-> 1, id |-> 0]]
  /\ backlog' = Append(backlog, c)
  /\ UNCHANGED <<main, thLanzados, heard, toServer, toClient>>

(* A read takes what has arrived and decodes the first message. *)
Taken(c) ==
  \E n \in 1..Len(toClient[c]) :
    toClient' = [toClient EXCEPT ![c] = SubSeq(@, n+1, Len(@))]

ReadWelcome(c) ==
  /\ client[c].pc = "welcome"
  /\ Taken(c)
  /\ client' = [client EXCEPT ![c].pc = "ready"]
  /\ UNCHANGED <<server, heard, toServer>>

Asked(c) == Script[c][client[c].at]

Ask(c) ==
  /\ client[c].pc = "ready"
  /\ toServer' = [toServer EXCEPT ![c] =
       Append(@, [method |-> Asked(c).method, at |-> Asked(c).at,
                  val |-> Asked(c).val, id |-> client[c].id])]
  /\ client' = [client EXCEPT ![c].pc = "reading"]
  /\ heard' = [heard EXCEPT ![c] = NULL]
  /\ UNCHANGED <<server, toClient>>

(* After the reply to bye the program ends. *)
Ready(c) == IF client[c].at = Len(Script[c]) THEN "gone" ELSE "ready"

(* The reply to HELO gives the client its id_session when it is an id.  When
   the thread has closed the socket the read returns 0 and the client goes on. *)
ReadReply(c) ==
  /\ client[c].pc = "reading"
  /\ IF toClient[c] = <<>> THEN thread[c].pc = "done" /\ UNCHANGED toClient
     ELSE Taken(c)
  /\ LET reply == IF toClient[c] = <<>> THEN NULL ELSE Head(toClient[c])
         given == reply /= NULL /\ Asked(c).method = "HELO" /\ reply.key = "id"
     IN /\ client' = [client EXCEPT ![c] =
             [pc |-> Ready(c), at |-> @.at + 1, id |-> IF given THEN reply.val ELSE @.id]]
        /\ heard' = [heard EXCEPT ![c] = [req |-> client[c].at, reply |-> reply]]
  /\ UNCHANGED <<server, toServer>>

(* The client is killed.  What it has sent stays readable. *)
Vanish(c) ==
  /\ c \in Mortal /\ client[c].pc \in KillPoints
  /\ client' = [client EXCEPT ![c] = [pc |-> "killed", at |-> 0, id |-> 0]]
  /\ heard' = [heard EXCEPT ![c] = NULL]
  /\ toClient' = [toClient EXCEPT ![c] = <<>>]
  /\ UNCHANGED <<server, toServer>>

Program(c) == ReadWelcome(c) \/ Ask(c) \/ ReadReply(c)

Serverless == UNCHANGED <<got_SIGINT, pk, sbuf, thread, sessions>>

-----------------------------------------------------------------------------
Running == main \notin {"ended", "crashed"}

(* When the server has ended a client still reads a reply that is underway;
   what else it does is left out. *)
Next ==
  \/ Running /\ (Main \/ SIGINT)
  \/ \E c \in Clients :
       \/ Running /\ Thread(c)
       \/ Running /\ (Connect(c) \/ Vanish(c)) /\ Serverless
       \/ (Running \/ toClient[c] /= <<>>) /\ Program(c) /\ Serverless

(* The threads of the server run, and a client program goes through its
   script.  Nobody has to connect, to send SIGINT or to kill a client. *)
Fairness ==
  /\ WF_vars(Running /\ Main)
  /\ \A c \in Clients :
       /\ WF_vars(Running /\ Thread(c))
       /\ WF_vars((Running \/ toClient[c] /= <<>>) /\ Program(c) /\ Serverless)

Spec == Init /\ [][Next]_vars
FairSpec == Spec /\ Fairness

-----------------------------------------------------------------------------
(* Properties *)

(* What the program does, by the kind of its state. *)
TypeOK ==
  /\ main \in {"check", "accept", "join", "ended", "crashed"}
  /\ ToSet(backlog \o thLanzados) \subseteq Clients
  /\ pk \in Clients \cup {NULL}
  /\ \A c \in Clients :
       /\ thread[c].pc \in {"none", "start", "read", "handle", "send", "clear", "close", "done"}
       /\ c \in ToSet(thLanzados) <=> thread[c].pc /= "none"
       /\ client[c].pc \in {"away", "welcome", "ready", "reading", "gone", "killed"}
       /\ client[c].at \in 0..Len(Script[c])+1
       /\ client[c].id \in Nat

(* What the script's k-th request would be told by a document of its own. *)
Wrote(s, k) == {j \in 1..k-1 : s[j].method = "set_val" /\ s[j].at = s[k].at}
Touched(s, k) == {j \in 1..k-1 : s[j].method \in {"set_val", "get_val"} /\ s[j].at = s[k].at}
LastWritten(s, k) == IF Wrote(s, k) = {} THEN 0 ELSE s[Max(Wrote(s, k))].val
Promised(s, k, reply) ==
  CASE s[k].method = "HELO" -> reply.key = "id"
    [] s[k].method = "get_val" -> reply = Val(LastWritten(s, k))
    [] s[k].method = "get_cell" ->
         reply = IF Touched(s, k) = {} THEN Ret(-1) ELSE Val(LastWritten(s, k))
    [] OTHER -> reply = Ret(0)

(* When clients come one after the other, every request is answered by its own
   reply, as if its client had the document for itself; also after a client
   was killed between two requests and has left its session behind. *)
OwnReplies ==
  \A c \in Clients : heard[c] /= NULL =>
    heard[c].reply /= NULL /\ Promised(Script[c], heard[c].req, heard[c].reply)

(* The same clients never make the server read through a null pointer, free
   twice or write outside of its arrays. *)
NoCrash == main /= "crashed"

(* A client that has connected is accepted unless the server is told to stop,
   and a client that is accepted gets through its script: it never waits for
   ever. *)
Left(c) == client[c].pc \in {"gone", "killed"}
Served == \A c \in Clients :
  /\ client[c].pc = "welcome" ~> c \in ToSet(thLanzados) \/ got_SIGINT
  /\ c \in ToSet(thLanzados) ~> Left(c)

(* server.c:70, "Got SIGINT. Shutting down server": once one more client has
   connected, the server ends, unless a client was killed. *)
Killed == \E c \in Clients : client[c].pc = "killed"
ServerEnds == (got_SIGINT /\ backlog /= <<>>) ~> (main = "ended" \/ Killed)

(* server.c:265, "return an OK msg to client": every client gets the replies it
   waits for, with any number of clients. *)
Answered ==
  \A c \in Clients : c \in ToSet(thLanzados) ~> Left(c) \/ main = "crashed"
=============================================================================
