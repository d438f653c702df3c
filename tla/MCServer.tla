------------------------------ MODULE MCServer ------------------------------
(* The server with the scripts of its two client programs. *)
EXTENDS Server

CONSTANT Terminals   \* the clients that run tui.c, the others run client.c

Req(m, at, v) == [method |-> m, at |-> at, val |-> v]
Requests(body) ==
  <<Req("HELO", 0, 0), Req("create_sheet", 0, 0)>> \o body
    \o <<Req("delete_sheet", 0, 0), Req("bye", 0, 0)>>

(* client.c writes a cell and reads it; tui.c writes one and draws a window. *)
MCScript ==
  [c \in Clients |->
     IF c \in Terminals
     THEN Requests(<<Req("set_val", 2, 4), Req("get_cell", 1, 0), Req("get_cell", 2, 0)>>)
     ELSE Requests(<<Req("set_val", 1, 12), Req("get_val", 1, 0)>>)]
=============================================================================
