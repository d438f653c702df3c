------------------------------ MODULE SheetMap ------------------------------
(***************************************************************************)
(* What a document (struct roman) promises the programs that fill it: an   *)
(* ordered collection of named sheets, each a map from coordinates to what *)
(* was last written there.  No pointers, no hash table, no cell records.   *)
(***************************************************************************)
EXTENDS Naturals, Sequences

CONSTANTS Names,   \* sheet names
          Places,  \* the <<row, col>> coordinates the callers use
          Vals,    \* numbers
          Labels,  \* strings
          None     \* nothing has been written

VARIABLES order,   \* the sheets, oldest first
          book     \* per existing sheet: what each coordinate holds

Nothing == [num |-> None, text |-> None]

TypeOK ==
  /\ order \in Seq(Names)
  /\ DOMAIN book = {order[i] : i \in DOMAIN order}
  /\ \A n \in DOMAIN book :
        book[n] \in [Places -> [num : Vals \cup {None}, text : Labels \cup {None}]]

Init == order = <<>> /\ book = <<>>

Create ==
  \E n \in Names :
    /\ order' = Append(order, n)
    /\ n \notin DOMAIN book
    /\ book' = [m \in DOMAIN book \cup {n} |->
                  IF m = n THEN [p \in Places |-> Nothing] ELSE book[m]]

Delete ==
  \E i \in DOMAIN order :
    /\ order' = SubSeq(order, 1, i - 1) \o SubSeq(order, i + 1, Len(order))
    /\ book' = [m \in DOMAIN book \ {order[i]} |-> book[m]]

(* One field of one coordinate of one sheet, and nothing else. *)
Write ==
  /\ order' = order
  /\ \E n \in DOMAIN book, p \in Places :
       /\ \A m \in DOMAIN book, q \in Places :
             <<m, q>> /= <<n, p>> => book'[m][q] = book[m][q]
       /\ \/ book'[n][p].num \in Vals /\ book'[n][p].text = book[n][p].text
          \/ book'[n][p].text \in Labels /\ book'[n][p].num = book[n][p].num

Next == Create \/ Delete \/ Write

Spec == Init /\ [][Next]_<<order, book>>
=============================================================================
