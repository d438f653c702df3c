------------------------------ MODULE Workbook ------------------------------
(***************************************************************************)
(* sheet.c: the sheets of one document and their cells.  A sheet is a      *)
(* calloc'ed node of a doubly linked list; a cell (struct Ent) is found    *)
(* through one of the sheet's hash chains and is never moved, because      *)
(* formulas and recalc's cache point at it.                                *)
(*                                                                         *)
(* The programs reach the cells through doc->cur_sh: the Lua bindings      *)
(* (lua.c) and the server (server.c process_msg).  A call on a current     *)
(* sheet that is NULL or freed is undefined: the calls are guarded by      *)
(* Usable.                                                                 *)
(***************************************************************************)
EXTENDS Integers, FiniteSets, SequencesExt

CONSTANTS
  Sheets,     \* addresses calloc can return for a struct Sheet
  Names,      \* sheet names
  Places,     \* the <<row, col>> the callers pass, as C ints
  Vals, Labels,
  NULL,       \* the null pointer, and a field nothing was written to
  HashNr,     \* HASH_NR
  ShortBits   \* width of Ent.row and Ent.col; an int is twice as wide

ASSUME WorkbookAssumption ==
  /\ HashNr \in Nat \ {0}
  /\ ShortBits \in Nat \ {0}
  /\ IsFiniteSet(Sheets)
  /\ NULL \notin Sheets \cup Vals \cup Labels

ASSUME PlacesAssumption == Places \subseteq Int \X Int

VARIABLES
  first_sh, last_sh, cur_sh,  \* of struct roman
  sheet                       \* the struct Sheet at every allocated address

vars == <<first_sh, last_sh, cur_sh, sheet>>

-----------------------------------------------------------------------------
(* C arithmetic: n stored in a signed integer of the given width. *)
Signed(n, bits) == ((n + 2^(bits-1)) % 2^bits) - 2^(bits-1)

Short(n) == Signed(n, ShortBits)

(* HASH: the multiplier is one more than the range of a short; the product
   wraps to an int, and % keeps the sign of its left operand. *)
HASH(row, col) ==
  LET int == Signed(row * (2^ShortBits + 1) + col, 2 * ShortBits)
  IN IF int >= 0 THEN int % HashNr ELSE -((-int) % HashNr)

(* A coordinate whose hash index is negative reads before the table: what
   the process does then is not defined. *)
Indexable(p) == HASH(p[1], p[2]) \in 0..HashNr-1

(* calloc'ed sheet: the k-th cell allocated from its slab cache is ents[k],
   and a chain is the sequence n_hash spells. *)
Blank(n) == [name |-> n, next |-> NULL, prev |-> NULL, row |-> 0, col |-> 0,
             hash |-> [h \in 0..HashNr-1 |-> <<>>], ents |-> <<>>]

(* The memory with a new sheet at the address given. *)
Calloced(sh, n) ==
  [s \in DOMAIN sheet \cup {sh} |-> IF s = sh THEN Blank(n) ELSE sheet[s]]

BlankEnt(r, c) == [row |-> Short(r), col |-> Short(c), flag |-> {},
                   val |-> NULL, label |-> NULL]

-----------------------------------------------------------------------------
(* Cells *)

(* The chain walk of lookat and atbl: the first cell whose stored
   coordinates are the ones asked for, 0 when there is none. *)
atbl(sh, r, c) ==
  LET chain == sh.hash[HASH(r, c)]
      hits == {i \in DOMAIN chain : /\ sh.ents[chain[i]].row = r
                                    /\ sh.ents[chain[i]].col = c}
  IN IF hits = {} THEN 0 ELSE chain[Min(hits)]

Larger(a, b) == IF a > b THEN a ELSE b

(* The cell objs_cache_alloc returned, on the chain given. *)
Linked(sh, r, c, chain) ==
  [sh EXCEPT !.ents = Append(@, BlankEnt(r, c)), !.hash[HASH(r, c)] = chain]

Pushed(sh, r, c) == Linked(sh, r, c, <<Len(sh.ents) + 1>> \o sh.hash[HASH(r, c)])

(* Seeded faults of the second half of lookat: the extents are left alone;
   the new cell's n_hash is not set, which loses the rest of the chain. *)
WithEntNoExtent(sh, r, c) == Pushed(sh, r, c)
WithEntAlone(sh, r, c) ==
  [Linked(sh, r, c, <<Len(sh.ents) + 1>>)
     EXCEPT !.row = Larger(@, r), !.col = Larger(@, c)]

(* lookat, second half: a new cell at the head of its chain. *)
WithEnt(sh, r, c) ==
  [Pushed(sh, r, c) EXCEPT !.row = Larger(@, r), !.col = Larger(@, c)]

(* lookat: the sheet after the call and the cell it returns. *)
lookat(sh, r, c) == IF atbl(sh, r, c) /= 0 THEN sh ELSE WithEnt(sh, r, c)
Returned(sh, r, c) ==
  IF atbl(sh, r, c) /= 0 THEN atbl(sh, r, c) ELSE Len(sh.ents) + 1

-----------------------------------------------------------------------------
(* The list of sheets *)

(* The nodes a walk along next meets, first_sh first; one more than there are
   nodes at most, so that a cycle shows as a repeated node. *)
After(s) == IF s = NULL THEN NULL ELSE sheet[s].next

At[i \in Nat] == IF i = 0 THEN first_sh ELSE After(At[i-1])

Walk ==
  LET met == {i \in 0..Cardinality(Sheets) : At[i] /= NULL}
  IN [i \in 1..Cardinality(met) |-> At[i-1]]

Search_sheet(n) ==
  LET walk == Walk
      hits == {i \in DOMAIN walk : sheet[walk[i]].name = n}
  IN IF hits = {} THEN NULL ELSE walk[Min(hits)]

(* Seeded fault: the new node's prev stays NULL. *)
INSERTNoPrev(mem, new) ==
  IF first_sh = NULL THEN mem ELSE [mem EXCEPT ![last_sh].next = new]

(* The macros of rpsc.h on the memory given; their assignments to first_sh
   and last_sh are in the actions.  The last node's next is NULL. *)
INSERT(mem, new) ==
  IF first_sh = NULL THEN mem
  ELSE [mem EXCEPT ![new].prev = last_sh, ![new].next = mem[last_sh].next,
                   ![last_sh].next = new]

(* Seeded fault: the successor keeps its prev. *)
REMOVEOneWay(mem, elem) ==
  IF elem = first_sh THEN mem
  ELSE [mem EXCEPT ![mem[elem].prev].next = mem[elem].next]

REMOVE(mem, elem) ==
  LET after == mem[elem].next
      before == mem[elem].prev
      ahead == IF elem = first_sh THEN mem ELSE [mem EXCEPT ![before].next = after]
  IN IF after = NULL THEN ahead
     ELSE [ahead EXCEPT ![after].prev = IF elem = first_sh THEN NULL ELSE before]

(* Seeded fault: deleting the last sheet of several leaves last_sh. *)
LastAfterREMOVEKept(elem) ==
  IF elem = first_sh /\ sheet[elem].next = NULL THEN NULL ELSE last_sh

LastAfterREMOVE(elem) ==
  IF sheet[elem].next /= NULL THEN last_sh
  ELSE IF elem = first_sh THEN NULL ELSE sheet[elem].prev

-----------------------------------------------------------------------------
Init ==
  /\ first_sh = NULL /\ last_sh = NULL /\ cur_sh = NULL
  /\ sheet = <<>>

(* new_sheet, and its callers make the sheet the current one (io_newsheet,
   create_sheet of process_msg). *)
CreateSheet(n) ==
  \/ /\ Search_sheet(n) /= NULL
     /\ cur_sh' = Search_sheet(n)
     /\ UNCHANGED <<first_sh, last_sh, sheet>>
  \/ /\ Search_sheet(n) = NULL
     /\ \E sh \in Sheets \ DOMAIN sheet :
          /\ sheet' = INSERT(Calloced(sh, n), sh)
          /\ first_sh' = IF first_sh = NULL THEN sh ELSE first_sh
          /\ last_sh' = sh
          /\ cur_sh' = sh

(* Search_sheet and delete_sheet: the node, its table, its cells and their
   cache are freed.  The current sheet is not looked at. *)
DeleteSheet(n) ==
  LET sh == Search_sheet(n)
  IN /\ sh /= NULL
     /\ sheet' = Restrict(REMOVE(sheet, sh), DOMAIN sheet \ {sh})
     /\ first_sh' = IF sh = first_sh THEN sheet[sh].next ELSE first_sh
     /\ last_sh' = LastAfterREMOVE(sh)
     /\ UNCHANGED cur_sh

(* io_sheet: NULL when there is no such sheet. *)
SelectSheet(n) ==
  /\ cur_sh' = Search_sheet(n)
  /\ UNCHANGED <<first_sh, last_sh, sheet>>

Usable(p) == cur_sh \in DOMAIN sheet /\ Indexable(p)

NumberedEnt(e, v) == [e EXCEPT !.val = v, !.flag = @ \cup {"VAL"}]
LabelledEnt(e, text) == [e EXCEPT !.label = text, !.flag = @ \cup {"RP_LABEL"}]

Numbered(sh, k, v) == [sh EXCEPT !.ents[k] = NumberedEnt(@, v)]
Labelled(sh, k, text) == [sh EXCEPT !.ents[k] = LabelledEnt(@, text)]

(* l_setnum, set_val *)
SetNum(p, v) ==
  /\ Usable(p)
  /\ LET k == Returned(sheet[cur_sh], p[1], p[2])
     IN sheet' = [sheet EXCEPT ![cur_sh] = Numbered(lookat(@, p[1], p[2]), k, v)]
  /\ UNCHANGED <<first_sh, last_sh, cur_sh>>

(* l_setstr, set_label *)
SetLabel(p, text) ==
  /\ Usable(p)
  /\ LET k == Returned(sheet[cur_sh], p[1], p[2])
     IN sheet' = [sheet EXCEPT ![cur_sh] = Labelled(lookat(@, p[1], p[2]), k, text)]
  /\ UNCHANGED <<first_sh, last_sh, cur_sh>>

(* l_getstr, get_val, get_label: reading through lookat makes the cell. *)
Read(p) ==
  /\ Usable(p)
  /\ sheet' = [sheet EXCEPT ![cur_sh] = lookat(@, p[1], p[2])]
  /\ UNCHANGED <<first_sh, last_sh, cur_sh>>

Next ==
  \/ \E n \in Names : CreateSheet(n) \/ DeleteSheet(n) \/ SelectSheet(n)
  \/ \E p \in Places :
       \/ \E v \in Vals : SetNum(p, v)
       \/ \E text \in Labels : SetLabel(p, text)
       \/ Read(p)

Spec == Init /\ [][Next]_vars

-----------------------------------------------------------------------------
(* Properties *)

(* The program's memory has the shape of its structs, and no cell number on a
   chain is out of range. *)
TypeOK ==
  /\ DOMAIN sheet \subseteq Sheets
  /\ first_sh \in DOMAIN sheet \cup {NULL}
  /\ last_sh \in DOMAIN sheet \cup {NULL}
  /\ cur_sh \in Sheets \cup {NULL}
  /\ \A s \in DOMAIN sheet :
       /\ sheet[s].name \in Names
       /\ {sheet[s].next, sheet[s].prev} \subseteq DOMAIN sheet \cup {NULL}
       /\ \A h \in 0..HashNr-1 : sheet[s].hash[h] \in Seq(DOMAIN sheet[s].ents)

(* new_sheet and delete_sheet keep the list whole: a walk along next meets
   every allocated sheet once and ends at last_sh, prev is its inverse, and no
   two sheets have a name. *)
ListSound ==
  /\ IsInjective(Walk) /\ ToSet(Walk) = DOMAIN sheet
  /\ last_sh = IF Walk = <<>> THEN NULL ELSE Last(Walk)
  /\ \A i \in DOMAIN Walk :
        sheet[Walk[i]].prev = IF i = 1 THEN NULL ELSE Walk[i-1]
  /\ \A s, t \in DOMAIN sheet : sheet[s].name = sheet[t].name => s = t

(* Every cell can be found again at its coordinates, by the address it was
   given (a formula that parsed it earlier sees the same cell as the caller
   who looks it up now), and lies inside the extents the scans of recalc stop
   at: no write is ever lost to them. *)
CellsFindable ==
  \A s \in DOMAIN sheet : \A k \in DOMAIN sheet[s].ents :
    LET e == sheet[s].ents[k]
    IN /\ atbl(sheet[s], e.row, e.col) = k
       /\ e.row <= sheet[s].row /\ e.col <= sheet[s].col

(* What a caller reads at a place of a sheet: through the flags, as the getters
   and export do. *)
Content(sh, p) ==
  LET k == IF Indexable(p) THEN atbl(sh, p[1], p[2]) ELSE 0
  IN [num  |-> IF k /= 0 /\ "VAL" \in sh.ents[k].flag THEN sh.ents[k].val ELSE NULL,
      text |-> IF k /= 0 /\ "RP_LABEL" \in sh.ents[k].flag THEN sh.ents[k].label ELSE NULL]

Contents == [s \in DOMAIN sheet |-> [p \in Places |-> Content(sheet[s], p)]]

(* The document as the programs see it: sheets by their place in the list and
   by name. *)
Order == LET walk == Walk IN [i \in DOMAIN walk |-> sheet[walk[i]].name]
Book == [n \in {sheet[s].name : s \in ToSet(Walk)} |-> Contents[Search_sheet(n)]]

Map == INSTANCE SheetMap WITH None <- NULL, order <- Order, book <- Book

(* sheet.c implements the ordered collection of maps: a write changes one
   field of one coordinate of one sheet, a read changes nothing, creating and
   deleting a sheet leave the others and their order alone. *)
MapSpec == Map!Spec
=============================================================================
