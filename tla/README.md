# sc_offline in TLA+

A verification project for sc_offline (`src/`), a batch spreadsheet: a C library that keeps
documents of sheets and cells, loads them from Excel, HTML or CSV files, recalculates their formulas,
and is driven from Lua, from a socket server with its clients, or over XML-RPC. The modules here are
written from that code. `PROJECT.json` gives, for each definition, the lines it models, and for each
run its configuration and properties.

Run a check with `tlc -config MCWorkbook.cfg MCWorkbook.tla`, a proof with `tlapm SlabCacheProofs.tla`.

## 1. The system

| Component | State | Operations | What makes it correct |
|---|---|---|---|
| Slab allocator (`slab.c`, `queue.h`) | per cache: three lists of slabs, counters; per slab: a chain of free objects threaded through the objects | `objs_cache_init`, `objs_cache_alloc`, `objs_cache_free`, the freeing policy, `objs_cache_destroy` | an object has one owner; a slab is on the list of its fill level; counters agree with lists |
| Sheets and cells (`sheet.c`, `rpsc.h`) | per document: a doubly linked list of sheets, the current sheet; per sheet: a hash table of cells, its extents | `new_sheet`, `Search_sheet`, `delete_sheet`, `lookat`, `atbl` | a cell is found again at its address; the list stays whole |
| Expressions (`expr.c`, `Lexer.l`, `Parser.y`) | one global cache of nodes; a tree per formula cell, whose leaves point at cells | `getAST`, `create*`, `deleteExpression` | each node is freed once; a reference names the cell its text named |
| Recalculation (`calc.c`) | per document: an array of pointers to formula cells | `recalc`, `eval` | every formula is evaluated; values settle; nothing else is written |
| Functions (`function.c`) | a list of names | `do_sum` and the others, called by `eval`; they create the cells they read | the result over the cells of the range |
| Sessions (`session.c`) | one global list of documents | `create_session`, `get_session`, `close_session` | a client's id leads to the client's own document until it closes it |
| Server (`server.c`) | one thread per connection; a global packer, a global memory pool, the array of threads | accept, read a request, `process_msg`, reply, join at the end | each request is answered to its client |
| Clients (`client.c`, `tui/tui.c`) | a socket, a session id; the terminal client also a cursor, a window on the sheet and a key buffer | a script of requests; keys | a request waits for its reply; the cursor is in the window |
| Lua bindings (`lua.c`) | a userdata with a `struct roman` | open, load, select, set, get, recalc, export, close | calls reach the selected sheet |
| Readers and writers (`xlsx.c`, `html.c`, `html2.c`, `csv.c`), plugins (`plugin.c`) | a list of loaded plugins; counters of row and column while reading | `read`, `write` | a cell of the file is a cell of the document |
| XML-RPC server (`xmlrpc/`) | one document | get a cell, list the sheets | read only |

They interact by calls on shared data. Lua programs and the server's threads call `lookat` on the
current sheet of a document; `lookat` allocates a cell from the sheet's cache, which takes its slab
descriptors from one cache shared by all. Formulas hold pointers to cells, bound while a text is parsed;
`recalc` holds pointers to formula cells; range functions look cells up again on each evaluation and
create those that are missing. The server's threads share the list of sessions, the caches, the packer
`pk`, the pool `mempool` and the static variable of `atbl`; nothing guards any of them (the mutexes of
`session.c` are local variables of the function that locks them).

Hard to test are: long mixes of allocations and frees (list moves), writes through pointers taken before
other cells were created, the order in which formulas are evaluated and how many calls they need, a
cache that is built once, a current sheet that several callers change, files read after one another into one
document, files that end half way, column names that two functions read differently, interleavings of the
registry's accesses, a session closed while others are open, and keys, scrolling and resizes mixed. The
list with lines is under `hazards` in `PROJECT.json`.

## 2. The modules

    ObjPool <---refined by--- SlabCache <---refined by--- SlabPtr
                                 |                           |
                                 +-- SlabMemory (shared) ----+   <--- SlabCacheProofs (both)
    SheetMap <--refined by--- Workbook   (MCWorkbook)   <--- WorkbookProofs
    Recalc     (MCRecalc)     <--- RecalcProofs
       ^--refined by--- RecalcScan
    Documents  (MCDocuments)  <--- DocumentsProofs
    Columns <--- Ranges (MCRanges)  ;  Viewport   <--- DisplayProofs (all three)
    Sessions   (MCSessions)   <--- SessionsProofs
    Server     (MCServer)     <--- ServerProofs
    Lemmas     (what the proof modules share)

**SlabMemory** is what the two models of the allocator have in common: the sizes of a cache, the addresses a slab can have, `held`, the
totals and the pages, which are the same whether the lists are sequences or pointers.

**SlabCache** is one `struct Objs_cache`. A list of slabs or a chain of free objects is the sequence its
pointers spell; `free_slabs`, `partial_slabs`, `full_slabs`, the counters and `chain` are the fields of
the same names (`chain[s]` is `first_free_obj` and its links). An allocation is one of three actions, as
the branches of `objs_cache_alloc`: `AllocFromPartial`, `AllocFromFree`, `AllocFromNew`. A free is `Free(o)`
with one disjunct per change of state of the slab; the freeing policy runs inside it. `held` is what
the callers have. The two formulas for the number of objects of a slab, `ObjsPerSlab`
(`_objs_cache_init`) and `SlabObjs` (`create_slab`), are both kept: they differ when the descriptor is
on the slab, unless the slab has exactly two pages; the only such cache, that of the descriptors, has slabs of one page. `munmap` succeeds on page addresses only, and the code
passes the descriptor's.

**SlabPtr** is the same operations (`PtrInit`, `PtrNext`, ...) on `prev`, `next`, `first_free_obj` and `if_free.next`, with the macros of
`queue.h` as operators on a memory. Its refinement mapping walks the pointers and gives the sequences.

**ObjPool** is what the allocator promises: a growing pool of slabs, objects in use, an
allocation that takes any object not in use, and grows only when there is none, and a free that may forget slabs
without objects in use.

**Workbook** is `sheet.c`: sheets at addresses, linked by `next` and `prev`, `first_sh`, `last_sh`,
`cur_sh`; cells numbered in order of allocation and hash chains as sequences of numbers. Coordinates keep
the widths of the code: `Signed` cuts to a `short` when a cell stores them and to an `int` in `HASH`.
The actions are the calls of the Lua bindings and of `process_msg`: create, delete and select a sheet,
set a number or a label, and read, which creates the cell as well. After `delete_sheet` the current sheet dangles
and a call through it is undefined; `Usable` keeps such calls out. `SheetMap` is the abstract
document: an order of names and a map from coordinates to contents for each.

**Recalc** is `calc.c` under the calls of one program, from an empty document on: `NewSheet`, `Select`, `SetNum`, `LoadFormula`, `Recalc` and `RecalcCrashes`. A cell
is named by its sheet and coordinates (Workbook shows that the pointer and the lookup agree). A text is a number, which leaves no
expression, a reference, bound when the formula is loaded, a sum over a column, resolved at every evaluation, or one the parser refuses, of which only
the cell that the lexer looked up stays. A range names no sheet: the lexer has no token for it, so it is always a range of the current sheet. The kinds of
expressions differ in the cells they read and create, which is what the order of evaluation and the
cache depend on. The cache's order is that of the scan: sheet, column, row. A cached cell over which a number or a refused text is loaded has no expression any more, and the
next recalc reads through a null pointer (`RecalcCrashes`, `calc.c:95`). `Select` takes names of sheets that are there: another name leaves `cur_sh` null, which is in Documents.

**RecalcScan** takes the first recalc apart: the loops over sheets, columns and rows, one cell per action. The bounds of the loops are the extents, which grow when a range function makes
cells, and `cur_sh` is the outermost loop's variable. Recalc has all this as one pass over the formulas that are there when the call begins; that the two agree is the property `RecalcInOneStep`.

**Documents** is how contents get into a document: `plugin.c` (`plug_ins`, the readers that were found, newest first), the
readers `csv.c`, `html.c` and `xlsx.c`, and the calls of `lua.c`. `doc` is the `struct roman`: the order of the sheets, for each its cells and
its extents (`maxrow`, `maxcol`), and `cur_sh`; a cell is its `struct Ent`, with the flags `VAL`, `RP_LABEL`, `RP_FORMULA`. `csv` holds the static
counters of `csv.c`, `status` says whether the process still runs or what ended it (a missing CSV file, an empty caption, whose text `html.c:117` and `159` read without a look, a sheet that is not there), and `loaded`, the files read so far, is a history variable that only properties and a bound
read. A load is one action (`Load`). A reader is a loop over its file (`Loop`, the state after so many turns), and its state has the counters the code keeps: line and column in `cb1` and `cb2`, the place of
the next `td` in `html_read_td` and `html_read_row`, the numbers of the tables in `traverse_dom_trees`, which goes over a tree given as its nodes in document order, the return code in `ReadSheet`, which goes over the parts of a
workbook; a formula looks its references up one after the other as the lexer does (`getAST`). What the libraries deliver (rows of fields, a DOM, the XML of a part) is the form of a file in `Files`, and
`DocumentsAssumption` says what every file has by that form: rows and fields are sequences, a node comes after the one that holds it, the sheets of a workbook have names of their own and the cells of a sheet
addresses of their own, and formulas name sheets of their workbook. `export` is
what `util.c` prints of a sheet, and the properties look at the document through it. The second half of the module tells what a file holds from the file alone
(`CsvHolds`, `HtmlHolds`, `XlsxHolds`): by the index of a field, the number of siblings before a node, the address of a cell.

**Columns** is the three functions that translate column names: `convert` for formulas, `atocol` for the cells of a workbook, `coltoa` for headings. A name
is the sequence of its letters.

**Ranges** is `function.c`: the seven range functions share two nested loops, and an action is one iteration (`Visit`), the step to the
next column (`NextColumn`) or the return. `row1`, `col1` and `acc` are the local variables, `cells` is the sheet, on which `lookat` creates
cells; `call` holds the arguments and the sheet as it was. Numbers are integers, and an average or a variance is kept as a pair. That `row1` is not reset at the next
column is in `RowOfNextColumn`; Recalc's `RangeCells` is the same loop seen as one step.

**Sessions** is `session.c` under the server's threads. `create_session` is three actions, `TakeId` (malloc, and
the id from the head), `Link` (`p->next = sessions`), `Publish` (`sessions = p`), since its mutex excludes
nobody; `Bye` is `close_session`. A freed chunk keeps its `id` and `next` (they lie past the words the allocator uses), is reused by a
later `malloc`, and is reported when freed twice (`aborted`).

**Server** is `server.c` with its clients. `Main` has the steps of the main thread: the test of `got_SIGINT`, `accept` with
the start of a thread, the joins. A thread (`Start`, `Read`, `Handle`, `Send`, `Clear`, `Close`) is named
after its client. `pk` is the thread whose buffer the global packer writes to and `sbuf` the
buffers: `Handle` packs into `sbuf[pk]`, `Send` sends the thread's own. A socket is the sequence of the messages on it; a read
takes any part of what is there and decodes the first message, as `msgpack_unpack` on the whole
buffer does. A client goes through the requests of `client.c` or `tui.c` (`Script`) and waits for one read after each. The
sessions are the list of `Sessions` with each call as one step, a sheet is a map from places to numbers. `Faults` says which
requests end the process, since `process_msg` checks neither the session nor the sheet it finds (its TODO comments). Three constants say what
the environment may do: `Overlap`, `Mortal` and `KillPoints`.

**Viewport** is the terminal client's cursor and window: `row` and `col` are axes with the cursor, the first and
the last line shown; `calc_offscr` is the rule both functions of `tui.c` share; `drawn` is what was on the
window when the cells were last drawn. A key is an action, a resize changes `height` and `width` alone. Its specification is `ViewSpec`.

Names that end in the fault they seed (`TakeFromKeepingHead`, `NextIdFromZero`, ...) are altered copies of a
definition. No specification uses them: each is a plausible mistake that one of the properties finds when it
replaces the original.

## 3. What is checked

| Run | Bounds | Shows |
|---|---|---|
| `slab_cache` | 4 slabs of 3 objects, 1 free slab kept | types, `ChainHoldsTheRest`, `ListsByFill`, `ListCounters`, `Totals`; implements `ObjPool` |
| `slab_pointers` | 4 slabs of 2 objects | links are consistent (`WellLinked`); implements `SlabCache` (`CacheSpec`) |
| `workbook` | 3 sheets, 2 colliding cells each, 2 cells at once | `ListSound`, `CellsFindable`; implements `SheetMap` (`MapSpec`) |
| `recalc` | 2 sheets, 3 formulas out of 9, numbers mod 2, `MaxQuiet` 3 | `SettlesInTime`, `CacheIsCurrent`, `OnlyFormulasChange`, `RangesReadFirstSheet`; `RecalcScan` implements `Recalc` (`RecalcInOneStep`) |
| `recalc_selection` | 2 sheets, 1 formula | counterexample, see below |
| `sessions` | 3 clients, 3 chunks, ids to 4 | `LookupsEnd`, `OwnDocument`, `CloseFreesOwn` |
| `sessions_race` | 2 clients, 2 chunks | counterexample, see below |
| `server` | 3 clients one after the other, one may be killed between requests | `OwnReplies`, `NoCrash`, `Served`, `ServerEnds` |
| `server_two` | 2 clients at once | counterexample, see below |
| `viewport` | windows of 1 or 3 rows, 2 or 3 columns, cursor to 5 | `CursorShown`, `WindowFits`, `ScreenIsCurrent`, `ScrollsByOne` |
| `documents` | 3 loads out of 11 files, one cell, number, text and sheet of the program's | `FormulasBound`, `LoadedIsShown`, `LoadKeepsRest`, `FreshIsExact` |
| `ranges` | 7 functions, 6 corners, 128 sheets of 3 rows | `ResultIsRight`, `ReadsOnly` |

Why the bounds are enough: four slabs give every list a head, a middle and an end while another is on a second
list; three objects give a slab all three fill levels, a chain with a rest, and a free after which it is still partial
(`slab_pointers` does with two). Slabs of one object, which go from free to full and back in one step, are covered by the theorems of
`SlabCacheProofs`, which hold for every size. A free list of one slab makes the policy drop a slab while one stays. Three sheets are a first, a
middle and a last node; two cells on one chain are a head and a rest, and two at once (`FewCells`: a document with three is checked but not
explored further) share a chain or lie on two sheets. Three formulas on two
sheets are chains of references along and against the scan, cycles and self-references, with `MaxQuiet` = 3 covering one
call more than the longest such chain needs, and numbers counted modulo 2 tell a value from the one a step earlier; the ranges reach rows and columns the loops have
yet to come to, on this and that side of the formula. Three sessions are the head, its successor and a third beyond,
which `close_session` treats in three ways; ids up to 4 let a session be opened after a close. Three clients fill `thLanzados`, in any order,
with a client before and after the one that is killed; the scripts write, read back, and read a cell that is not there. Three loads let a file meet one
of the same kind, one of another kind and itself, in any order; the eleven files have two tables side by side, inside a cell (with a `td` after it) and inside each other, a table with two captions, one whose caption is empty, an empty `td`, a text in pieces, references to an earlier and a
later sheet, a formula that is a number and one the parser refuses, dates with and without a type, a part that is missing in the middle, missing styles, and one missing file
of each kind; they share sheet names and the cell the program writes. In `ranges`, corners in columns A, AA and AD with rows 1 and 3 are ranges of one cell, of one and of several columns, and ranges the wrong way round; a column
has every mix of a negative number, a positive number, a blank cell and no cell. In the viewport
only the cursor's distance to the window's ends matters, and a window of one line is the smallest.

Bounds that stand for unbounded counters: `FewCells` of `workbook`, `MaxFormulas` (always below 513, where the size given to
`realloc`, `calc.c:113-118`, shrinks the cache to one pointer), `MaxQuiet`, `MaxId`, `MaxCell`, `MaxLoads`, and the sets of addresses
(`Slabs`, `Sheets`, `Chunks`). Deadlock checking is off where the programs may stop: all slabs
in use, all addresses used up, an ended id range, an aborted or crashed process, an ended server, a quit terminal, a program whose current sheet is null, a function that
has returned. That is every run here; that nothing waits for ever is what `Served` and `ServerEnds` say of the server.

Symmetry reduction is used for sheets and names, threads and chunks, which only safety properties are checked
with.

Conditions inside the properties are the code's own limits, and each marks where the promise ends:

- `LookupsEnd` and `OwnDocument` speak of the time before the first close: afterwards the list holds freed chunks.
  `OwnDocument` also asks that no two `create_session` calls overlapped, for two that do can get one id.
- `CloseFreesOwn` speaks of the newest session and the one before it.
- `TakeId` reads the head once. The code reads it twice, for the null test and for the id; a close of the head in between would make the second read go through
  a null pointer and is left out.
- `CacheIsCurrent` is about programs that load their templates before the first recalc that finds a formula. A formula that is loaded later is never evaluated, and a number or a refused
  text over a cached formula ends the process.
- `RangesReadFirstSheet` speaks of the second recalc on, of programs that have not selected, made or loaded a sheet since the recalc before, and of ranges without a formula
  that is evaluated later in the pass.
- `FreshIsExact` speaks of sheets that the load created: reading into an old sheet merges, cell by cell and flag by flag. It asks that no two
  tables of a page meet on one sheet (`OneTablePerSheet`), as they do when tables without a caption are nested; `LoadedIsShown` holds there too, for the
  cells of the table read last. `LoadedIsShown` and `LoadKeepsRest` are about loads that leave the process alive: `csv_read` goes on with a null stream when its file is missing, and `html.c` takes the text of a caption without a look. A caption's first child is taken to be its text.
  Cells that the program writes itself (`l_setnum`, `l_setstr`) do not move the extents, so a dump may omit them; no property says it shows them.
- `ResultIsRight` says what the code computes for a range: the first of its columns. Corners are in A to AZ, where the reader and the formulas agree on
  columns (`AgreedExactly` below).
- The server's properties hold for clients one at a time. With two at once `server_two` shows what happens. They also need a client to be killed
  only between requests: with `"reading"` in `KillPoints` TLC finds `OwnReplies` and `NoCrash` violated, since the old thread packs
  its late reply into the buffer of the next client, which takes it for the reply to HELO, keeps session id 0 and sends it.
  `ServerEnds` is about servers none of whose clients was killed: the thread of a killed client reads 0 bytes for ever. `NoCrash`
  ends with `MAXCLIENTS` connections, for nothing counts them.
- `WindowFits`, `ScrollsByOne` and half of `ScreenIsCurrent` end at a resize: nothing is drawn then.

### Disagreements

- `recalc_selection`: a recalc makes the first sheet current, so that the loop of `README.md:32-42`, which selects its
  sheet once, writes to the first sheet from its second turn on. TLC's trace: a formula loaded into a first sheet, recalc (the scan), a second sheet made and selected, recalc.
- `sessions_race`: `create_session` locks a mutex of its own stack, so that two clients that connect at once can get the same id; the document of one of them is on no list
  then, and both work on the other (against `session.c:7`).
- `server_two`: with two clients connected, replies go into the buffer of the thread that was started last, and a client waits for ever.

Two more are not runs of their own. Closing the newest session sets the head to null (`session.c:49`), so that the sessions of all other clients are lost: their close
finds nothing and frees nothing (against `session.c:33-34`). Closing another one frees the head's successor, whichever session that is (`FreedByWalk`);
`CloseFreesOwn` says how far it is right. And `README.md:37` sets cell A2 with `lsetnum(2,0,..)`, row first as its comment has it, while `l_setnum` takes the column first
(`lua.c:198-199`).

### Fairness

Server assumes fairness (`FairSpec`), weak and per process: the main thread, each connection thread and each client program take a step they can take
for ever, as the kernel's scheduler sees to. A blocked `accept` or `read` is a step that is not enabled. Nobody is obliged to connect, to send
SIGINT or to kill a client. That a client goes through its script holds for `client.c` by itself and for `tui.c` when its
user ends it.

All other properties are safety properties. Settling of values is stated with the counter `quiet` as a bound on the
number of calls, since nothing in the library makes a program call `recalc`.

## 4. What is proved

`Lemmas` has what the proofs of several components need: induction over the natural numbers with a set in the place of a
predicate (`SetInduction`, `BoundedInduction`), the least and the greatest of a set, the iteration of a function (`Iteration`); sequences without
repetition (adding a head or an end, taking a tail, removing an occurrence, dropping a prefix); and finite sets: induction (`FiniteInduction`), what the
library's sums and products over a set are when an element is added (`Summing`, `Multiplying`, from `FoldsExist` and `FoldsAnyOrder`: a commutative step gives the same
result in any order), and the places that a linear order gives to the elements (`Ranking`).

`SlabCacheProofs`, for every finite or infinite set of slabs, every number of pages and objects and every limit of the free
list, under `OffSlab` (the descriptors are in another cache, as `objs_cache_init` sets up; then the two formulas
of slab size agree):

- `TypeCorrect`, `NoObjectTwice`, `ListsCorrect`, `CountersCorrect`, `TotalsCorrect`: `TypeOK`, `ChainHoldsTheRest`, `ListsByFill`,
  `ListCounters` and `Totals` always hold;
- `Implements`: `Spec => PoolSpec`.

The inductive invariant `IInv` is their conjunction with `Counting`, which says that what is counted is finite and
that the objects of all slabs ever created are `slab_count * SlabObjs`. None of the parts is inductive alone: which list a
slab is moved to depends on the length of its chain, what `ListsByFill` says of the list on what the callers hold, and
`ChainHoldsTheRest` ties the two (lemma `FillLevels`); a counter stays in `Nat` when it is decremented because it is the length of
a list that is not empty (`ListCounters`) or the number of objects in use (`Totals`); and the pool grows only when it is exhausted because the
partial and free lists are empty then and every object's slab is on a list. The proof of a step has a lemma for each action, and lemmas for
the two slab operations (`TakeStep`, `PutStep`) and the freeing policy (`PolicyStep`) that the actions share.

The second half of `SlabCacheProofs` is about SlabPtr, in any finite memory (`PtrAssumption`): `PtrImplementsCache` (`CacheSpec`) and `LinksCorrect` (`WellLinked`).
SlabPtr computes the variables of SlabCache from its pointers; to use the proofs above, the proof module extends both and so has both sets of variables, and `Spelt` says that the first are what the second
spell. The theorems have the form `PtrSpec /\ []Spelt => ...`: the sequences are given by the pointers in every state, so that `[]Spelt` takes no behaviour away (it does what the substitutions of SlabPtr's
`INSTANCE SlabCache WITH ...` do). The inductive invariant `PtrInv` adds to `IInv` that the links spell the three lists in both directions, no slab twice, and that a slab on no list has no link (`Spells`), and
that each slab's chain of free objects is spelt by its links (`AllSpell`). Each macro of `queue.h` maps lists that are spelt to lists that are: `PushSpells`, and for the deletion of the head or of any element that
the neighbours point past it afterwards (`PointPast`, `PastSpells`); the loop of the freeing policy does so one slab at a time (`PolicySpells`). `WalkSpells` shows that SlabPtr's bounded walk returns what is spelt. Then
each operation on the pointers is the operation of SlabCache, and `IInv` does the rest: the element passed to `dlist_delete_el_generic` is on the list it is deleted from by `ListsByFill`.

The second half of `DisplayProofs`, on Viewport, for every set of terminal sizes and every bound on the cursor: `ViewTypeCorrect` (`ViewTypeOK`), `CursorNeverLost`, `WindowKeepsSize`, `ScreenAlwaysCurrent`,
`ScrollingIsSmooth`. The inductive invariant is the conjunction of the type invariant and the safety properties: that the window does not jump needs
a window as large as the terminal that held the cursor before the key. The rule `calc_offscr` is studied on one axis
(`CalcHolds`, `CalcFits`, `CalcNear`), then each key moves one axis.

`SessionsProofs`, for any number of threads and every finite memory: `TypeCorrect`, `NoLookupHangs` (`LookupsEnd`), `ClientsKeepDocuments` (`OwnDocument`),
`FirstCloseIsRight` (`CloseFreesOwn`). The inductive invariant has two layers beside the types. `Acyclic` holds until a close, however the threads interleave: a session is linked
in front of one that was linked before it, so some rank decreases along `next`, whichever sessions are lost from the list on the way. `Counted`, `OneAtATime` and `Owned` hold while no two
calls of `create_session` overlap as well: the ids count down by one along the list, the session being linked will be the next number, and clients hold open sessions.
That a walk reaches what these promise is induction along `next` (`WalkEnds`, `OwnFound`), with `Walk` shown to be what its recursive definition says (`WalkFacts`).

`ServerProofs`, for any scripts and any number of clients up to `MAXCLIENTS`, when one client is connected at a time and is killed between its requests if at all
(`OneByOne`, `FewClients`; `server_two` and the remark on `KillPoints` above show that neither can be dropped): `TypeCorrect`, `RepliesAreOwn` (`OwnReplies`), `ServerSurvives` (`NoCrash`).
The inductive invariant says at which stage the one connected client and its thread are together: at most one message is under way between them, in one of the two
sockets or buffers; `pk` names that thread from its start on; the head of the registry is the session the client created, and its only sheet holds what the requests sent so far have written (`CellsAfter`).
The threads of clients that were killed are part of it too: each reads nothing for ever, and touches neither `pk` nor the registry.

`WorkbookProofs`, for any finite set of sheets, table size and width of the fields. Without further conditions: `ListWhole` (`ListSound`) and `TypeCorrect`. The invariant
`ListInv` has the list as a witness, a sequence of all sheets in memory that `next` follows forwards and `prev` backwards from `first_sh` to `last_sh` (`Spells`); `INSERT` and
`REMOVE` map it to that sequence with a sheet appended or removed, in each of the places a sheet can have, and the recursive `Walk` is shown to return it (`WalkSpells`).
If the coordinates of the calls are the same when stored in a cell (`CoordinatesFit`: rows and columns fit a `short`): `NoCellLost` (`CellsFindable`) and `Implements` (`MapSpec`). The invariant of the first says of
each sheet that its cells are on the chains of their coordinates, that no two share coordinates and that they are within the extents (`Sound`). The second puts both invariants together: the list depicts an order of
names, and the cells of each sheet a map (`Depicts`); each call is the step of `SheetMap` of its name or leaves the map alone.

`RecalcProofs`, for any sheets, formulas and inputs, any number of recalcs and every `MaxQuiet`: `TypeCorrect`, `CacheStaysCurrent` (`CacheIsCurrent`), `OthersKept` (`OnlyFormulasChange`), `Settles`
(`SettlesInTime`) and `RangesOfFirstSheet` (`RangesReadFirstSheet`). That a cell is good includes that a reference's pointer is one of the cells (`Shaped`). A pass over formulas is a recursive function, shown to exist and to
keep at every stage what is not a formula (`PassExists`, `PassKeeps`); the scan is shown to be an enumeration of the formulas without repetition (`ScanFacts`, by `Ranking`: sheet, column and row
order cells linearly, and the extents reach all of them). Values settle because of a property that one evaluation keeps (`SoundStep`): the cells of a set hold what their formulas ask for and read cells of the set only. Evaluating one of
them again changes nothing, and evaluating another changes nothing that they read; a pass adds those whose reference is in the set when their turn comes. `SettlesInTime` alone is not inductive: it
says that the values are right, and not that the cells they are computed from have settled too. The inductive invariant `IInv` adds this (`Sound`), that cells are made on sheets that are there (`Sheeted`, which also has the first sheet
current after a recalc), and `CacheIsCurrent`, which is inductive with `late => cache /= <<>>` and also keeps a late first scan from being counted as a second pass: while the cache is empty after a recalc there is no formula.
That a range function shows the sum over the first sheet as it is after the pass, and not only when its turn comes, is because the rest of the pass writes only the formulas that are left (`PassRest`) and the cells it makes are blank (`TotalKept`).

The first half of `DisplayProofs` proves of the three functions of Columns, for all 702 names: `HeadingsAreRead` and `NamesAreHeadings` (`atocol` and `coltoa` are inverse to each other) and `AgreedExactly`
(`convert` and `atocol` agree on A to AZ and nowhere else: a formula that names BA means AA). For every sheet and every range in the columns A to AZ: `TypeCorrect`, `NothingWritten` (`ReadsOnly`) and `ResultRight`
(`ResultIsRight`, all seven functions). The inductive invariant adds to them where the loops are (`Position`: rows are left only in the first column) and what has been
gathered of the numbers in the rows behind (`Gathered`: their count, sum, sum of squares or product, or one of them that is a bound of all). That the cells visited are those the reader placed rests on
`AgreedColumn`; that the running sums are those of the reference definitions on `Summing` and `Multiplying`; STDEV's one-pass formula gives the sum of squared deviations by the
identity of lemma `Deviations`.

`DocumentsProofs`, for any files of the form above, any number of loads and any calls between them: `TypeCorrect`, `FormulasAreBound` (`FormulasBound`), `LoadsKeepTheRest` (`LoadKeepsRest`), `LoadsAreShown`
(`LoadedIsShown`) and `FreshSheetsAreExact` (`FreshIsExact`), which are all properties of the run `documents`. The inductive invariant `DocInv` says that the document is one that `new_sheet` and `lookat` can make (`IsDoc`) and that each
formula is one of a workbook loaded, with references to cells that are there (`Backed`): the second is what makes `FormulasBound` inductive, for a later load may add cells and replace formulas, but takes no cell away. What holds
between the start of a reader and any of its turns is the relation `Reading`: no sheet, cell or extent is lost (`Grown`), cells change among those of the file and blank ones are added among those its formulas name (`Within`). It gives
`LoadKeepsRest` at once; what a load brings needs more, a relation for each reader that tells where the loop is: `Labels`, that the fields before the counters are labels at their places and all else is as it was; `Filled`, that of the `td` read so
far the last one at each place is there, with `Numbered` and `Count` for what `tbl_nr`, the row and the column have reached; `Became` and `ReadSheets`, that the cells of the parts up to the first missing one have become what they hold. Then `Left` says what a load of any kind leaves, and lemmas on `export` that this is printed (`LoadedIsShown`), and for a sheet that was not there, nothing else (`FreshIsExact`). Each
loop has a lemma of its own for its turns, since a lemma about `Loop` would take the turn as a parameter. The attempts to prove corrected three definitions on which TLC had found nothing: `HtmlHolds`, which of the `td` at one
place took the one that comes last on the page, though the code reads a table in a `td` after the table that `td` belongs to; `Title`, which took any of a table's captions where the code takes the last; and `Held`, whose cases overlapped for a missing file. The
pages of the run now have both cases.

The assumptions are those of the modules on their constants (`SizesAssumption`, `ViewportAssumption`, `RangesAssumption`, `RecalcAssumption`, `SessionsAssumption`, `ServerAssumption`,
`WorkbookAssumption`, `PlacesAssumption`, `PtrAssumption`, `DocumentsAssumption`), which TLC evaluates in the runs, and `OffSlab`, `CoordinatesFit`, `OneByOne` and `FewClients`, which the theorems that need them name. `SizesAssumption` and
the like say what the code has by its types: sizes are positive, null is no address, names and scripts are what callers can pass. In the server, `ServerAssumption` has scripts begin with HELO and
the creation of a sheet and end with the deletion of the sheet and BYE, as `client.c` does.

Only model-checked, because liveness is out of the prover's reach: `Served` and `ServerEnds`. Only model-checked as well, and in the prover's reach: `RecalcInOneStep`; a proof needs
an invariant that relates each stage of the loops to a stage of the pass. Every other property of a passing run is a theorem, for every value of the constants that these assumptions admit.

## 5. What is not modelled

Not yet, see the plan: the server's labels and ranges of cells, its threads inside `lookat` and the allocator, the tree of an expression (arithmetic, the ownership of nodes, and
IF, which reads through a pointer nobody set, `calc.c:48`), the key buffer of `tui.c`, `makeArgs`, several documents in one Lua program. For good:
file and XML parsing by libraries, socket set-up, curses calls other than their effect on the window's
contents, output formatting, code that is not compiled (`growtbl` and `checkbounds` of `sheet.c`, `luasc.c`,
`bak/`, `tui/rui2.c`, `html2.c`), the XML-RPC server, which only reads cells, the vendored `csv.h`. A failing `malloc`, `calloc` or `mmap` is not modelled: the code does not look at
the result of the first two and asserts on the third. Floating point is replaced by numbers counted modulo a constant.

## 6. Plan

1. Done: the allocator, its pointer code and proofs; sheets and cells; recalculation; the readers, the registry and the Lua calls; column names and range functions with
   their proofs; sessions; the server with its clients; the viewport.
2. `Service`: an abstract request/reply service, one document per client, that Server implements when clients come one at
   a time. `Threads`: two threads inside `lookat` (the static variable of `atbl`) and inside `objs_cache_alloc`, and the
   re-initialised caches.
3. `SlabLayout`: the bytes of `create_slab`. `Expressions`: the tree of a formula and the ownership of its nodes over parsing, loading and deleting; `KeyBuffer`: the input buffer of `tui.c`.
4. Documents and Recalc in one module, with `delete_sheet` under the cache. (What a load after a recalc does to the cache is in Recalc.)
5. Proofs: done for all safety properties of the runs but `RecalcInOneStep`, which is next. For a module to come, its proofs come with it, the refinement of `Service` by Server first.
