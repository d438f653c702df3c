----------------------------- MODULE MCWorkbook -----------------------------
(* The document of Workbook on a few sheets and coordinates. *)
EXTENDS Workbook, TLC

Symmetry == Permutations(Sheets) \cup Permutations(Names)

(* Two coordinates that collide in a table of two chains: HASH is
   (5 row + col) % 2 for shorts of two bits. *)
Colliding == {<<0, 0>>, <<1, 1>>}

(* Bound of the run: a document with more than two cells is checked but not
   explored further.  Two cells are enough to share a chain of one sheet or
   to lie on two sheets. *)
CellsOn(s) == {s} \X DOMAIN sheet[s].ents
FewCells == Cardinality(UNION {CellsOn(s) : s \in DOMAIN sheet}) <= 2
=============================================================================
