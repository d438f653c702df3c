------------------------------ MODULE MCRanges ------------------------------
(* Ranges over the columns A, AA and AD.  One column holds numbers, blank cells
   or nothing in its three rows; the others hold another number. *)
EXTENDS Ranges

MCCorners == {<<0>>, <<0, 0>>, <<0, 3>>} \X {1, 3}

Cols == {0, 1, 26, 29}

Absent == 99

Column3 == [1..3 -> {Absent, None, -2, 3}]

Filled(c, f) ==
  LET all == [p \in (1..3) \X Cols |-> IF p[2] = c THEN f[p[1]] ELSE 7]
  IN [p \in {q \in DOMAIN all : all[q] /= Absent} |-> all[p]]

MCSheets == {Filled(c, f) : c \in {0, 26}, f \in Column3}
=============================================================================
