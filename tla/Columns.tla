------------------------------- MODULE Columns -------------------------------
(***************************************************************************)
(* The names of columns.  A name is the sequence of its letters, A being 0:*)
(* the lexer admits one or two.  Three functions translate them: convert   *)
(* (sheet.c) for the references and ranges of formulas, atocol (xlsx.c)    *)
(* for the cells of a workbook, and coltoa (sheet.c and tui.c) for the     *)
(* headings that are shown.                                                *)
(***************************************************************************)
EXTENDS Integers, Sequences

Letters == 0..25

ColumnNames == {<<a>> : a \in Letters} \cup {<<a, b>> : a \in Letters, b \in Letters}

(* Seeded fault: the count of letters is one behind. *)
convertBehind(s) == s[Len(s)]

(* Every letter overwrites the value with 26 times the letters before it plus
   its own: what a first letter is is forgotten. *)
convert(s) == (Len(s) - 1) * 26 + s[Len(s)]

atocol(s) == IF Len(s) = 2 THEN (s[1] + 1) * 26 + s[2] ELSE s[1]

coltoa(col) == IF col > 25 THEN <<col \div 26 - 1, col % 26>> ELSE <<col>>

(* The names convert and atocol give the same column to: A to AZ. *)
Agreed == {s \in ColumnNames : Len(s) = 2 => s[1] = 0}
=============================================================================
