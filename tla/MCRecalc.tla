------------------------------ MODULE MCRecalc ------------------------------
(* Recalc and RecalcScan on two sheets of up to two columns and two rows. *)
EXTENDS RecalcScan

CONSTANTS s1, s2

MCSheets == <<s1, s2>>
Ref(sh, r, c) == [type |-> "ref", sheet |-> sh, row |-> r, col |-> c]
Refused(sh, r, c) == [type |-> "refused", sheet |-> sh, row |-> r, col |-> c]
Sum(c) == [type |-> "f", col |-> c, row1 |-> 0, row2 |-> 1]
Number(n) == [type |-> "number", val |-> n]

(* The program sets one cell of the sheet it has selected: others refer to it,
   and it may have a formula itself. *)
MCInputs == {<<0, 1>>}

(* References with and against the scan order, within and across sheets, in
   a circle and of a cell to itself; ranges that make rows and columns the scan
   has yet to reach, on both sheets and with formulas in them; a constant and a
   refused text that replace a formula. *)
MCFormulas ==
  { <<<<s1, 1, 0>>, Ref(NULL, 0, 1)>>,   <<<<s1, 1, 0>>, Number(1)>>,
    <<<<s1, 0, 1>>, Ref(s2, 0, 1)>>,     <<<<s1, 0, 1>>, Sum(0)>>,
    <<<<s1, 0, 1>>, Ref(NULL, 0, 1)>>,
    <<<<s2, 0, 1>>, Refused(s1, 0, 0)>>, <<<<s2, 0, 1>>, Sum(0)>>,
    <<<<s2, 0, 1>>, Ref(s1, 1, 0)>>,     <<<<s2, 0, 0>>, Sum(1)>> }
=============================================================================
