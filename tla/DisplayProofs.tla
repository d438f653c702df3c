---------------------------- MODULE DisplayProofs ----------------------------
(***************************************************************************)
(* What a user reads on the screen: the names of the columns, the results  *)
(* of range functions, and the window that is shown.                       *)
(*                                                                         *)
(* First the three translations of column names, for every name the lexer  *)
(* admits and every column one can name; then the range functions on every *)
(* sheet, for every range whose corners are in the columns that convert    *)
(* and atocol agree on.                                                    *)
(*                                                                         *)
(* Last the window of tui.c for terminals of every size and any number of  *)
(* keys.  The invariant is the conjunction of the safety properties: each  *)
(* needs the others.  The rule that moves the window is studied on one     *)
(* axis first, then each key is one axis moved and the screen drawn or not.*)
(***************************************************************************)
EXTENDS Ranges, Viewport, Lemmas

(* A to ZZ. *)
ColumnNumbers == 0..701

LEMMA NameCases ==
  ASSUME NEW s \in ColumnNames
  PROVE  \/ \E a \in Letters : s = <<a>>
         \/ \E a, b \in Letters : s = <<a, b>>
BY DEF ColumnNames

(* The heading coltoa shows over a column is the name that atocol reads as that
   column (sheet.c:163, xlsx.c:50): what a user sees, a file can name. *)
THEOREM HeadingsAreRead ==
  \A c \in ColumnNumbers : coltoa(c) \in ColumnNames /\ atocol(coltoa(c)) = c
<1>. SUFFICES ASSUME NEW c \in ColumnNumbers
              PROVE  coltoa(c) \in ColumnNames /\ atocol(coltoa(c)) = c
  OBVIOUS
<1>1. CASE c <= 25
  <2>1. coltoa(c) = <<c>> /\ c \in Letters
    BY <1>1 DEF coltoa, ColumnNumbers, Letters
  <2>. QED BY <2>1 DEF ColumnNames, atocol
<1>2. CASE c > 25
  <2>. DEFINE a == c \div 26 - 1  b == c % 26
  <2>1. a \in Letters /\ b \in Letters /\ (a + 1) * 26 + b = c
    BY <1>2 DEF ColumnNumbers, Letters
  <2>2. coltoa(c) = <<a, b>>
    BY <1>2 DEF coltoa, ColumnNumbers
  <2>. HIDE DEF a, b
  <2>. QED BY <2>1, <2>2 DEF ColumnNames, atocol
<1>. QED BY <1>1, <1>2 DEF ColumnNumbers

(* No two names are the same column to the Excel reader, and every name is a
   heading: atocol is one to one onto the columns. *)
THEOREM NamesAreHeadings ==
  \A s \in ColumnNames : atocol(s) \in ColumnNumbers /\ coltoa(atocol(s)) = s
<1>. SUFFICES ASSUME NEW s \in ColumnNames
              PROVE  atocol(s) \in ColumnNumbers /\ coltoa(atocol(s)) = s
  OBVIOUS
<1>1. ASSUME NEW a \in Letters, s = <<a>> PROVE atocol(s) \in ColumnNumbers /\ coltoa(atocol(s)) = s
  BY <1>1 DEF Letters, ColumnNumbers, atocol, coltoa
<1>2. ASSUME NEW a \in Letters, NEW b \in Letters, s = <<a, b>>
      PROVE  atocol(s) \in ColumnNumbers /\ coltoa(atocol(s)) = s
  <2>. DEFINE c == (a + 1) * 26 + b
  <2>1. atocol(s) = c
    BY <1>2 DEF atocol
  <2>2. c \in ColumnNumbers /\ c > 25 /\ c \div 26 - 1 = a /\ c % 26 = b
    BY DEF Letters, ColumnNumbers
  <2>. HIDE DEF c
  <2>. QED BY <1>2, <2>1, <2>2 DEF coltoa
<1>. QED BY <1>1, <1>2, NameCases

(* convert, which reads the references of formulas, and atocol, which places
   the cells of the file, agree on A to AZ and on no other name
   (sheet.c:137, xlsx.c:50): from BA on a formula means another column. *)
THEOREM AgreedExactly ==
  \A s \in ColumnNames : convert(s) = atocol(s) <=> s \in Agreed
<1>. SUFFICES ASSUME NEW s \in ColumnNames
              PROVE  convert(s) = atocol(s) <=> s \in Agreed
  OBVIOUS
<1>1. ASSUME NEW a \in Letters, s = <<a>> PROVE convert(s) = atocol(s) <=> s \in Agreed
  BY <1>1 DEF Letters, atocol, convert, Agreed
<1>2. ASSUME NEW a \in Letters, NEW b \in Letters, s = <<a, b>>
      PROVE  convert(s) = atocol(s) <=> s \in Agreed
  <2>1. convert(s) = 26 + b /\ atocol(s) = (a + 1) * 26 + b /\ (s \in Agreed <=> a = 0)
    BY <1>2 DEF atocol, convert, Agreed
  <2>. QED BY <2>1 DEF Letters
<1>. QED BY <1>1, <1>2, NameCases

-----------------------------------------------------------------------------
(* The range functions *)

From == call.from[1]

Calls == [fn : Functions, from : Corners, to : Corners, sheet : Sheets]

Accs == [sum : Int, squares : Int, cnt : Nat]

(* Where the loops are: rows are walked in the first column only. *)
Position ==
  /\ row1 \in Nat /\ col1 \in Nat
  /\ call.from[2] <= row1 /\ convert(From) <= col1
  /\ row1 <= call.from[2] \/ row1 <= Row2 + 1
  /\ col1 <= convert(From) \/ col1 <= Col2 + 1
  /\ col1 > convert(From) => row1 > Row2

(* The numbers in the rows behind the loop. *)
Seen == {p \in Numbers : p[1] < row1}

Squares == [p \in Numbers |-> call.sheet[p] * call.sheet[p]]

(* What the functions hold of the numbers seen. *)
Gathered ==
  /\ call.fn \in {"COUNT", "AVERAGE", "STDEV"} => acc.cnt = Cardinality(Seen)
  /\ call.fn \in {"SUM", "AVERAGE", "STDEV"} => acc.sum = SumFunctionOnSet(call.sheet, Seen)
  /\ call.fn = "PRODUCT" => acc.sum = ProductOf(call.sheet, Seen)
  /\ call.fn = "STDEV" => acc.squares = SumFunctionOnSet(Squares, Seen)
  /\ call.fn \in {"MIN", "MAX"} =>
       \/ acc.cnt = 0 /\ acc.sum = 0 /\ Seen = {}
       \/ /\ acc.cnt = 1
          /\ \E p \in Seen : call.sheet[p] = acc.sum
          /\ \A p \in Seen : IF call.fn = "MIN" THEN acc.sum <= call.sheet[p]
                                                ELSE acc.sum >= call.sheet[p]

IInv ==
  /\ call \in Calls
  /\ Position
  /\ DOMAIN cells \subseteq Nat \X Nat
  /\ acc \in Accs
  /\ ReadsOnly
  /\ Gathered
  /\ result = <<>> \/ (result = Value(call.fn, acc) /\ col1 > Col2)

-----------------------------------------------------------------------------
(* Columns *)

(* A name from A to AZ is the same column to the formulas and to the file. *)
LEMMA AgreedColumn ==
  ASSUME NEW s \in Agreed
  PROVE  convert(s) \in Nat /\ atocol(s) = convert(s)
<1>1. ASSUME NEW a \in Letters, s = <<a>> PROVE convert(s) \in Nat /\ atocol(s) = convert(s)
  BY <1>1 DEF Letters, atocol, convert
<1>2. ASSUME NEW a \in Letters, NEW b \in Letters, s = <<a, b>>
      PROVE  convert(s) \in Nat /\ atocol(s) = convert(s)
  BY <1>2 DEF Letters, atocol, convert, Agreed
<1>. QED BY <1>1, <1>2 DEF Agreed, ColumnNames

LEMMA Corner ==
  ASSUME call \in Calls
  PROVE  /\ call.from[2] \in Nat /\ Row2 \in Nat
         /\ convert(From) \in Nat /\ atocol(From) = convert(From)
         /\ Col2 \in Nat /\ atocol(call.to[1]) = Col2
<1>1. call.from \in Agreed \X Nat /\ call.to \in Agreed \X Nat
  BY RangesAssumption DEF Calls
<1>2. call.from[1] \in Agreed /\ call.to[1] \in Agreed
      /\ call.from[2] \in Nat /\ call.to[2] \in Nat
  BY <1>1
<1>. QED BY <1>2, AgreedColumn DEF From, Row2, Col2

(* The cells the property is about, said with the loop's own column. *)
LEMMA NamedCells ==
  ASSUME call \in Calls
  PROVE  /\ Named = IF convert(From) <= Col2
                    THEN {<<r, convert(From)>> : r \in call.from[2]..Row2} ELSE {}
         /\ \A p \in Numbers : /\ p \in DOMAIN call.sheet
                               /\ p = <<p[1], convert(From)>> /\ p[1] \in call.from[2]..Row2
                               /\ call.sheet[p] \in Int /\ call.sheet[p] /= None
<1>1. Named = IF convert(From) <= Col2
              THEN {<<r, convert(From)>> : r \in call.from[2]..Row2} ELSE {}
  BY Corner DEF Named, Column, From
<1>2. call.sheet \in Sheets
  BY DEF Calls
<1>3. ASSUME NEW p \in Numbers
      PROVE  /\ p \in DOMAIN call.sheet
             /\ p = <<p[1], convert(From)>> /\ p[1] \in call.from[2]..Row2
             /\ call.sheet[p] \in Int /\ call.sheet[p] /= None
  <2>1. p \in Named /\ p \in DOMAIN call.sheet /\ call.sheet[p] /= None
    BY DEF Numbers
  <2>2. call.sheet[p] \in Int
    BY <1>2, <2>1, RangesAssumption
  <2>3. PICK r \in call.from[2]..Row2 : p = <<r, convert(From)>>
    BY <1>1, <2>1
  <2>. QED BY <2>1, <2>2, <2>3
<1>. QED BY <1>1, <1>3

LEMMA NumbersFinite == ASSUME call \in Calls PROVE IsFiniteSet(Numbers)
<1>. DEFINE Rows == call.from[2]..Row2
            RowOf == [p \in Numbers |-> p[1]]
<1>1. IsFiniteSet(Rows)
  <2>1. call.from[2] \in Int /\ Row2 \in Int
    BY Corner
  <2>. QED BY <2>1, FS_Interval
<1>2. RowOf \in Injection(Numbers, Rows)
  BY NamedCells DEF Injection, IsInjective
<1>. QED BY <1>1, <1>2, FS_Injection

(* One number more in a sum, a sum of squares and a product. *)
LEMMA NumbersSummed ==
  ASSUME call \in Calls
  PROVE  /\ SumFunctionOnSet(call.sheet, {}) = 0 /\ SumFunctionOnSet(Squares, {}) = 0
         /\ ProductOf(call.sheet, {}) = 1
         /\ \A X \in SUBSET Numbers :
              /\ SumFunctionOnSet(call.sheet, X) \in Int
              /\ SumFunctionOnSet(Squares, X) \in Int
              /\ ProductOf(call.sheet, X) \in Int
         /\ \A X \in SUBSET Numbers : \A p \in Numbers \ X :
              /\ SumFunctionOnSet(call.sheet, X \cup {p}) = call.sheet[p] + SumFunctionOnSet(call.sheet, X)
              /\ SumFunctionOnSet(Squares, X \cup {p})
                   = call.sheet[p] * call.sheet[p] + SumFunctionOnSet(Squares, X)
              /\ ProductOf(call.sheet, X \cup {p}) = call.sheet[p] * ProductOf(call.sheet, X)
<1>. DEFINE S == Numbers
            f == call.sheet
            q == Squares
<1>1. IsFiniteSet(S)
  BY NumbersFinite
<1>2. \A p \in S : f[p] \in Int
  BY NamedCells
<1>3. \A p \in S : q[p] = f[p] * f[p] /\ q[p] \in Int
  BY <1>2 DEF Squares
<1>. HIDE DEF S, f, q
<1>4. /\ SumFunctionOnSet(f, {}) = 0
      /\ \A X \in SUBSET S : SumFunctionOnSet(f, X) \in Int
      /\ \A X \in SUBSET S : \A p \in S \ X :
           SumFunctionOnSet(f, X \cup {p}) = f[p] + SumFunctionOnSet(f, X)
  BY <1>1, <1>2, Summing
<1>5. /\ SumFunctionOnSet(q, {}) = 0
      /\ \A X \in SUBSET S : SumFunctionOnSet(q, X) \in Int
      /\ \A X \in SUBSET S : \A p \in S \ X :
           SumFunctionOnSet(q, X \cup {p}) = q[p] + SumFunctionOnSet(q, X)
  BY <1>1, <1>3, Summing
<1>6. /\ ProductOf(f, {}) = 1
      /\ \A X \in SUBSET S : ProductOf(f, X) \in Int
      /\ \A X \in SUBSET S : \A p \in S \ X : ProductOf(f, X \cup {p}) = f[p] * ProductOf(f, X)
  BY <1>1, <1>2, Multiplying
<1>7. \A X \in SUBSET S : \A p \in S \ X :
        SumFunctionOnSet(q, X \cup {p}) = f[p] * f[p] + SumFunctionOnSet(q, X)
  BY <1>3, <1>5
<1>. QED BY <1>4, <1>5, <1>6, <1>7 DEF S, f, q

(* n times the deviations from the mean, squared and summed: what do_stdev
   computes from its two sums. *)
DeviationsOf(d, q, f, n, t, X) ==
  SumFunctionOnSet(d, X) = (n * n) * SumFunctionOnSet(q, X)
                           - (2 * (n * t)) * SumFunctionOnSet(f, X)
                           + (t * t) * Cardinality(X)

LEMMA Deviations ==
  ASSUME NEW S, IsFiniteSet(S), NEW f, \A p \in S : f[p] \in Int,
         NEW n \in Int, NEW t \in Int,
         NEW q, \A p \in S : q[p] = f[p] * f[p],
         NEW d, \A p \in S : d[p] = (n * f[p] - t) * (n * f[p] - t)
  PROVE  DeviationsOf(d, q, f, n, t, S)
<1>. DEFINE Sum(g, X) == SumFunctionOnSet(g, X)
            T == {X \in SUBSET S : Sum(d, X) = (n * n) * Sum(q, X) - (2 * (n * t)) * Sum(f, X)
                                               + (t * t) * Cardinality(X)}
<1>1. (\A p \in S : q[p] \in Int) /\ (\A p \in S : d[p] \in Int)
  OBVIOUS
<1>. HIDE DEF Sum
<1>2. /\ Sum(f, {}) = 0
      /\ \A X \in SUBSET S : Sum(f, X) \in Int
      /\ \A X \in SUBSET S : \A p \in S \ X : Sum(f, X \cup {p}) = f[p] + Sum(f, X)
  BY Summing DEF Sum
<1>3. /\ Sum(q, {}) = 0
      /\ \A X \in SUBSET S : Sum(q, X) \in Int
      /\ \A X \in SUBSET S : \A p \in S \ X : Sum(q, X \cup {p}) = q[p] + Sum(q, X)
  BY <1>1, Summing, ZenonT(40) DEF Sum
<1>4. /\ Sum(d, {}) = 0
      /\ \A X \in SUBSET S : Sum(d, X) \in Int
      /\ \A X \in SUBSET S : \A p \in S \ X : Sum(d, X \cup {p}) = d[p] + Sum(d, X)
  BY <1>1, Summing, ZenonT(40) DEF Sum
<1>5. {} \in T
  BY <1>2, <1>3, <1>4, FS_EmptySet
<1>6. ASSUME NEW X \in SUBSET S, NEW p \in S \ X, X \in T PROVE X \cup {p} \in T
  <2>. DEFINE v == f[p]  sf == Sum(f, X)  sq == Sum(q, X)  sd == Sum(d, X)  c == Cardinality(X)
  <2>1. v \in Int /\ sf \in Int /\ sq \in Int /\ sd \in Int
    BY <1>2, <1>3, <1>4
  <2>2. IsFiniteSet(X)
    BY FS_Subset
  <2>3. c \in Nat /\ Cardinality(X \cup {p}) = c + 1
    BY <2>2, FS_CardinalityType, FS_AddElement
  <2>4. /\ Sum(f, X \cup {p}) = v + sf
        /\ Sum(q, X \cup {p}) = v * v + sq
        /\ Sum(d, X \cup {p}) = (n * v - t) * (n * v - t) + sd
    BY <1>2, <1>3, <1>4
  <2>5. sd = (n * n) * sq - (2 * (n * t)) * sf + (t * t) * c
    BY <1>6
  <2>. HIDE DEF v, sf, sq, sd, c
  <2>6. (n * v - t) * (n * v - t) + sd
          = (n * n) * (v * v + sq) - (2 * (n * t)) * (v + sf) + (t * t) * (c + 1)
    BY <2>1, <2>3, <2>5
  <2>. QED BY <2>3, <2>4, <2>6
<1>7. SUBSET S \subseteq T
  <2>. HIDE DEF T
  <2>. QED BY <1>5, <1>6, FiniteInduction
<1>8. S \in T
  BY <1>7
<1>. QED BY <1>8 DEF Sum, DeviationsOf

-----------------------------------------------------------------------------
(* The inductive invariant *)

LEMMA InitInv == Init => IInv
<1>. SUFFICES ASSUME Init PROVE IInv
  OBVIOUS
<1>1. call \in Calls /\ result = <<>>
  BY DEF Init, Calls
<1>2. Position
  BY <1>1, Corner DEF Init, Position, From
<1>3. DOMAIN cells \subseteq Nat \X Nat
  BY <1>1, RangesAssumption DEF Init, Calls
<1>4. acc \in Accs
  BY DEF Init, Start, Accs
<1>5. ReadsOnly
  BY DEF Init, ReadsOnly
<1>6. Seen = {}
  BY <1>1, Corner, NamedCells DEF Init, Seen
<1>7. Gathered
  <2>1. /\ SumFunctionOnSet(call.sheet, {}) = 0 /\ SumFunctionOnSet(Squares, {}) = 0
        /\ ProductOf(call.sheet, {}) = 1
    BY <1>1, NumbersSummed
  <2>. QED BY <1>6, <2>1, FS_EmptySet DEF Gathered, Init, Start
<1>. QED BY <1>1, <1>2, <1>3, <1>4, <1>5, <1>7 DEF IInv

(* The loop is at a cell of the range that it has not seen; it is counted when
   the sheet held a number there before. *)
LEMMA AtCell ==
  ASSUME IInv, Visit, NEW p, p = <<row1, col1>>
  PROVE  /\ p \in Nat \X Nat /\ p \in Named /\ p \notin Seen
         /\ p \in Numbers <=> p \in DOMAIN cells /\ cells[p] /= None
         /\ p \in Numbers => cells[p] = call.sheet[p] /\ cells[p] \in Int
         /\ call' = call /\ col1 = convert(From) /\ row1 <= Row2
         /\ Seen' = Seen \cup ({p} \cap Numbers)
<1>1. call \in Calls /\ Position /\ ReadsOnly
  BY DEF IInv
<1>2. call' = call /\ col1 <= Col2 /\ row1 <= Row2 /\ row1' = row1 + 1
  BY DEF Visit, RowsLeft
<1>3. col1 = convert(From) /\ row1 \in call.from[2]..Row2
  BY <1>1, <1>2, Corner DEF Position
<1>4. p \in Nat \X Nat /\ p \in Named
  BY <1>1, <1>2, <1>3, NamedCells DEF Position
<1>5. p \in Numbers <=> p \in DOMAIN cells /\ cells[p] /= None
  BY <1>1, <1>4 DEF ReadsOnly, Numbers
<1>6. p \in Numbers => cells[p] = call.sheet[p] /\ cells[p] \in Int
  BY <1>1, NamedCells DEF ReadsOnly
<1>7. Numbers' = Numbers
  BY <1>2 DEF Numbers, Named, Column, Row2
<1>8. \A q \in Numbers : q[1] \in Nat /\ (q[1] = row1 => q = p)
  BY <1>1, <1>3, NamedCells, Corner
<1>9. Seen' = Seen \cup ({p} \cap Numbers)
  <2>1. \A q \in Numbers : q[1] < row1 + 1 <=> q[1] < row1 \/ q = p
    BY <1>1, <1>8 DEF Position
  <2>. QED BY <1>2, <1>7, <2>1 DEF Seen
<1>10. p \notin Seen
  BY <1>1 DEF Seen, Position
<1>. QED BY <1>2, <1>3, <1>4, <1>5, <1>6, <1>9, <1>10

(* One cell more is counted as the cells before it were. *)
LEMMA CountedKeeps ==
  ASSUME IInv, Visit,
         NEW p \in Numbers, p \notin Seen, NEW v \in Int, v = call.sheet[p],
         call' = call, Seen' = Seen \cup {p}, acc' = Counted(call.fn, acc, v)
  PROVE  acc' \in Accs /\ Gathered'
<1>1. call.fn \in Functions /\ acc \in Accs /\ Gathered
  BY DEF IInv, Calls
<1>2. /\ \A q \in Seen : call.sheet[q] \in Int
      /\ acc.sum \in Int /\ acc.squares \in Int /\ acc.cnt \in Nat
  BY <1>1, NamedCells DEF IInv, Seen, Accs
<1>3. v * v \in Int /\ acc.sum * v \in Int /\ acc.squares + v * v \in Int
  BY <1>2
<1>4. acc' \in Accs
  <2>1. CASE call.fn \in {"SUM", "PRODUCT", "COUNT"}
    BY <1>1, <1>2, <1>3, <2>1 DEF Counted, Accs
  <2>2. CASE call.fn \in {"MIN", "MAX"}
    BY <1>1, <1>2, <2>2 DEF Counted, Accs
  <2>3. CASE call.fn = "AVERAGE"
    <3>1. acc' = [acc EXCEPT !.sum = @ + v, !.cnt = @ + 1]
      BY <2>3 DEF Counted
    <3>2. acc' = [sum |-> acc.sum + v, squares |-> acc.squares, cnt |-> acc.cnt + 1]
      BY <1>1, <3>1 DEF Accs
    <3>. QED BY <1>2, <3>2 DEF Accs
  <2>4. CASE call.fn = "STDEV"
    BY <1>1, <1>2, <1>3, <2>4 DEF Counted, Accs
  <2>. QED BY <1>1, <2>1, <2>2, <2>3, <2>4 DEF Functions
<1>5. IsFiniteSet(Seen) /\ Seen \in SUBSET Numbers /\ p \in Numbers \ Seen /\ call \in Calls
  BY NumbersFinite, FS_Subset DEF IInv, Seen
<1>6. Squares' = Squares
  BY DEF Squares, Numbers, Named, Column, Row2
<1>7. ASSUME call.fn \in {"COUNT", "AVERAGE", "STDEV"} PROVE acc'.cnt = Cardinality(Seen')
  <2>1. acc'.cnt = acc.cnt + 1
    BY <1>1, <1>7 DEF Counted, Accs
  <2>2. acc.cnt = Cardinality(Seen)
    BY <1>1, <1>7 DEF Gathered
  <2>. QED BY <1>5, <2>1, <2>2, FS_AddElement, ZenonT(40)
<1>8. ASSUME call.fn \in {"SUM", "AVERAGE", "STDEV"}
       PROVE  acc'.sum = SumFunctionOnSet(call.sheet, Seen')
  <2>1. acc'.sum = acc.sum + v
    BY <1>1, <1>8 DEF Counted, Accs
  <2>2. acc.sum = SumFunctionOnSet(call.sheet, Seen)
    BY <1>1, <1>8 DEF Gathered
  <2>3. SumFunctionOnSet(call.sheet, Seen \cup {p}) = v + acc.sum
    BY <1>5, <2>2, NumbersSummed
  <2>. QED BY <1>2, <2>1, <2>3
<1>9. ASSUME call.fn = "PRODUCT" PROVE acc'.sum = ProductOf(call.sheet, Seen')
  <2>1. acc'.sum = acc.sum * v
    BY <1>1, <1>9 DEF Counted, Accs
  <2>2. acc.sum = ProductOf(call.sheet, Seen)
    BY <1>1, <1>9 DEF Gathered
  <2>3. ProductOf(call.sheet, Seen \cup {p}) = v * acc.sum
    BY <1>5, <2>2, NumbersSummed
  <2>. QED BY <1>2, <2>1, <2>3
<1>10. ASSUME call.fn = "STDEV" PROVE acc'.squares = SumFunctionOnSet(Squares, Seen')
  <2>1. acc'.squares = acc.squares + v * v
    BY <1>1, <1>10 DEF Counted, Accs
  <2>2. acc.squares = SumFunctionOnSet(Squares, Seen)
    BY <1>1, <1>10 DEF Gathered
  <2>3. SumFunctionOnSet(Squares, Seen \cup {p}) = v * v + acc.squares
    BY <1>5, <2>2, NumbersSummed
  <2>. QED BY <1>2, <1>3, <2>1, <2>3
<1>11. ASSUME call.fn = "MIN" \/ call.fn = "MAX"
      PROVE  /\ acc'.cnt = 1
             /\ \E q \in Seen' : call.sheet[q] = acc'.sum
             /\ \A q \in Seen' : IF call.fn = "MIN" THEN acc'.sum <= call.sheet[q]
                                                    ELSE acc'.sum >= call.sheet[q]
  <2>1. CASE Seen = {} /\ acc.cnt = 0
    <3>1. acc'.sum = v /\ acc'.cnt = 1
      BY <1>1, <1>11, <2>1 DEF Counted, Accs
    <3>. QED BY <2>1, <3>1
  <2>2. CASE /\ acc.cnt = 1
             /\ \E q \in Seen : call.sheet[q] = acc.sum
             /\ \A q \in Seen : IF call.fn = "MIN" THEN acc.sum <= call.sheet[q]
                                                   ELSE acc.sum >= call.sheet[q]
    <3>1. /\ acc'.cnt = 1
          /\ acc'.sum = IF (call.fn = "MIN" /\ v < acc.sum) \/ (call.fn = "MAX" /\ v > acc.sum)
                        THEN v ELSE acc.sum
      BY <1>1, <1>2, <1>11, <2>2 DEF Counted, Accs
    <3>. QED BY <1>2, <1>11, <2>2, <3>1
  <2>. QED BY <1>1, <1>11, <2>1, <2>2 DEF Gathered
<1>12. Gathered'
  BY <1>7, <1>11, <1>6, <1>8, <1>9, <1>10 DEF Gathered
<1>. QED BY <1>4, <1>12

LEMMA VisitInv == IInv /\ Visit => IInv'
<1>. SUFFICES ASSUME IInv, Visit PROVE IInv'
  OBVIOUS
<1>. DEFINE p == <<row1, col1>>
<1>1. /\ p \in Nat \X Nat /\ p \in Named /\ p \notin Seen
      /\ p \in Numbers <=> p \in DOMAIN cells /\ cells[p] /= None
      /\ p \in Numbers => cells[p] = call.sheet[p] /\ cells[p] \in Int
      /\ call' = call /\ col1 = convert(From) /\ row1 <= Row2
      /\ Seen' = Seen \cup ({p} \cap Numbers)
  BY AtCell
<1>2. /\ row1' = row1 + 1 /\ col1' = col1 /\ result' = result /\ col1 <= Col2
      /\ \/ p \in DOMAIN cells /\ cells' = cells
            /\ acc' = IF cells[p] = None THEN acc ELSE Counted(call.fn, acc, cells[p])
         \/ p \notin DOMAIN cells /\ cells' = WithBlank(p) /\ acc' = acc
  BY DEF Visit
<1>3. call' \in Calls /\ Position'
  BY <1>1, <1>2, Corner DEF IInv, Position, From, Row2, Col2
<1>4. result' = <<>>
  BY <1>1, <1>2, Corner DEF IInv, Position
<1>5. /\ DOMAIN cells' = DOMAIN cells \cup {p}
      /\ \A q \in DOMAIN cells : cells'[q] = cells[q]
      /\ p \notin DOMAIN cells => cells'[p] = None
  BY <1>2 DEF WithBlank
<1>6. DOMAIN cells' \subseteq Nat \X Nat
  BY <1>1, <1>5 DEF IInv
<1>7. Named' = Named
  BY <1>1 DEF Named, Column, Row2
<1>8. ReadsOnly'
  BY <1>1, <1>5, <1>7 DEF IInv, ReadsOnly
<1>9. acc' \in Accs /\ Gathered'
  <2>. HIDE DEF p
  <2>1. CASE p \in Numbers
    BY <1>1, <1>2, <2>1, CountedKeeps
  <2>2. CASE p \notin Numbers
    <3>1. acc' = acc /\ Seen' = Seen
      BY <1>1, <1>2, <2>2
    <3>2. Squares' = Squares
      BY <1>1 DEF Squares, Numbers, Named, Column, Row2
    <3>. QED BY <1>1, <3>1, <3>2 DEF IInv, Gathered
  <2>. QED BY <2>1, <2>2
<1>. QED BY <1>3, <1>4, <1>6, <1>8, <1>9 DEF IInv

LEMMA NextColumnInv == IInv /\ NextColumn => IInv'
<1>. SUFFICES ASSUME IInv, NextColumn PROVE IInv'
  OBVIOUS
<1>1. /\ col1' = col1 + 1 /\ row1' = row1 /\ col1 <= Col2 /\ ~(row1 <= Row2)
      /\ call' = call /\ cells' = cells /\ acc' = acc /\ result' = result
  BY DEF NextColumn, ColAfter, RowOfNextColumn, RowsLeft
<1>2. Position'
  BY <1>1, Corner DEF IInv, Position, From, Row2, Col2
<1>3. Named' = Named /\ Numbers' = Numbers /\ Seen' = Seen /\ Squares' = Squares
  BY <1>1 DEF Named, Column, Row2, Numbers, Seen, Squares
<1>4. ReadsOnly' /\ Gathered'
  BY <1>1, <1>3 DEF IInv, ReadsOnly, Gathered
<1>5. result' = <<>>
  BY <1>1, Corner DEF IInv, Position
<1>. QED BY <1>1, <1>2, <1>4, <1>5 DEF IInv

LEMMA ReturnInv == IInv /\ Return => IInv'
<1>. SUFFICES ASSUME IInv, Return PROVE IInv'
  OBVIOUS
<1>1. /\ result' = Value(call.fn, acc) /\ col1 > Col2
      /\ UNCHANGED <<call, cells, row1, col1, acc>>
  BY DEF Return
<1>2. Position' /\ ReadsOnly' /\ Gathered'
  BY <1>1 DEF IInv, Position, From, Row2, Col2, ReadsOnly, Gathered, Named, Column, Numbers, Seen,
              Squares
<1>3. result' = Value(call.fn, acc)' /\ (col1 > Col2)'
  BY <1>1 DEF Value, Col2
<1>. QED BY <1>1, <1>2, <1>3 DEF IInv

THEOREM Invariance == Spec => []IInv
<1>1. IInv /\ UNCHANGED vars => IInv'
  BY DEF vars, IInv, Position, From, Row2, Col2, ReadsOnly, Gathered, Named, Column, Numbers,
         Seen, Squares, Value
<1>2. IInv /\ [Next]_vars => IInv'
  BY <1>1, VisitInv, NextColumnInv, ReturnInv DEF Next
<1>. QED BY <1>2, InitInv, PTL DEF Spec

-----------------------------------------------------------------------------
(* Results *)

(* The loop variables stay near the range and cells keep their places, for
   every sheet and range. *)
THEOREM TypeCorrect == Spec => []TypeOK
<1>1. IInv => TypeOK
  <2>. SUFFICES ASSUME IInv PROVE TypeOK
    OBVIOUS
  <2>1. DOMAIN acc = {"sum", "squares", "cnt"}
    BY DEF IInv, Accs
  <2>2. Len(Value(call.fn, acc)) = 2
    BY DEF Value
  <2>3. Len(result) \in {0, 2}
    BY <2>2 DEF IInv
  <2>. QED BY <2>1, <2>3 DEF TypeOK, IInv, Position, From
<1>. QED BY <1>1, Invariance, PTL

(* Evaluating a range function changes no cell that is there, and the cells it
   makes are blank and in the first column of its range, where the file would
   have put them (function.c:51-56 and its copies). *)
THEOREM NothingWritten == Spec => []ReadsOnly
<1>1. IInv => ReadsOnly
  BY DEF IInv
<1>. QED BY <1>1, Invariance, PTL

(* A range function returns the sum, product, number, least, greatest, mean or
   sample variance of the numbers in the first column of its range, and 0 or
   0 / 0 where there is none (function.c:33-258). *)
THEOREM ResultRight == Spec => []ResultIsRight
<1>1. IInv => ResultIsRight
  <2>. SUFFICES ASSUME IInv, result /= <<>> PROVE IsRight(call.fn, result)
    BY DEF ResultIsRight
  <2>1. result = Value(call.fn, acc) /\ col1 > Col2 /\ Gathered /\ call \in Calls /\ Position
    BY DEF IInv
  <2>2. Seen = Numbers
    <3>1. CASE convert(From) <= Col2
      <4>1. row1 > Row2
        BY <2>1, <3>1, Corner DEF Position
      <4>2. \A p \in Numbers : p[1] < row1
        BY <2>1, <4>1, NamedCells, Corner DEF Position
      <4>. QED BY <4>2 DEF Seen
    <3>2. CASE ~(convert(From) <= Col2)
      BY <2>1, <3>2, NamedCells DEF Numbers, Seen
    <3>. QED BY <3>1, <3>2
  <2>3. CASE call.fn = "COUNT"
    BY <2>1, <2>2, <2>3 DEF Value, Gathered, IsRight
  <2>4. Cardinality(Numbers) = 0 <=> Numbers = {}
    BY <2>1, NumbersFinite, FS_EmptySet
  <2>5. Values \subseteq Int
    BY <2>1, NamedCells DEF Values
  <2>6. ASSUME Numbers /= {}, call.fn = "MIN" \/ call.fn = "MAX"
        PROVE  /\ acc.sum \in Values
               /\ \A x \in Values : IF call.fn = "MIN" THEN acc.sum <= x ELSE acc.sum >= x
    BY <2>1, <2>2, <2>6 DEF Gathered, Values
  <2>7. CASE call.fn = "MIN"
    <3>1. result = <<acc.sum, 1>>
      BY <2>1, <2>7 DEF Value
    <3>2. Numbers = {} => acc.sum = 0
      BY <2>1, <2>2, <2>7 DEF Gathered
    <3>3. ASSUME Numbers /= {} PROVE acc.sum = Min(Values)
      <4>1. acc.sum \in Values /\ \A x \in Values : acc.sum <= x
        BY <2>6, <2>7, <3>3
      <4>2. Min(Values) \in Values /\ \A x \in Values : Min(Values) <= x
        BY <4>1 DEF Min
      <4>3. acc.sum <= Min(Values) /\ Min(Values) <= acc.sum
        BY <4>1, <4>2
      <4>4. acc.sum \in Int /\ Min(Values) \in Int
        BY <2>5, <4>1, <4>2
      <4>. QED BY <4>3, <4>4
    <3>. QED BY <2>4, <2>7, <3>1, <3>2, <3>3 DEF IsRight
  <2>8. CASE call.fn = "MAX"
    <3>1. result = <<acc.sum, 1>>
      BY <2>1, <2>8 DEF Value
    <3>2. Numbers = {} => acc.sum = 0
      BY <2>1, <2>2, <2>8 DEF Gathered
    <3>3. ASSUME Numbers /= {} PROVE acc.sum = Max(Values)
      <4>1. acc.sum \in Values /\ \A x \in Values : acc.sum >= x
        BY <2>6, <2>8, <3>3
      <4>2. Max(Values) \in Values /\ \A x \in Values : Max(Values) >= x
        BY <4>1 DEF Max
      <4>3. acc.sum >= Max(Values) /\ Max(Values) >= acc.sum
        BY <4>1, <4>2
      <4>4. acc.sum \in Int /\ Max(Values) \in Int
        BY <2>5, <4>1, <4>2
      <4>. QED BY <4>3, <4>4
    <3>. QED BY <2>4, <2>8, <3>1, <3>2, <3>3 DEF IsRight
  <2>9. CASE call.fn = "SUM"
    BY <2>1, <2>2, <2>9 DEF Value, Gathered, IsRight, Total
  <2>10. CASE call.fn = "PRODUCT"
    BY <2>1, <2>2, <2>10 DEF Value, Gathered, IsRight, Product, ProductOf
  <2>11. CASE call.fn = "AVERAGE"
    BY <2>1, <2>2, <2>11 DEF Value, Gathered, IsRight, Total
  <2>12. CASE call.fn = "STDEV"
    <3>. DEFINE n == Cardinality(Numbers)
                q == SumFunctionOnSet(Squares, Numbers)
                dev == [p \in Numbers |-> n * call.sheet[p] - Total]
                d == [p \in Numbers |-> dev[p] * dev[p]]
    <3>1. n \in Nat /\ q \in Int /\ Total \in Int
      BY <2>1, NumbersSummed, NumbersFinite, FS_CardinalityType DEF Total
    <3>2. result = IF n \in {0, 1} THEN <<0, 1>> ELSE <<n * q - Total * Total, n * (n - 1)>>
      BY <2>1, <2>2, <2>12 DEF Value, Gathered, Total
    <3>3. Spread = (n * n) * q - (2 * (n * Total)) * Total + (Total * Total) * n
      <4>1. Spread = SumFunctionOnSet(d, Numbers)
        BY DEF Spread
      <4>2. \A p \in Numbers : call.sheet[p] \in Int
        BY <2>1, NamedCells
      <4>3. \A p \in Numbers : Squares[p] = call.sheet[p] * call.sheet[p]
        BY DEF Squares
      <4>4. \A p \in Numbers : d[p] = (n * call.sheet[p] - Total) * (n * call.sheet[p] - Total)
        OBVIOUS
      <4>5. IsFiniteSet(Numbers) /\ n \in Int /\ Numbers \in SUBSET Numbers
        BY <2>1, <3>1, NumbersFinite
      <4>. DEFINE f == call.sheet  S == Numbers  sq == Squares
      <4>. HIDE DEF n, d, f, S, sq
      <4>6. (\A p \in S : f[p] \in Int) /\ IsFiniteSet(S) /\ n \in Int /\ Total \in Int
        BY <3>1, <4>2, <4>5 DEF f, S
      <4>7. \A p \in S : sq[p] = f[p] * f[p]
        BY <4>3 DEF f, S, sq
      <4>8. \A p \in S : d[p] = (n * f[p] - Total) * (n * f[p] - Total)
        BY <4>4 DEF f, S
      <4>9. DeviationsOf(d, sq, f, n, Total, S)
        BY <4>6, <4>7, <4>8, Deviations
      <4>. QED BY <4>1, <4>9 DEF n, f, S, sq, Total, DeviationsOf
    <3>4. CASE n < 2
      BY <2>12, <3>1, <3>2, <3>4 DEF IsRight
    <3>5. CASE n >= 2
      <4>1. result[1] = n * q - Total * Total /\ result[2] = n * (n - 1)
        BY <3>1, <3>2, <3>5
      <4>. HIDE DEF n, q
      <4>2. Spread = (n * n) * q - n * (Total * Total)
        BY <3>1, <3>3
      <4>3. (n * q - Total * Total) * (n * n * (n - 1)) = Spread * (n * (n - 1))
        BY <3>1, <4>2
      <4>. QED BY <2>12, <3>1, <3>5, <4>1, <4>3 DEF IsRight, n
    <3>. QED BY <3>1, <3>4, <3>5
  <2>. QED BY <2>1, <2>3, <2>7, <2>8, <2>9, <2>10, <2>11, <2>12 DEF Calls, Functions
<1>. QED BY <1>1, Invariance, PTL

-----------------------------------------------------------------------------
(* The window of tui.c. *)

(* The rule keeps the cursor where it is and puts it inside the window, when
   the window was not empty. *)
LEMMA CalcHolds ==
  ASSUME NEW a \in Axis, NEW size \in Nat \ {0}, a.off <= a.mx
  PROVE  /\ calc_offscr(a, size) \in Axis
         /\ Holds(calc_offscr(a, size))
<1> DEFINE past == IF a.cur > size - 1 THEN a.cur - (size - 1) ELSE 0
<1>1. a.cur \in Nat /\ a.off \in Nat /\ a.mx \in Int
  BY DEF Axis
<1>2. CASE a.off /= 0 /\ a.off <= a.cur /\ a.cur <= a.mx
  BY <1>2 DEF calc_offscr, Holds
<1>3. CASE a.off /= 0 /\ a.cur = a.off - 1
  <2>1. calc_offscr(a, size) = [a EXCEPT !.off = @ - 1, !.mx = @ - 1]
    BY <1>1, <1>3 DEF calc_offscr
  <2>2. a.off - 1 \in Nat /\ a.mx - 1 \in Int /\ a.off - 1 <= a.cur /\ a.cur <= a.mx - 1
    BY <1>1, <1>3
  <2> QED BY <2>1, <2>2 DEF Axis, Holds
<1>4. CASE /\ ~(a.off /= 0 /\ a.off <= a.cur /\ a.cur <= a.mx)
           /\ ~(a.off /= 0 /\ a.cur = a.off - 1)
  <2>1. calc_offscr(a, size) = [a EXCEPT !.off = past, !.mx = size - 1 + past]
    BY <1>4 DEF calc_offscr
  <2>2. past \in Nat /\ size - 1 + past \in Int /\ past <= a.cur /\ a.cur <= size - 1 + past
    BY <1>1
  <2> HIDE DEF past
  <2> QED BY <2>1, <2>2 DEF Axis, Holds
<1> QED BY <1>2, <1>3, <1>4

(* The rule keeps the size of a window that is as large as the terminal. *)
LEMMA CalcFits ==
  ASSUME NEW a \in Axis, NEW size \in Nat \ {0}, a.mx - a.off = size - 1
  PROVE  calc_offscr(a, size).mx - calc_offscr(a, size).off = size - 1
  BY DEF calc_offscr, Axis

(* When the cursor has moved by at most one cell out of such a window, the
   window moves by at most one. *)
LEMMA CalcNear ==
  ASSUME NEW a \in Axis, NEW size \in Nat \ {0}, a.mx - a.off = size - 1,
         a.off - 1 <= a.cur, a.cur <= a.mx + 1
  PROVE  Near(calc_offscr(a, size).off, a.off)
  BY DEF calc_offscr, Axis, Near

(* What the arrow keys pass to the rule. *)
LEMMA Moves ==
  ASSUME NEW a \in Axis, Holds(a), NEW b \in {Further(a), Back(a), a}
  PROVE  /\ b \in Axis /\ b.off = a.off /\ b.mx = a.mx /\ b.off <= b.mx
         /\ b.off - 1 <= b.cur /\ b.cur <= b.mx + 1
  BY DEF Axis, Holds, Further, Back

ViewInv == ViewTypeOK /\ CursorShown /\ WindowFits /\ ScreenIsCurrent

LEMMA InitViewInv == ViewInit => ViewInv
<1> SUFFICES ASSUME ViewInit PROVE ViewInv
  OBVIOUS
<1>1. height \in Nat \ {0} /\ width \in Nat \ {0}
  BY ViewportAssumption DEF ViewInit
<1>2. /\ row = [cur |-> 0, off |-> 0, mx |-> height - 1]
      /\ col = [cur |-> 0, off |-> 0, mx |-> width - 1]
  BY DEF ViewInit, Origin
<1>3. row \in Axis /\ Holds(row) /\ col \in Axis /\ Holds(col)
  BY <1>1, <1>2 DEF Axis, Holds
<1>4. row.mx - row.off = height - 1 /\ col.mx - col.off = width - 1
  BY <1>1, <1>2
<1>5. drawn \in [rows : [off : Nat, mx : Int], cols : [off : Nat, mx : Int]]
  BY <1>3 DEF ViewInit, Shown, Axis
<1>6. ScreenIsCurrent
  BY DEF ViewInit, ScreenIsCurrent, Shown
<1> QED BY <1>3, <1>4, <1>5, <1>6 DEF ViewInit, ViewInv, ViewTypeOK, CursorShown, WindowFits

(* One axis after the rule: what the actions need of it. *)
LEMMA AxisStep ==
  ASSUME NEW a \in Axis, Holds(a), NEW size \in Nat \ {0},
         NEW b \in {Further(a), Back(a), a}, NEW fits \in BOOLEAN,
         fits => a.mx - a.off = size - 1
  PROVE  LET c == calc_offscr(b, size)
         IN /\ c \in Axis /\ Holds(c)
            /\ fits => c.mx - c.off = size - 1 /\ Near(c.off, a.off)
            /\ fits /\ c.off = a.off => c.mx = a.mx
<1> DEFINE c == calc_offscr(b, size)
<1>1. b \in Axis /\ b.off = a.off /\ b.mx = a.mx /\ b.off <= b.mx
      /\ b.off - 1 <= b.cur /\ b.cur <= b.mx + 1
  BY Moves
<1>2. c \in Axis /\ Holds(c)
  BY <1>1, CalcHolds
<1>3. fits => c.mx - c.off = size - 1
  BY <1>1, CalcFits
<1>4. fits => Near(c.off, a.off)
  BY <1>1, CalcNear
<1>5. fits /\ c.off = a.off => c.mx = a.mx
  <2>1. c.mx \in Int /\ c.off \in Nat /\ a.mx \in Int /\ a.off \in Nat
    BY <1>2 DEF Axis
  <2> QED BY <2>1, <1>3
<1> QED BY <1>2, <1>3, <1>4, <1>5

(* A key that moves along the rows. *)
LEMMA RowKey ==
  ASSUME ViewInv, NEW b \in {Further(row), Back(row)}, ScrollRows(b)
  PROVE  ViewInv' /\ (~resized => Near(row'.off, row.off) /\ Near(col'.off, col.off))
<1> DEFINE c == calc_offscr(b, height)
<1>1. /\ row \in Axis /\ Holds(row) /\ height \in Nat \ {0}
      /\ ~resized => row.mx - row.off = height - 1
  BY ViewportAssumption DEF ViewInv, ViewTypeOK, CursorShown, WindowFits
<1>2. /\ c \in Axis /\ Holds(c)
      /\ ~resized => c.mx - c.off = height - 1 /\ Near(c.off, row.off)
      /\ ~resized /\ c.off = row.off => c.mx = row.mx
  <2>1. (~resized) \in BOOLEAN
    OBVIOUS
  <2> QED BY <1>1, <2>1, AxisStep, ZenonT(40)
<1>3. /\ row' = c /\ col' = col /\ height' = height /\ width' = width
      /\ shall_quit' = shall_quit /\ resized' = resized
      /\ drawn' = IF c.off /= row.off
                  THEN [rows |-> Shown(c), cols |-> Shown(col)] ELSE drawn
  BY DEF ScrollRows, DrawnAgain
<1> HIDE DEF c
<1>4. ViewTypeOK'
  <2>1. Shown(c) \in [off : Nat, mx : Int] /\ Shown(col) \in [off : Nat, mx : Int]
    BY <1>2 DEF Shown, Axis, ViewInv, ViewTypeOK
  <2> QED BY <1>2, <1>3, <2>1 DEF ViewInv, ViewTypeOK
<1>5. CursorShown' /\ WindowFits'
  BY <1>2, <1>3 DEF ViewInv, CursorShown, WindowFits
<1>6. ScreenIsCurrent'
  <2>1. CASE c.off /= row.off
    BY <2>1, <1>3 DEF ScreenIsCurrent, ViewInv, Shown
  <2>2. CASE c.off = row.off
    <3>1. ~resized => Shown(c) = Shown(row)
      BY <2>2, <1>2 DEF Shown
    <3> QED BY <2>2, <3>1, <1>3 DEF ScreenIsCurrent, ViewInv
  <2> QED BY <2>1, <2>2
<1>7. Near(col.off, col.off)
  BY DEF Near, ViewInv, ViewTypeOK, Axis
<1> QED BY <1>2, <1>3, <1>4, <1>5, <1>6, <1>7 DEF ViewInv

(* A key that moves along the columns. *)
LEMMA ColKey ==
  ASSUME ViewInv, NEW b \in {Further(col), Back(col)}, ScrollCols(b)
  PROVE  ViewInv' /\ (~resized => Near(row'.off, row.off) /\ Near(col'.off, col.off))
<1> DEFINE c == calc_offscr(b, width)
<1>1. /\ col \in Axis /\ Holds(col) /\ width \in Nat \ {0}
      /\ ~resized => col.mx - col.off = width - 1
  BY ViewportAssumption DEF ViewInv, ViewTypeOK, CursorShown, WindowFits
<1>2. /\ c \in Axis /\ Holds(c)
      /\ ~resized => c.mx - c.off = width - 1 /\ Near(c.off, col.off)
      /\ ~resized /\ c.off = col.off => c.mx = col.mx
  <2>1. (~resized) \in BOOLEAN
    OBVIOUS
  <2> QED BY <1>1, <2>1, AxisStep, ZenonT(40)
<1>3. /\ col' = c /\ row' = row /\ height' = height /\ width' = width
      /\ shall_quit' = shall_quit /\ resized' = resized
      /\ drawn' = IF c.off /= col.off
                  THEN [rows |-> Shown(row), cols |-> Shown(c)] ELSE drawn
  BY DEF ScrollCols, DrawnAgain
<1> HIDE DEF c
<1>4. ViewTypeOK'
  <2>1. Shown(c) \in [off : Nat, mx : Int] /\ Shown(row) \in [off : Nat, mx : Int]
    BY <1>2 DEF Shown, Axis, ViewInv, ViewTypeOK
  <2> QED BY <1>2, <1>3, <2>1 DEF ViewInv, ViewTypeOK
<1>5. CursorShown' /\ WindowFits'
  BY <1>2, <1>3 DEF ViewInv, CursorShown, WindowFits
<1>6. ScreenIsCurrent'
  <2>1. CASE c.off /= col.off
    BY <2>1, <1>3 DEF ScreenIsCurrent, ViewInv, Shown
  <2>2. CASE c.off = col.off
    <3>1. ~resized => Shown(c) = Shown(col)
      BY <2>2, <1>2 DEF Shown
    <3> QED BY <2>2, <3>1, <1>3 DEF ScreenIsCurrent, ViewInv
  <2> QED BY <2>1, <2>2
<1>7. Near(row.off, row.off)
  BY DEF Near, ViewInv, ViewTypeOK, Axis
<1> QED BY <1>2, <1>3, <1>4, <1>5, <1>6, <1>7 DEF ViewInv

(* u moves no cursor, so no window moves either, unless the terminal has been
   resized. *)
LEMMA UpdateKey ==
  ASSUME ViewInv, KeyU
  PROVE  ViewInv' /\ (~resized => Near(row'.off, row.off) /\ Near(col'.off, col.off))
<1> DEFINE r == calc_offscr(row, height)
           c == calc_offscr(col, width)
<1>1. /\ row \in Axis /\ Holds(row) /\ height \in Nat \ {0}
      /\ col \in Axis /\ Holds(col) /\ width \in Nat \ {0}
      /\ ~resized => row.mx - row.off = height - 1 /\ col.mx - col.off = width - 1
  BY ViewportAssumption DEF ViewInv, ViewTypeOK, CursorShown, WindowFits
<1>2. (~resized) \in BOOLEAN
  OBVIOUS
<1>3. /\ r \in Axis /\ Holds(r)
      /\ ~resized => r.mx - r.off = height - 1 /\ Near(r.off, row.off)
  BY <1>1, <1>2, AxisStep
<1>4. /\ c \in Axis /\ Holds(c)
      /\ ~resized => c.mx - c.off = width - 1 /\ Near(c.off, col.off)
  BY <1>1, <1>2, AxisStep
<1>5. /\ row' = r /\ col' = c /\ height' = height /\ width' = width
      /\ shall_quit' = shall_quit /\ resized' = resized
      /\ drawn' = [rows |-> Shown(r), cols |-> Shown(c)]
  BY DEF KeyU
<1> HIDE DEF r, c
<1>6. ViewTypeOK'
  <2>1. Shown(r) \in [off : Nat, mx : Int] /\ Shown(c) \in [off : Nat, mx : Int]
    BY <1>3, <1>4 DEF Shown, Axis
  <2> QED BY <1>3, <1>4, <1>5, <2>1 DEF ViewInv, ViewTypeOK
<1>7. CursorShown' /\ WindowFits'
  BY <1>3, <1>4, <1>5 DEF CursorShown, WindowFits
<1>8. ScreenIsCurrent'
  BY <1>5 DEF ScreenIsCurrent, Shown
<1> QED BY <1>3, <1>4, <1>5, <1>6, <1>7, <1>8 DEF ViewInv

(* Steps that move neither cursor nor window. *)
LEMMA StillStep ==
  ASSUME ViewInv, KeyQ \/ Resize \/ UNCHANGED view_vars
  PROVE  ViewInv' /\ (~resized => Near(row'.off, row.off) /\ Near(col'.off, col.off))
<1>1. row' = row /\ col' = col /\ drawn' = drawn
  BY DEF KeyQ, Resize, view_vars
<1>2. /\ height' \in Heights /\ width' \in Widths
      /\ shall_quit' \in BOOLEAN /\ resized' \in BOOLEAN
      /\ ~resized' => ~resized /\ height' = height /\ width' = width
  BY DEF KeyQ, Resize, view_vars, ViewInv, ViewTypeOK
<1>3. ViewInv'
  BY <1>1, <1>2 DEF ViewInv, ViewTypeOK, CursorShown, WindowFits, ScreenIsCurrent
<1>4. Near(row.off, row.off) /\ Near(col.off, col.off)
  BY DEF Near, ViewInv, ViewTypeOK, Axis
<1> QED BY <1>1, <1>3, <1>4

LEMMA Step ==
  ASSUME ViewInv, [ViewNext]_view_vars
  PROVE  ViewInv' /\ (~resized => Near(row'.off, row.off) /\ Near(col'.off, col.off))
<1>1. CASE KeyJ
  BY <1>1, RowKey DEF KeyJ
<1>2. CASE KeyK
  BY <1>2, RowKey DEF KeyK
<1>3. CASE KeyL
  BY <1>3, ColKey DEF KeyL
<1>4. CASE KeyH
  BY <1>4, ColKey DEF KeyH
<1>5. CASE KeyU
  BY <1>5, UpdateKey
<1>6. CASE KeyQ \/ Resize \/ UNCHANGED view_vars
  BY <1>6, StillStep
<1> QED BY <1>1, <1>2, <1>3, <1>4, <1>5, <1>6 DEF ViewNext

THEOREM ViewInvariance == ViewSpec => []ViewInv
<1>1. ViewInv /\ [ViewNext]_view_vars => ViewInv'
  BY Step
<1> QED BY InitViewInv, <1>1, PTL DEF ViewSpec

(* Cursor, window and screen are well typed for every terminal and any keys:
   no key takes the cursor or the window below the first cell. *)
THEOREM ViewTypeCorrect == ViewSpec => []ViewTypeOK
<1>1. ViewInv => ViewTypeOK
  BY DEF ViewInv
<1> QED BY ViewInvariance, <1>1, PTL

(* The cell the cursor is on is always in the window, for every terminal and
   every sequence of keys and resizes. *)
THEOREM CursorNeverLost == ViewSpec => []CursorShown
<1>1. ViewInv => CursorShown
  BY DEF ViewInv
<1> QED BY ViewInvariance, <1>1, PTL

(* Until a resize the window is exactly as large as the terminal, after any
   keys (calc_offscr_sc_rows, calc_offscr_sc_cols). *)
THEOREM WindowKeepsSize == ViewSpec => []WindowFits
<1>1. ViewInv => WindowFits
  BY DEF ViewInv
<1> QED BY ViewInvariance, <1>1, PTL

(* Until a resize the screen shows the window, although the keys draw the cells
   only when the window's start moves. *)
THEOREM ScreenAlwaysCurrent == ViewSpec => []ScreenIsCurrent
<1>1. ViewInv => ScreenIsCurrent
  BY DEF ViewInv
<1> QED BY ViewInvariance, <1>1, PTL

(* Until a resize a key scrolls by at most one row or column. *)
THEOREM ScrollingIsSmooth == ViewSpec => ScrollsByOne
<1>1. ViewInv /\ [ViewNext]_view_vars
        => [~resized => Near(row'.off, row.off) /\ Near(col'.off, col.off)]_view_vars
  BY Step
<1> QED BY ViewInvariance, <1>1, PTL DEF ViewSpec, ScrollsByOne
=============================================================================
