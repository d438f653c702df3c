---------------------------- MODULE RecalcProofs ----------------------------
(***************************************************************************)
(* Recalculation on any number of sheets, with any formulas and however    *)
(* many recalcs: every pointer a formula or the cache holds stays that of  *)
(* a cell, nothing but formulas is written, the cache has every formula    *)
(* until one is loaded late, values settle in as many recalcs as their     *)
(* chains of references run against the scan, and range functions show     *)
(* what the first sheet holds.                                             *)
(***************************************************************************)
EXTENDS Recalc, Lemmas

Flags == {"VAL", "RP_FORMULA"}

IsAddress(a) ==
  /\ a = <<a[1], a[2], a[3]>>
  /\ a[1] \in ToSet(Sheets) /\ a[2] \in Nat /\ a[3] \in Nat

(* The two kinds of expression. *)
IsRange(e) ==
  /\ e.type = "f"
  /\ e.col \in Nat /\ e.row1 \in Nat /\ e.row2 \in Nat
IsRef(e) == e.type = "eENT"

(* A struct Ent; dom is the set of cells there are. *)
GoodEnt(e, dom) ==
  /\ e = [val |-> e.val, flag |-> e.flag, exp |-> e.exp]
  /\ e.val \in Numbers /\ e.flag \subseteq Flags
  /\ e.exp /= NULL => IsRange(e.exp) \/ (IsRef(e.exp) /\ e.exp.at \in dom)

Shaped(cs) ==
  /\ cs = [a \in DOMAIN cs |-> cs[a]]
  /\ IsFiniteSet(DOMAIN cs)
  /\ \A a \in DOMAIN cs : IsAddress(a) /\ GoodEnt(cs[a], DOMAIN cs)

(* The cells c are the cells cs, but for the values of those in `formulas`
   and for new ones, which are blank. *)
Follows(cs, c, formulas) ==
  /\ DOMAIN cs \subseteq DOMAIN c
  /\ \A b \in DOMAIN cs : c[b].flag = cs[b].flag /\ c[b].exp = cs[b].exp
  /\ \A b \in DOMAIN cs \ formulas : c[b] = cs[b]
  /\ \A b \in DOMAIN c \ DOMAIN cs : c[b] = BlankEnt

-----------------------------------------------------------------------------
(* One evaluation *)

LEMMA FollowsOn ==
  ASSUME NEW cs, NEW c, NEW d, NEW A \in SUBSET DOMAIN cs, NEW a \in A,
         Follows(cs, c, A), Follows(c, d, {a})
  PROVE  Follows(cs, d, A)
BY DEF Follows

LEMMA BlankGood == ASSUME NEW dom PROVE GoodEnt(BlankEnt, dom)
<1>1. 0 \in Numbers
  BY RecalcAssumption DEF Numbers
<1>. QED BY <1>1 DEF GoodEnt, BlankEnt, Flags

LEMMA TouchedShaped ==
  ASSUME NEW cs, Shaped(cs), NEW area, IsFiniteSet(area), \A a \in area : IsAddress(a)
  PROVE  /\ Shaped(Touched(cs, area)) /\ Follows(cs, Touched(cs, area), {})
         /\ DOMAIN Touched(cs, area) = DOMAIN cs \cup area
<1>. DEFINE t == Touched(cs, area)
<1>1. /\ DOMAIN t = DOMAIN cs \cup area /\ t = [a \in DOMAIN t |-> t[a]]
      /\ \A a \in DOMAIN cs : t[a] = cs[a]
      /\ \A a \in area \ DOMAIN cs : t[a] = BlankEnt
  BY DEF Touched
<1>. HIDE DEF t
<1>2. Follows(cs, t, {})
  BY <1>1 DEF Follows
<1>3. IsFiniteSet(DOMAIN t)
  <2>1. IsFiniteSet(DOMAIN cs)
    BY DEF Shaped
  <2>2. IsFiniteSet(DOMAIN cs \cup area)
    BY <2>1, FS_Union
  <2>. QED BY <1>1, <2>2
<1>4. ASSUME NEW a \in DOMAIN t PROVE IsAddress(a) /\ GoodEnt(t[a], DOMAIN t)
  <2>1. CASE a \in DOMAIN cs
    <3>1. IsAddress(a) /\ GoodEnt(cs[a], DOMAIN cs) /\ t[a] = cs[a]
      BY <1>1, <2>1 DEF Shaped
    <3>. QED BY <1>1, <3>1 DEF GoodEnt
  <2>2. CASE a \notin DOMAIN cs
    BY <1>1, <2>2, BlankGood
  <2>. QED BY <2>1, <2>2
<1>. QED BY <1>1, <1>2, <1>3, <1>4 DEF t, Shaped

LEMMA RangeCellsFacts ==
  ASSUME NEW e, IsRange(e), NEW cur \in ToSet(Sheets)
  PROVE  IsFiniteSet(RangeCells(e, cur)) /\ \A a \in RangeCells(e, cur) : IsAddress(a)
<1>. DEFINE rows == e.row1..e.row2
            cell == [r \in rows |-> <<cur, r, e.col>>]
<1>1. IsFiniteSet(rows)
  <2>1. e.row1 \in Int /\ e.row2 \in Int
    BY DEF IsRange
  <2>. QED BY <2>1, FS_Interval
<1>2. RangeCells(e, cur) = {cell[r] : r \in rows}
  BY DEF RangeCells
<1>3. cell \in Surjection(rows, RangeCells(e, cur))
  BY <1>2 DEF Surjection
<1>4. IsFiniteSet(RangeCells(e, cur))
  <2>. HIDE DEF cell, rows
  <2>. QED BY <1>1, <1>3, FS_Surjection
<1>5. e.col \in Nat /\ rows \subseteq Nat
  BY DEF IsRange
<1>6. ASSUME NEW r \in rows PROVE IsAddress(<<cur, r, e.col>>)
  <2>1. r \in Nat
    BY <1>5
  <2>. HIDE DEF rows
  <2>. QED BY <1>5, <2>1 DEF IsAddress
<1>. QED BY <1>2, <1>4, <1>6

LEMMA NumbersModulo == ASSUME NEW i \in Int PROVE i % Modulus \in Numbers
BY RecalcAssumption DEF Numbers

LEMMA TotalIsInt ==
  ASSUME NEW cs, Shaped(cs), NEW area
  PROVE  Total(cs, area) \in Int
<1>. DEFINE counted == {a \in area \cap DOMAIN cs : "VAL" \in cs[a].flag}
            f == [a \in counted |-> cs[a].val]
<1>1. IsFiniteSet(counted) /\ counted \in SUBSET counted
  BY FS_Subset DEF Shaped
<1>2. \A a \in counted : f[a] \in Int
  BY RecalcAssumption DEF Shaped, GoodEnt, Numbers
<1>. HIDE DEF counted, f
<1>3. SumFunctionOnSet(f, counted) \in Int
  BY <1>1, <1>2, Summing
<1>. QED BY <1>3 DEF Total, counted, f

WithVal(cs, a, v) == [cs EXCEPT ![a].val = v]

LEMMA WithValShaped ==
  ASSUME NEW cs, Shaped(cs), NEW a \in DOMAIN cs, NEW v \in Numbers
  PROVE  /\ Shaped(WithVal(cs, a, v)) /\ Follows(cs, WithVal(cs, a, v), {a})
         /\ DOMAIN WithVal(cs, a, v) = DOMAIN cs /\ WithVal(cs, a, v)[a].val = v
<1>. DEFINE w == WithVal(cs, a, v)
<1>1. cs[a] = [val |-> cs[a].val, flag |-> cs[a].flag, exp |-> cs[a].exp]
  BY DEF Shaped, GoodEnt
<1>2. /\ DOMAIN w = DOMAIN cs /\ w = [b \in DOMAIN w |-> w[b]]
      /\ \A b \in DOMAIN cs \ {a} : w[b] = cs[b]
      /\ w[a] = [cs[a] EXCEPT !.val = v]
  BY DEF WithVal, Shaped
<1>3. w[a] = [val |-> v, flag |-> cs[a].flag, exp |-> cs[a].exp]
  BY <1>1, <1>2
<1>. HIDE DEF w
<1>4. w[a].val = v /\ w[a].flag = cs[a].flag /\ w[a].exp = cs[a].exp
  BY <1>3
<1>5. Follows(cs, w, {a})
  BY <1>2, <1>4 DEF Follows
<1>6. GoodEnt(w[a], DOMAIN w)
  BY <1>2, <1>3, <1>4 DEF Shaped, GoodEnt
<1>7. Shaped(w)
  BY <1>2, <1>6 DEF Shaped
<1>. QED BY <1>2, <1>4, <1>5, <1>7 DEF w

(* What evaluating the formula of a does to the cells. *)
LEMMA EvaluatedFacts ==
  ASSUME NEW cs, Shaped(cs), NEW cur \in ToSet(Sheets), NEW a \in DOMAIN cs, cs[a].exp /= NULL
  PROVE  /\ Shaped(Evaluated(cs, cur, a)) /\ Follows(cs, Evaluated(cs, cur, a), {a})
         /\ IsRef(cs[a].exp) => Evaluated(cs, cur, a)[a].val = (cs[cs[a].exp.at].val + 1) % Modulus
         /\ IsRange(cs[a].exp)
              => Evaluated(cs, cur, a)[a].val = Total(cs, RangeCells(cs[a].exp, cur)) % Modulus
<1>. DEFINE e == cs[a].exp
<1>1. IsRange(e) \/ (IsRef(e) /\ e.at \in DOMAIN cs)
  BY DEF Shaped, GoodEnt
<1>2. CASE IsRef(e)
  <2>. DEFINE v == (cs[e.at].val + 1) % Modulus
  <2>1. e.at \in DOMAIN cs
    BY <1>1, <1>2 DEF IsRange, IsRef
  <2>2. v \in Numbers
    <3>1. cs[e.at].val \in Int
      BY <2>1, RecalcAssumption DEF Shaped, GoodEnt, Numbers
    <3>. QED BY <3>1, NumbersModulo
  <2>3. Evaluated(cs, cur, a) = WithVal(cs, a, v)
    BY <1>2 DEF Evaluated, IsRef, WithVal
  <2>4. /\ Shaped(WithVal(cs, a, v)) /\ Follows(cs, WithVal(cs, a, v), {a})
        /\ WithVal(cs, a, v)[a].val = v
    <3>. HIDE DEF e, v
    <3>. QED BY <2>2, WithValShaped
  <2>. QED BY <1>2, <2>3, <2>4 DEF IsRef, IsRange
<1>3. CASE IsRange(e)
  <2>. DEFINE area == RangeCells(e, cur)
              t == Touched(cs, area)
              v == Total(cs, area) % Modulus
  <2>1. e.type /= "eENT"
    BY <1>3 DEF IsRange
  <2>2. Evaluated(cs, cur, a) = WithVal(t, a, v)
    BY <2>1 DEF Evaluated, WithVal
  <2>3. v \in Numbers
    BY TotalIsInt, NumbersModulo
  <2>4. Shaped(t) /\ Follows(cs, t, {}) /\ a \in DOMAIN t
    BY <1>3, RangeCellsFacts, TouchedShaped
  <2>. HIDE DEF t, v
  <2>5. /\ Shaped(WithVal(t, a, v)) /\ Follows(t, WithVal(t, a, v), {a})
        /\ WithVal(t, a, v)[a].val = v
    BY <2>3, <2>4, WithValShaped
  <2>6. Follows(cs, WithVal(t, a, v), {a})
    BY <2>4, <2>5 DEF Follows
  <2>. QED BY <2>1, <2>2, <2>5, <2>6 DEF IsRef, v, area
<1>. QED BY <1>1, <1>2, <1>3

-----------------------------------------------------------------------------
(* A pass over the formulas of a sequence *)

(* The cells at each stage of EvaluatedInTurn. *)
IsPass(g, cs, order, cur) ==
  g = [n \in 0..Len(order) |->
         IF n = 0 THEN cs ELSE Evaluated(g[n-1], cur[order[n]], order[n])]

LEMMA PassExists ==
  ASSUME NEW cs, NEW order, Len(order) \in Nat, NEW cur
  PROVE  \E g : IsPass(g, cs, order, cur) /\ EvaluatedInTurn(cs, order, cur) = g[Len(order)]
<1>. DEFINE Rec(g, n) == [i \in 0..n |-> IF i = 0 THEN cs ELSE Evaluated(g[i-1], cur[order[i]], order[i])]
            N == {n \in Nat : \E g : g = Rec(g, n)}
<1>1. 0 \in N
  <2>. DEFINE g == [i \in 0..0 |-> cs]
  <2>1. g = Rec(g, 0)
    OBVIOUS
  <2>. QED BY <2>1
<1>2. ASSUME NEW n \in Nat, n \in N PROVE n + 1 \in N
  <2>1. PICK g : g = Rec(g, n)
    BY <1>2
  <2>. DEFINE h == [i \in 0..n+1 |-> IF i = n + 1 THEN Evaluated(g[n], cur[order[n+1]], order[n+1]) ELSE g[i]]
  <2>2. \A i \in 0..n : g[i] = IF i = 0 THEN cs ELSE Evaluated(g[i-1], cur[order[i]], order[i])
    <3>. DEFINE r == Rec(g, n)
    <3>1. \A i \in 0..n : r[i] = IF i = 0 THEN cs ELSE Evaluated(g[i-1], cur[order[i]], order[i])
      OBVIOUS
    <3>. HIDE DEF r
    <3>2. g = r
      BY <2>1 DEF r
    <3>. QED BY <3>1, <3>2
  <2>3. /\ h[n+1] = Evaluated(g[n], cur[order[n+1]], order[n+1])
        /\ \A i \in 0..n : h[i] = g[i]
    OBVIOUS
  <2>4. \A i \in 0..n+1 : h[i] = IF i = 0 THEN cs ELSE Evaluated(h[i-1], cur[order[i]], order[i])
    <3>. HIDE DEF h
    <3>1. ASSUME NEW i \in 0..n+1, i /= 0, i /= n + 1 PROVE i \in 0..n /\ i - 1 \in 0..n
      BY <3>1
    <3>2. n \in 0..n /\ n + 1 /= 0 /\ (n + 1) - 1 = n /\ 0 \in 0..n
      OBVIOUS
    <3>. QED BY <2>2, <2>3, <3>1, <3>2
  <2>5. h = Rec(h, n + 1)
    <3>1. h = [i \in 0..n+1 |-> h[i]]
      OBVIOUS
    <3>. HIDE DEF h
    <3>. QED BY <2>4, <3>1
  <2>. HIDE DEF h, Rec
  <2>. QED BY <2>5
<1>3. Len(order) \in N
  <2>1. Nat \subseteq N
    <3>. HIDE DEF N
    <3>. QED BY <1>1, <1>2, SetInduction
  <2>. QED BY <2>1
<1>. DEFINE it == CHOOSE g : g = Rec(g, Len(order))
<1>4. it = Rec(it, Len(order))
  <2>. HIDE DEF Rec
  <2>. QED BY <1>3
<1>5. EvaluatedInTurn(cs, order, cur) = it[Len(order)]
  BY DEF EvaluatedInTurn
<1>6. IsPass(it, cs, order, cur)
  <2>. HIDE DEF it
  <2>. QED BY <1>4 DEF IsPass
<1>. QED BY <1>5, <1>6

(* One stage after the other. *)
LEMMA PassStages ==
  ASSUME NEW cs, NEW order, Len(order) \in Nat, NEW cur, NEW g, IsPass(g, cs, order, cur)
  PROVE  /\ g[0] = cs
         /\ \A n \in 0..Len(order)-1 : g[n+1] = Evaluated(g[n], cur[order[n+1]], order[n+1])
<1>. DEFINE r == [n \in 0..Len(order) |->
                    IF n = 0 THEN cs ELSE Evaluated(g[n-1], cur[order[n]], order[n])]
<1>1. r[0] = cs
  OBVIOUS
<1>2. ASSUME NEW n \in 0..Len(order)-1
      PROVE  r[n+1] = Evaluated(g[n], cur[order[n+1]], order[n+1])
  <2>1. n + 1 \in 0..Len(order) /\ n + 1 /= 0 /\ (n + 1) - 1 = n
    OBVIOUS
  <2>. QED BY <2>1
<1>3. g = r
  BY DEF IsPass
<1>. HIDE DEF r
<1>. QED BY <1>1, <1>2, <1>3

LEMMA PassStage ==
  ASSUME NEW cs, NEW order, Len(order) \in Nat, NEW cur, NEW g, IsPass(g, cs, order, cur),
         NEW n \in 1..Len(order)
  PROVE  g[n] = Evaluated(g[n-1], cur[order[n]], order[n])
<1>1. n \in 0..Len(order) /\ n /= 0
  OBVIOUS
<1>. QED BY <1>1 DEF IsPass

(* What a sequence of formulas is: every cell of it has an expression. *)
AreFormulas(order, cs) ==
  /\ order \in Seq(DOMAIN cs)
  /\ \A a \in ToSet(order) : cs[a].exp /= NULL

AreSheets(cur, order) == \A a \in ToSet(order) : cur[a] \in ToSet(Sheets)

LEMMA PassKeeps ==
  ASSUME NEW cs, Shaped(cs), NEW order, AreFormulas(order, cs), NEW cur, AreSheets(cur, order),
         NEW g, IsPass(g, cs, order, cur)
  PROVE  \A n \in 0..Len(order) : Shaped(g[n]) /\ Follows(cs, g[n], ToSet(order))
<1>. DEFINE N == {n \in 0..Len(order) : Shaped(g[n]) /\ Follows(cs, g[n], ToSet(order))}
<1>0. /\ Len(order) \in Nat /\ ToSet(order) \in SUBSET DOMAIN cs
      /\ \A n \in 0..Len(order)-1 : order[n+1] \in ToSet(order)
  BY DEF AreFormulas, ToSet
<1>1. 0 \in N
  BY <1>0, PassStages DEF Follows
<1>2. ASSUME NEW n \in 0..Len(order)-1, n \in N PROVE n + 1 \in N
  <2>. DEFINE a == order[n+1]
              c == g[n]
              d == g[n+1]
  <2>1. Shaped(c) /\ Follows(cs, c, ToSet(order)) /\ a \in ToSet(order) /\ n + 1 \in 0..Len(order)
    BY <1>0, <1>2
  <2>2. d = Evaluated(c, cur[a], a)
    <3>1. \A m \in 0..Len(order)-1 : g[m+1] = Evaluated(g[m], cur[order[m+1]], order[m+1])
      <4>. HIDE DEF N
      <4>. QED BY <1>0, PassStages
    <3>. QED BY <3>1
  <2>3. cur[a] \in ToSet(Sheets) /\ a \in DOMAIN c /\ c[a].exp /= NULL
    BY <1>0, <2>1 DEF AreFormulas, AreSheets, Follows
  <2>. HIDE DEF a, c, d
  <2>4. Shaped(d) /\ Follows(c, d, {a})
    BY <2>1, <2>2, <2>3, EvaluatedFacts
  <2>5. Follows(cs, d, ToSet(order))
    BY <1>0, <2>1, <2>4, FollowsOn
  <2>. QED BY <2>1, <2>4, <2>5 DEF d
<1>3. 0..Len(order) \subseteq N
  <2>. HIDE DEF N
  <2>. QED BY <1>0, <1>1, <1>2, BoundedInduction
<1>. QED BY <1>3

LEMMA PassResult ==
  ASSUME NEW cs, Shaped(cs), NEW order, AreFormulas(order, cs), NEW cur, AreSheets(cur, order)
  PROVE  LET c == EvaluatedInTurn(cs, order, cur)
         IN  Shaped(c) /\ Follows(cs, c, ToSet(order))
<1>1. Len(order) \in Nat /\ Len(order) \in 0..Len(order)
  BY DEF AreFormulas
<1>2. PICK g : IsPass(g, cs, order, cur) /\ EvaluatedInTurn(cs, order, cur) = g[Len(order)]
  BY <1>1, PassExists
<1>. QED BY <1>1, <1>2, PassKeeps

(* From a stage on, only the formulas that are left are written. *)
LEMMA PassRest ==
  ASSUME NEW cs, Shaped(cs), NEW order, AreFormulas(order, cs), NEW cur, AreSheets(cur, order),
         NEW g, IsPass(g, cs, order, cur), NEW k \in 0..Len(order)
  PROVE  Follows(g[k], g[Len(order)], {order[i] : i \in k+1..Len(order)})
<1>. DEFINE left == {order[i] : i \in k+1..Len(order)}
            N == {n \in 0..Len(order) : n >= k => Follows(g[k], g[n], left)}
<1>0. \A n \in 0..Len(order) : Shaped(g[n]) /\ Follows(cs, g[n], ToSet(order))
  <2>. HIDE DEF N, left
  <2>. QED BY PassKeeps
<1>1. /\ Len(order) \in Nat /\ Len(order) \in 0..Len(order) /\ ToSet(order) \subseteq DOMAIN cs
      /\ \A n \in 0..Len(order)-1 : order[n+1] \in ToSet(order)
  BY DEF AreFormulas, ToSet
<1>2. \A n \in 0..Len(order)-1 : g[n+1] = Evaluated(g[n], cur[order[n+1]], order[n+1])
  <2>. HIDE DEF N, left
  <2>. QED BY <1>1, PassStages
<1>3. left \in SUBSET DOMAIN g[k]
  <2>1. left \subseteq ToSet(order)
    BY <1>1 DEF AreFormulas, ToSet
  <2>. QED BY <1>0, <1>1, <2>1 DEF Follows
<1>4. Follows(g[k], g[k], left)
  BY DEF Follows
<1>5. 0 \in N
  BY <1>1, <1>4
<1>6. ASSUME NEW n \in 0..Len(order)-1, n \in N PROVE n + 1 \in N
  <2>. DEFINE a == order[n+1]
              c == g[n]
              d == g[n+1]
              sh == cur[a]
  <2>1. n \in 0..Len(order) /\ n + 1 \in 0..Len(order) /\ a \in ToSet(order)
    BY <1>1
  <2>2. CASE n + 1 <= k
    <3>1. n + 1 >= k => Follows(g[k], g[n+1], left)
      BY <1>1, <1>4, <2>2
    <3>. QED BY <2>1, <3>1
  <2>3. CASE n >= k
    <3>1. Follows(g[k], c, left) /\ a \in left
      BY <1>1, <1>6, <2>3
    <3>2. d = Evaluated(c, sh, a) /\ Shaped(c) /\ Follows(cs, c, ToSet(order))
      BY <1>0, <1>2, <2>1
    <3>. HIDE DEF a, c, d, sh, left
    <3>3. sh \in ToSet(Sheets) /\ a \in DOMAIN c /\ c[a].exp /= NULL
      BY <1>1, <2>1, <3>2 DEF AreFormulas, AreSheets, Follows, sh
    <3>4. Follows(c, d, {a})
      BY <3>2, <3>3, EvaluatedFacts
    <3>5. Follows(g[k], d, left)
      BY <1>3, <3>1, <3>4, FollowsOn
    <3>. QED BY <2>1, <3>5 DEF d, left
  <2>. QED BY <1>1, <2>2, <2>3
<1>7. Len(order) \in N
  <2>1. 0..Len(order) \subseteq N
    <3>. HIDE DEF N
    <3>. QED BY <1>1, <1>5, <1>6, BoundedInduction
  <2>. QED BY <1>1, <2>1
<1>. QED BY <1>1, <1>7

(* A total depends on the cells of its area only, and new cells are blank. *)
LEMMA TotalKept ==
  ASSUME NEW cs, NEW c, NEW formulas, Follows(cs, c, formulas), NEW area, area \cap formulas = {}
  PROVE  Total(c, area) = Total(cs, area)
<1>. DEFINE counted(d) == {a \in area \cap DOMAIN d : "VAL" \in d[a].flag}
            values(d) == [a \in counted(d) |-> d[a].val]
<1>1. \A a \in area \cap DOMAIN cs : a \in DOMAIN c /\ c[a] = cs[a]
  BY DEF Follows
<1>2. \A a \in area \cap DOMAIN c : a \notin DOMAIN cs => c[a].flag = {}
  BY DEF Follows, BlankEnt
<1>3. counted(c) = counted(cs)
  BY <1>1, <1>2
<1>4. values(c) = values(cs)
  BY <1>1, <1>3
<1>5. \A d : Total(d, area) = SumFunctionOnSet(values(d), counted(d))
  BY DEF Total
<1>. HIDE DEF counted, values
<1>. QED BY <1>3, <1>4, <1>5

-----------------------------------------------------------------------------
(* The scan *)

LEMMA PositionFacts ==
  \A sh \in ToSet(Sheets) : Position(sh) \in Nat /\ Sheets[Position(sh)] = sh
<1>. SUFFICES ASSUME NEW sh \in ToSet(Sheets)
              PROVE  Position(sh) \in Nat /\ Sheets[Position(sh)] = sh
  OBVIOUS
<1>1. \E i \in DOMAIN Sheets : Sheets[i] = sh
  BY DEF ToSet
<1>2. Position(sh) \in DOMAIN Sheets /\ Sheets[Position(sh)] = sh
  BY <1>1 DEF Position
<1>3. DOMAIN Sheets \subseteq Nat
  BY RecalcAssumption
<1>. QED BY <1>2, <1>3

(* The extents reach to every cell of the sheet. *)
LEMMA ScannedAll ==
  ASSUME NEW cs, Shaped(cs)
  PROVE  Scanned(cs) = DOMAIN cs
<1>. SUFFICES ASSUME NEW a \in DOMAIN cs
              PROVE  a[2] <= LastRow(cs, a[1]) /\ a[3] <= LastCol(cs, a[1])
  BY DEF Scanned
<1>. DEFINE C == {b \in DOMAIN cs : b[1] = a[1]}
            row == [b \in C |-> b[2]]
            col == [b \in C |-> b[3]]
            R == {b[2] : b \in C}
            K == {b[3] : b \in C}
<1>1. \A b \in C : b[2] \in Nat /\ b[3] \in Nat
  BY DEF Shaped, IsAddress
<1>2. IsFiniteSet(C)
  <2>1. IsFiniteSet(DOMAIN cs) /\ C \in SUBSET DOMAIN cs
    BY DEF Shaped
  <2>. HIDE DEF C
  <2>. QED BY <2>1, FS_Subset
<1>3. row \in Surjection(C, R) /\ col \in Surjection(C, K)
  BY DEF Surjection
<1>4. IsFiniteSet(R) /\ IsFiniteSet(K)
  <2>. HIDE DEF C, R, K, row, col
  <2>. QED BY <1>2, <1>3, FS_Surjection
<1>5. R \subseteq Nat /\ K \subseteq Nat /\ a[2] \in R /\ a[3] \in K
  BY <1>1
<1>6. IsFiniteSet({0} \cup R) /\ IsFiniteSet({0} \cup K)
  <2>1. IsFiniteSet({0})
    BY FS_Singleton
  <2>. HIDE DEF R, K
  <2>. QED BY <1>4, <2>1, FS_Union
<1>7. LastRow(cs, a[1]) = Max({0} \cup R) /\ LastCol(cs, a[1]) = Max({0} \cup K)
  BY DEF LastRow, LastCol
<1>. HIDE DEF R, K, C
<1>8. {0} \cup R \in SUBSET Nat /\ {0} \cup R /= {} /\ {0} \cup K \in SUBSET Nat /\ {0} \cup K /= {}
  BY <1>5
<1>9. /\ \A y \in {0} \cup R : y <= Max({0} \cup R)
      /\ \A y \in {0} \cup K : y <= Max({0} \cup K)
  BY <1>6, <1>8, Greatest
<1>. QED BY <1>5, <1>7, <1>9

(* Scanning meets one cell after the other. *)
LEMMA ScanOrder ==
  ASSUME NEW cs, Shaped(cs)
  PROVE  /\ \A a \in DOMAIN cs : ~ScanBefore(a, a)
         /\ \A a, b \in DOMAIN cs : a = b \/ ScanBefore(a, b) \/ ScanBefore(b, a)
         /\ \A a, b, c \in DOMAIN cs :
              ScanBefore(a, b) /\ ScanBefore(b, c) => ScanBefore(a, c)
<1>1. \A a \in DOMAIN cs : /\ a = <<a[1], a[2], a[3]>> /\ a[2] \in Nat /\ a[3] \in Nat
                           /\ Position(a[1]) \in Nat /\ Sheets[Position(a[1])] = a[1]
  BY PositionFacts DEF Shaped, IsAddress
<1>2. \A a \in DOMAIN cs : ~ScanBefore(a, a)
  BY <1>1 DEF ScanBefore
<1>3. ASSUME NEW a \in DOMAIN cs, NEW b \in DOMAIN cs
      PROVE  a = b \/ ScanBefore(a, b) \/ ScanBefore(b, a)
  <2>1. CASE a[1] /= b[1]
    <3>1. Position(a[1]) /= Position(b[1])
      BY <1>1, <2>1
    <3>. QED BY <1>1, <3>1 DEF ScanBefore
  <2>2. CASE a[1] = b[1]
    <3>1. CASE a[2] = b[2] /\ a[3] = b[3]
      BY <1>1, <2>2, <3>1
    <3>2. CASE ~(a[2] = b[2] /\ a[3] = b[3])
      BY <1>1, <2>2, <3>2 DEF ScanBefore
    <3>. QED BY <3>1, <3>2
  <2>. QED BY <2>1, <2>2
<1>4. ASSUME NEW a \in DOMAIN cs, NEW b \in DOMAIN cs, NEW c \in DOMAIN cs,
             ScanBefore(a, b), ScanBefore(b, c)
      PROVE  ScanBefore(a, c)
  BY <1>1, <1>4 DEF ScanBefore
<1>. QED BY <1>2, <1>3, <1>4

(* The scan finds every formula, once. *)
LEMMA ScanFacts ==
  ASSUME NEW cs, Shaped(cs)
  PROVE  /\ AreFormulas(Scan(cs), cs) /\ IsInjective(Scan(cs))
         /\ ToSet(Scan(cs)) = Evaluable(cs)
<1>. DEFINE F == Scanned(cs) \cap Evaluable(cs)
            before == {p \in (DOMAIN cs) \X (DOMAIN cs) : ScanBefore(p[1], p[2])}
            n == Cardinality(F)
            place == Ranks(F, before)
            s == Scan(cs)
<1>1. F = Evaluable(cs) /\ F \in SUBSET DOMAIN cs
  BY ScannedAll DEF Evaluable
<1>2. IsFiniteSet(F)
  <2>1. IsFiniteSet(DOMAIN cs)
    BY DEF Shaped
  <2>. HIDE DEF F
  <2>. QED BY <1>1, <2>1, FS_Subset
<1>3. \A a, b \in DOMAIN cs : <<a, b>> \in before <=> ScanBefore(a, b)
  OBVIOUS
<1>4. place \in Bijection(F, 1..n)
  <2>. HIDE DEF F, before
  <2>1. \A a \in F : <<a, a>> \notin before
    BY <1>1, <1>3, ScanOrder
  <2>2. \A a, b \in F : a = b \/ <<a, b>> \in before \/ <<b, a>> \in before
    BY <1>1, <1>3, ScanOrder
  <2>3. \A a, b, c \in F : <<a, b>> \in before /\ <<b, c>> \in before => <<a, c>> \in before
    BY <1>1, <1>3, ScanOrder
  <2>4. Orders(before, F)
    BY <2>1, <2>2, <2>3 DEF Orders
  <2>. QED BY <1>2, <2>4, Ranking
<1>5. s = [i \in 1..n |-> CHOOSE a \in F : place[a] = i]
  <2>. DEFINE Place(a) == Cardinality({b \in F : ScanBefore(b, a)}) + 1
  <2>1. \A a \in F : {b \in F : <<b, a>> \in before} = {b \in F : ScanBefore(b, a)}
    <3>. HIDE DEF F, before
    <3>. QED BY <1>1, <1>3
  <2>2. \A a \in F : place[a] = Place(a)
    <3>1. place = [a \in F |-> Cardinality({b \in F : <<b, a>> \in before}) + 1]
      BY DEF Ranks
    <3>. HIDE DEF F, before, place
    <3>. QED BY <2>1, <3>1
  <2>3. s = [i \in 1..n |-> CHOOSE a \in F : Place(a) = i]
    BY DEF Scan
  <2>. HIDE DEF F, place, Place, n, s
  <2>4. ASSUME NEW i \in 1..n
        PROVE  (CHOOSE a \in F : Place(a) = i) = (CHOOSE a \in F : place[a] = i)
    <3>1. \A a : (a \in F /\ Place(a) = i) <=> (a \in F /\ place[a] = i)
      BY <2>2
    <3>. QED BY <3>1
  <2>. DEFINE one(i) == CHOOSE a \in F : Place(a) = i
              two(i) == CHOOSE a \in F : place[a] = i
  <2>5. \A i \in 1..n : one(i) = two(i)
    BY <2>4
  <2>6. s = [i \in 1..n |-> one(i)]
    BY <2>3
  <2>. HIDE DEF one, two
  <2>7. s = [i \in 1..n |-> two(i)]
    BY <2>5, <2>6
  <2>. QED BY <2>7 DEF two
<1>6. n \in Nat
  <2>. HIDE DEF F
  <2>. QED BY <1>2, FS_CardinalityType
<1>. HIDE DEF F, before, n, place, s
<1>7. place \in [F -> 1..n] /\ IsInjective(place) /\ \A i \in 1..n : \E a \in F : place[a] = i
  BY <1>4 DEF Bijection, Injection, Surjection
<1>8. \A i \in 1..n : s[i] \in F /\ place[s[i]] = i
  BY <1>5, <1>7
<1>9. s \in Seq(DOMAIN cs) /\ DOMAIN s = 1..n
  <2>1. s \in [1..n -> DOMAIN cs]
    BY <1>1, <1>5, <1>8
  <2>. QED BY <1>6, <2>1
<1>10. IsInjective(s)
  BY <1>8, <1>9 DEF IsInjective
<1>11. ToSet(s) = F
  <2>1. ToSet(s) \subseteq F
    BY <1>8, <1>9 DEF ToSet
  <2>2. ASSUME NEW a \in F PROVE a \in ToSet(s)
    <3>1. place[a] \in 1..n /\ s[place[a]] \in F /\ place[s[place[a]]] = place[a]
      BY <1>7, <1>8
    <3>2. s[place[a]] = a
      BY <1>7, <3>1 DEF IsInjective
    <3>. QED BY <1>9, <3>1, <3>2 DEF ToSet
  <2>. QED BY <2>1, <2>2
<1>12. \A a \in F : cs[a].exp /= NULL
  BY <1>1 DEF Evaluable
<1>. QED BY <1>1, <1>9, <1>10, <1>11, <1>12 DEF AreFormulas, s

-----------------------------------------------------------------------------
(* Settling *)

(* A reference to a cell of S. *)
Joins(cs, a, S) ==
  /\ cs[a].exp /= NULL
  /\ cs[a].exp.type = "eENT"
  /\ cs[a].exp.at \in S

Gained(cs, T, a) == IF Joins(cs, a, T) THEN T \cup {a} ELSE T

(* The sets at each stage of OnePass. *)
IsGain(h, cs, order, S) ==
  h = [n \in 0..Len(order) |-> IF n = 0 THEN S ELSE Gained(cs, h[n-1], order[n])]

LEMMA GainExists ==
  ASSUME NEW cs, NEW order, Len(order) \in Nat, NEW S
  PROVE  \E h : IsGain(h, cs, order, S) /\ OnePass(cs, order, S) = h[Len(order)]
<1>. DEFINE Rec(h, n) == [i \in 0..n |-> IF i = 0 THEN S ELSE Gained(cs, h[i-1], order[i])]
            N == {n \in Nat : \E h : h = Rec(h, n)}
<1>1. 0 \in N
  <2>. DEFINE h == [i \in 0..0 |-> S]
  <2>1. h = Rec(h, 0)
    OBVIOUS
  <2>. QED BY <2>1
<1>2. ASSUME NEW n \in Nat, n \in N PROVE n + 1 \in N
  <2>1. PICK h : h = Rec(h, n)
    BY <1>2
  <2>. DEFINE k == [i \in 0..n+1 |-> IF i = n + 1 THEN Gained(cs, h[n], order[n+1]) ELSE h[i]]
  <2>2. \A i \in 0..n : h[i] = IF i = 0 THEN S ELSE Gained(cs, h[i-1], order[i])
    <3>. DEFINE r == Rec(h, n)
    <3>1. \A i \in 0..n : r[i] = IF i = 0 THEN S ELSE Gained(cs, h[i-1], order[i])
      OBVIOUS
    <3>. HIDE DEF r
    <3>2. h = r
      BY <2>1 DEF r
    <3>. QED BY <3>1, <3>2
  <2>3. k[n+1] = Gained(cs, h[n], order[n+1]) /\ \A i \in 0..n : k[i] = h[i]
    OBVIOUS
  <2>4. \A i \in 0..n+1 : k[i] = IF i = 0 THEN S ELSE Gained(cs, k[i-1], order[i])
    <3>. HIDE DEF k
    <3>1. ASSUME NEW i \in 0..n+1, i /= 0, i /= n + 1 PROVE i \in 0..n /\ i - 1 \in 0..n
      BY <3>1
    <3>2. n \in 0..n /\ n + 1 /= 0 /\ (n + 1) - 1 = n /\ 0 \in 0..n
      OBVIOUS
    <3>. QED BY <2>2, <2>3, <3>1, <3>2
  <2>5. k = Rec(k, n + 1)
    <3>1. k = [i \in 0..n+1 |-> k[i]]
      OBVIOUS
    <3>. HIDE DEF k
    <3>. QED BY <2>4, <3>1
  <2>. HIDE DEF k, Rec
  <2>. QED BY <2>5
<1>3. Len(order) \in N
  <2>1. Nat \subseteq N
    <3>. HIDE DEF N
    <3>. QED BY <1>1, <1>2, SetInduction
  <2>. QED BY <2>1
<1>. DEFINE it == CHOOSE h : h = Rec(h, Len(order))
<1>4. it = Rec(it, Len(order))
  <2>. HIDE DEF Rec
  <2>. QED BY <1>3
<1>5. OnePass(cs, order, S) = it[Len(order)]
  BY DEF OnePass, Gained, Joins
<1>6. IsGain(it, cs, order, S)
  <2>. HIDE DEF it
  <2>. QED BY <1>4 DEF IsGain
<1>. QED BY <1>5, <1>6

LEMMA GainStages ==
  ASSUME NEW cs, NEW order, Len(order) \in Nat, NEW S, NEW h, IsGain(h, cs, order, S)
  PROVE  /\ h[0] = S
         /\ \A n \in 0..Len(order)-1 : h[n+1] = Gained(cs, h[n], order[n+1])
<1>. DEFINE r == [n \in 0..Len(order) |-> IF n = 0 THEN S ELSE Gained(cs, h[n-1], order[n])]
<1>1. h = r
  BY DEF IsGain
<1>2. r[0] = S
  OBVIOUS
<1>3. ASSUME NEW n \in 0..Len(order)-1 PROVE r[n+1] = Gained(cs, h[n], order[n+1])
  <2>1. n + 1 \in 0..Len(order) /\ n + 1 /= 0 /\ (n + 1) - 1 = n
    OBVIOUS
  <2>. QED BY <2>1
<1>. HIDE DEF r
<1>. QED BY <1>1, <1>2, <1>3

(* A pass adds formulas only, and keeps what it had. *)
LEMMA OnePassBounds ==
  ASSUME NEW cs, NEW D, NEW order \in Seq(D), NEW S
  PROVE  S \subseteq OnePass(cs, order, S) /\ OnePass(cs, order, S) \subseteq S \cup D
<1>1. Len(order) \in Nat /\ \A n \in 0..Len(order)-1 : order[n+1] \in D
  OBVIOUS
<1>2. PICK h : IsGain(h, cs, order, S) /\ OnePass(cs, order, S) = h[Len(order)]
  BY <1>1, GainExists
<1>. DEFINE N == {n \in 0..Len(order) : S \subseteq h[n] /\ h[n] \subseteq S \cup D}
<1>2a. /\ h[0] = S
       /\ \A n \in 0..Len(order)-1 : h[n+1] = Gained(cs, h[n], order[n+1])
  BY <1>1, <1>2, GainStages
<1>3. 0 \in N
  BY <1>1, <1>2a
<1>4. ASSUME NEW n \in 0..Len(order)-1, n \in N PROVE n + 1 \in N
  <2>1. h[n+1] = h[n] \/ h[n+1] = h[n] \cup {order[n+1]}
    BY <1>2a DEF Gained
  <2>2. n + 1 \in 0..Len(order) /\ order[n+1] \in D
    BY <1>1
  <2>. QED BY <1>4, <2>1, <2>2
<1>5. Len(order) \in N
  <2>1. 0..Len(order) \subseteq N
    <3>. HIDE DEF N
    <3>. QED BY <1>1, <1>3, <1>4, BoundedInduction
  <2>. QED BY <1>1, <2>1
<1>. QED BY <1>2, <1>5

LEMMA SettledFacts ==
  ASSUME NEW cs, NEW order \in Seq(DOMAIN cs)
  PROVE  /\ Settled(cs, order, 0) = DOMAIN cs \ ToSet(order)
         /\ \A n \in Nat : /\ Settled(cs, order, n) \subseteq DOMAIN cs
                           /\ Settled(cs, order, n+1) = OnePass(cs, order, Settled(cs, order, n))
<1>. DEFINE D == SUBSET DOMAIN cs
            d == DOMAIN cs \ ToSet(order)
            F == [S \in D |-> OnePass(cs, order, S)]
            Rec(g) == [n \in Nat |-> IF n = 0 THEN d ELSE OnePass(cs, order, g[n-1])]
            it == CHOOSE g : g = Rec(g)
<1>1. d \in D /\ F \in [D -> D]
  <2>1. \A S \in D : OnePass(cs, order, S) \in D
    BY OnePassBounds
  <2>. QED BY <2>1
<1>2. PICK g : Iterates(g, D, d, F)
  <2>. HIDE DEF D, d, F
  <2>. QED BY <1>1, Iteration
<1>2a. g \in [Nat -> D] /\ g[0] = d /\ \A n \in Nat : g[n+1] = F[g[n]]
  <2>. HIDE DEF D, d, F
  <2>. QED BY <1>2 DEF Iterates
<1>3. ASSUME NEW n \in Nat, n /= 0 PROVE g[n] = OnePass(cs, order, g[n-1])
  <2>1. n - 1 \in Nat /\ (n - 1) + 1 = n
    BY <1>3
  <2>2. g[n] = F[g[n-1]] /\ g[n-1] \in D
    BY <1>2a, <2>1
  <2>. QED BY <2>2
<1>. HIDE DEF D, d, F
<1>4. g = Rec(g)
  <2>1. g = [n \in Nat |-> g[n]]
    BY <1>2a
  <2>. QED BY <1>2a, <1>3, <2>1
<1>5. it = Rec(it)
  <2>. HIDE DEF Rec
  <2>. QED BY <1>4
<1>6. \A n \in Nat : Settled(cs, order, n) = it[n]
  BY DEF Settled, d
<1>. HIDE DEF it
<1>7. \A n \in Nat : it[n] = IF n = 0 THEN d ELSE OnePass(cs, order, it[n-1])
  <2>. DEFINE r == Rec(it)
  <2>1. \A n \in Nat : r[n] = IF n = 0 THEN d ELSE OnePass(cs, order, it[n-1])
    OBVIOUS
  <2>. HIDE DEF r
  <2>. QED BY <1>5, <2>1 DEF r
<1>8. ASSUME NEW n \in Nat PROVE it[n+1] = OnePass(cs, order, it[n])
  <2>1. n + 1 \in Nat /\ n + 1 /= 0 /\ (n + 1) - 1 = n
    OBVIOUS
  <2>. QED BY <1>7, <2>1
<1>9. it[0] = d
  BY <1>7
<1>10. Nat \subseteq {n \in Nat : it[n] \subseteq DOMAIN cs}
  <2>. DEFINE N == {n \in Nat : it[n] \subseteq DOMAIN cs}
  <2>1. 0 \in N
    BY <1>9 DEF d
  <2>2. ASSUME NEW n \in Nat, n \in N PROVE n + 1 \in N
    <3>1. it[n+1] = OnePass(cs, order, it[n]) /\ it[n] \subseteq DOMAIN cs
      BY <1>8, <2>2
    <3>2. OnePass(cs, order, it[n]) \subseteq it[n] \cup DOMAIN cs
      BY OnePassBounds
    <3>3. it[n+1] \subseteq DOMAIN cs
      BY <3>1, <3>2
    <3>. QED BY <3>3
  <2>. HIDE DEF N
  <2>3. Nat \subseteq N
    BY <2>1, <2>2, SetInduction
  <2>. QED BY <2>3 DEF N
<1>11. \A n \in Nat : it[n] \subseteq DOMAIN cs
  BY <1>10
<1>12. Settled(cs, order, 0) = d
  BY <1>6, <1>9
<1>13. ASSUME NEW n \in Nat
       PROVE  /\ Settled(cs, order, n) \subseteq DOMAIN cs
              /\ Settled(cs, order, n+1) = OnePass(cs, order, Settled(cs, order, n))
  <2>1. Settled(cs, order, n) = it[n] /\ Settled(cs, order, n+1) = it[n+1]
    BY <1>6
  <2>. QED BY <1>8, <1>11, <2>1
<1>. QED BY <1>12, <1>13 DEF d

(* The cells of S that are formulas hold what they ask for, and read cells
   of S. *)
Sound(cs, S, formulas) ==
  \A a \in S \cap formulas :
    /\ cs[a].exp /= NULL /\ cs[a].exp.type = "eENT" /\ cs[a].exp.at \in S
    /\ cs[a].val = (cs[cs[a].exp.at].val + 1) % Modulus

(* One evaluation: of a cell of S it changes nothing, of another cell nothing
   that S reads. *)
LEMMA SoundStep ==
  ASSUME NEW c, Shaped(c), NEW formulas \in SUBSET DOMAIN c, NEW a \in formulas,
         c[a].exp /= NULL, NEW cur \in ToSet(Sheets), NEW S, Sound(c, S, formulas)
  PROVE  Sound(Evaluated(c, cur, a), Gained(c, S, a), formulas)
<1>. DEFINE d == Evaluated(c, cur, a)
            T == Gained(c, S, a)
<1>1. /\ Follows(c, d, {a}) /\ a \in DOMAIN c
      /\ IsRef(c[a].exp) => d[a].val = (c[c[a].exp.at].val + 1) % Modulus
  BY EvaluatedFacts
<1>2. \A b \in DOMAIN c : d[b].exp = c[b].exp /\ (b /= a => d[b].val = c[b].val)
  BY <1>1 DEF Follows
<1>. SUFFICES ASSUME NEW b \in T \cap formulas
              PROVE  /\ d[b].exp /= NULL /\ d[b].exp.type = "eENT" /\ d[b].exp.at \in T
                     /\ d[b].val = (d[d[b].exp.at].val + 1) % Modulus
  BY DEF Sound
<1>3. S \subseteq T /\ T \subseteq S \cup {a} /\ (a \notin S /\ a \in T => Joins(c, a, S))
  BY DEF Gained
<1>4. /\ c[b].exp /= NULL /\ c[b].exp.type = "eENT" /\ c[b].exp.at \in S
      /\ b /= a \/ a \in S => c[b].val = (c[c[b].exp.at].val + 1) % Modulus
  BY <1>3 DEF Sound, Joins
<1>5. c[b].exp.at \in DOMAIN c /\ b \in DOMAIN c
  <2>1. IsRange(c[b].exp) \/ (IsRef(c[b].exp) /\ c[b].exp.at \in DOMAIN c)
    BY <1>4 DEF Shaped, GoodEnt
  <2>. QED BY <1>4, <2>1 DEF IsRange
<1>6. d[b].exp = c[b].exp
  BY <1>2, <1>5
<1>. DEFINE at == c[b].exp.at
<1>7. d[b].val = (d[at].val + 1) % Modulus
  <2>1. CASE a \in S
    <3>1. d[a].val = c[a].val
      <4>1. /\ c[a].exp.type = "eENT"
            /\ c[a].val = (c[c[a].exp.at].val + 1) % Modulus
        BY <2>1 DEF Sound
      <4>. QED BY <1>1, <4>1 DEF IsRef
    <3>2. d[b].val = c[b].val /\ d[at].val = c[at].val
      BY <1>2, <1>5, <3>1
    <3>. QED BY <1>4, <2>1, <3>2
  <2>2. CASE a \notin S
    <3>1. at /= a /\ d[at].val = c[at].val
      BY <1>2, <1>4, <1>5, <2>2
    <3>2. CASE b = a
      BY <1>1, <1>4, <3>1, <3>2 DEF IsRef
    <3>3. CASE b /= a
      <4>1. d[b].val = c[b].val
        BY <1>2, <1>5, <3>3
      <4>. QED BY <1>4, <3>1, <3>3, <4>1
    <3>. QED BY <3>2, <3>3
  <2>. QED BY <2>1, <2>2
<1>. QED BY <1>3, <1>4, <1>6, <1>7

(* What Sound says depends on the cells of DOMAIN cs only, and what joins on
   their expressions. *)
LEMMA GainedFollows ==
  ASSUME NEW cs, NEW c, NEW formulas, Follows(cs, c, formulas), NEW a \in DOMAIN cs, NEW S
  PROVE  Gained(c, S, a) = Gained(cs, S, a)
<1>1. c[a].exp = cs[a].exp
  BY DEF Follows
<1>. QED BY <1>1 DEF Gained, Joins

LEMMA PassSettles ==
  ASSUME NEW cs, Shaped(cs), NEW order, AreFormulas(order, cs), NEW cur, AreSheets(cur, order),
         NEW S, Sound(cs, S, ToSet(order))
  PROVE  LET c == EvaluatedInTurn(cs, order, cur)
         IN  Sound(c, OnePass(c, order, S), ToSet(order))
<1>. DEFINE c == EvaluatedInTurn(cs, order, cur)
<1>1. /\ Len(order) \in Nat /\ Len(order) \in 0..Len(order) /\ ToSet(order) \in SUBSET DOMAIN cs
      /\ \A n \in 0..Len(order)-1 : order[n+1] \in ToSet(order)
  BY DEF AreFormulas, ToSet
<1>2. PICK g : IsPass(g, cs, order, cur) /\ c = g[Len(order)]
  BY <1>1, PassExists
<1>3. PICK h : IsGain(h, c, order, S) /\ OnePass(c, order, S) = h[Len(order)]
  BY <1>1, GainExists
<1>4. \A n \in 0..Len(order) : Shaped(g[n]) /\ Follows(cs, g[n], ToSet(order))
  BY <1>2, PassKeeps
<1>5. g[0] = cs /\ \A n \in 0..Len(order)-1 : g[n+1] = Evaluated(g[n], cur[order[n+1]], order[n+1])
  BY <1>1, <1>2, PassStages
<1>6. h[0] = S /\ \A n \in 0..Len(order)-1 : h[n+1] = Gained(c, h[n], order[n+1])
  BY <1>1, <1>3, GainStages
<1>7. Follows(cs, c, ToSet(order))
  BY <1>1, <1>2, <1>4
<1>. HIDE DEF c
<1>. DEFINE N == {n \in 0..Len(order) : Sound(g[n], h[n], ToSet(order))}
<1>8. 0 \in N
  BY <1>1, <1>5, <1>6
<1>9. ASSUME NEW n \in 0..Len(order)-1, n \in N PROVE n + 1 \in N
  <2>. DEFINE a == order[n+1]
              e == g[n]
              T == h[n]
              sh == cur[a]
  <2>1. n \in 0..Len(order) /\ n + 1 \in 0..Len(order)
    BY <1>1
  <2>2. Shaped(e) /\ Follows(cs, e, ToSet(order)) /\ Sound(e, T, ToSet(order))
    BY <1>4, <1>9, <2>1
  <2>3. /\ a \in ToSet(order) /\ a \in DOMAIN cs /\ e[a].exp /= NULL
        /\ sh \in ToSet(Sheets) /\ ToSet(order) \in SUBSET DOMAIN e
    BY <1>1, <2>2 DEF AreFormulas, AreSheets, Follows
  <2>4. g[n+1] = Evaluated(e, sh, a) /\ h[n+1] = Gained(c, T, a)
    BY <1>5, <1>6
  <2>. HIDE DEF a, e, T, sh
  <2>5. Gained(c, T, a) = Gained(e, T, a)
    <3>1. Gained(c, T, a) = Gained(cs, T, a)
      BY <1>7, <2>3, GainedFollows
    <3>2. Gained(e, T, a) = Gained(cs, T, a)
      BY <2>2, <2>3, GainedFollows
    <3>. QED BY <3>1, <3>2
  <2>6. Sound(Evaluated(e, sh, a), Gained(e, T, a), ToSet(order))
    BY <2>2, <2>3, SoundStep
  <2>. QED BY <2>1, <2>4, <2>5, <2>6
<1>10. Len(order) \in N
  <2>1. 0..Len(order) \subseteq N
    <3>. HIDE DEF N
    <3>. QED BY <1>1, <1>8, <1>9, BoundedInduction
  <2>. QED BY <1>1, <2>1
<1>. QED BY <1>2, <1>3, <1>10 DEF c

(* What joins in a pass is the same when blank cells are added. *)
LEMMA GainedGrows ==
  ASSUME NEW cs, Shaped(cs), NEW c, NEW formulas, Follows(cs, c, formulas),
         NEW a \in DOMAIN cs, NEW S
  PROVE  LET new == DOMAIN c \ DOMAIN cs
         IN  Gained(c, S \cup new, a) = Gained(cs, S, a) \cup new
<1>. DEFINE new == DOMAIN c \ DOMAIN cs
<1>1. c[a].exp = cs[a].exp
  BY DEF Follows
<1>2. cs[a].exp /= NULL /\ cs[a].exp.type = "eENT" => cs[a].exp.at \in DOMAIN cs
  <2>1. cs[a].exp /= NULL => IsRange(cs[a].exp) \/ (IsRef(cs[a].exp) /\ cs[a].exp.at \in DOMAIN cs)
    BY DEF Shaped, GoodEnt
  <2>. QED BY <2>1 DEF IsRange
<1>3. Joins(c, a, S \cup new) <=> Joins(cs, a, S)
  BY <1>1, <1>2 DEF Joins
<1>. QED BY <1>3 DEF Gained

LEMMA OnePassGrows ==
  ASSUME NEW cs, Shaped(cs), NEW order \in Seq(DOMAIN cs), NEW c, NEW formulas,
         Follows(cs, c, formulas), NEW S
  PROVE  LET new == DOMAIN c \ DOMAIN cs
         IN  OnePass(c, order, S \cup new) = OnePass(cs, order, S) \cup new
<1>. DEFINE new == DOMAIN c \ DOMAIN cs
            U == S \cup new
<1>1. /\ Len(order) \in Nat /\ Len(order) \in 0..Len(order)
      /\ \A n \in 0..Len(order)-1 : order[n+1] \in DOMAIN cs
  OBVIOUS
<1>2. PICK h : IsGain(h, cs, order, S) /\ OnePass(cs, order, S) = h[Len(order)]
  BY <1>1, GainExists
<1>3. PICK k : IsGain(k, c, order, U) /\ OnePass(c, order, U) = k[Len(order)]
  BY <1>1, GainExists
<1>4. h[0] = S /\ \A n \in 0..Len(order)-1 : h[n+1] = Gained(cs, h[n], order[n+1])
  <2>. HIDE DEF U, new
  <2>1. Len(order) \in Nat /\ IsGain(h, cs, order, S)
    BY <1>1, <1>2
  <2>. QED BY <2>1, GainStages
<1>5. k[0] = U /\ \A n \in 0..Len(order)-1 : k[n+1] = Gained(c, k[n], order[n+1])
  <2>. HIDE DEF U
  <2>1. Len(order) \in Nat /\ IsGain(k, c, order, U)
    BY <1>1, <1>3
  <2>. QED BY <2>1, GainStages
<1>. DEFINE N == {n \in 0..Len(order) : k[n] = h[n] \cup new}
<1>6. 0 \in N
  BY <1>1, <1>4, <1>5
<1>7. ASSUME NEW n \in 0..Len(order)-1, n \in N PROVE n + 1 \in N
  <2>. DEFINE a == order[n+1]
              T == h[n]
  <2>1. a \in DOMAIN cs /\ n + 1 \in 0..Len(order)
    BY <1>1
  <2>2. k[n+1] = Gained(c, T \cup new, a) /\ h[n+1] = Gained(cs, T, a)
    BY <1>4, <1>5, <1>7
  <2>. HIDE DEF a, T
  <2>3. Gained(c, T \cup new, a) = Gained(cs, T, a) \cup new
    BY <2>1, GainedGrows
  <2>. HIDE DEF new
  <2>. QED BY <2>1, <2>2, <2>3
<1>8. Len(order) \in N
  <2>1. 0..Len(order) \subseteq N
    <3>. HIDE DEF N
    <3>. QED BY <1>1, <1>6, <1>7, BoundedInduction
  <2>. QED BY <1>1, <2>1
<1>. QED BY <1>2, <1>3, <1>8

LEMMA SettledGrows ==
  ASSUME NEW cs, Shaped(cs), NEW order \in Seq(DOMAIN cs), NEW c, NEW formulas,
         Follows(cs, c, formulas)
  PROVE  \A n \in Nat :
           Settled(c, order, n) = Settled(cs, order, n) \cup (DOMAIN c \ DOMAIN cs)
<1>. DEFINE new == DOMAIN c \ DOMAIN cs
            N == {n \in Nat : Settled(c, order, n) = Settled(cs, order, n) \cup new}
<1>1. DOMAIN cs \subseteq DOMAIN c
  BY DEF Follows
<1>2. order \in Seq(DOMAIN c)
  BY <1>1
<1>3. 0 \in N
  <2>1. ToSet(order) \subseteq DOMAIN cs
    BY ElementsOf
  <2>2. Settled(c, order, 0) = DOMAIN c \ ToSet(order) /\ Settled(cs, order, 0) = DOMAIN cs \ ToSet(order)
    BY <1>2, SettledFacts
  <2>. QED BY <1>1, <2>1, <2>2
<1>4. ASSUME NEW n \in Nat, n \in N PROVE n + 1 \in N
  <2>. DEFINE S == Settled(cs, order, n)
  <2>1. Settled(cs, order, n+1) = OnePass(cs, order, S)
    BY SettledFacts
  <2>2. Settled(c, order, n+1) = OnePass(c, order, Settled(c, order, n))
    BY <1>2, SettledFacts
  <2>3. Settled(c, order, n) = S \cup new
    BY <1>4
  <2>4. OnePass(c, order, S \cup new) = OnePass(cs, order, S) \cup new
    <3>. HIDE DEF S
    <3>. QED BY OnePassGrows
  <2>5. Settled(c, order, n+1) = Settled(cs, order, n+1) \cup new
    <3>. HIDE DEF S, new
    <3>. QED BY <2>1, <2>2, <2>3, <2>4
  <2>. QED BY <2>5
<1>5. Nat \subseteq N
  <2>. HIDE DEF N
  <2>. QED BY <1>3, <1>4, SetInduction
<1>. QED BY <1>5

(* Recalculation once more: what was settled stays, and as far as a further
   pass reaches is settled after it. *)
LEMMA SettlesOn ==
  ASSUME NEW cs, Shaped(cs), NEW order, AreFormulas(order, cs), NEW cur, AreSheets(cur, order),
         NEW n \in Nat, Sound(cs, Settled(cs, order, n), ToSet(order))
  PROVE  LET c == EvaluatedInTurn(cs, order, cur)
         IN  /\ Sound(c, Settled(c, order, n), ToSet(order))
             /\ Sound(c, Settled(c, order, n+1), ToSet(order))
<1>. DEFINE c == EvaluatedInTurn(cs, order, cur)
            S == Settled(cs, order, n)
            T == Settled(c, order, n)
<1>1. Follows(cs, c, ToSet(order)) /\ order \in Seq(DOMAIN cs) /\ ToSet(order) \subseteq DOMAIN cs
  BY PassResult, ElementsOf DEF AreFormulas
<1>2. order \in Seq(DOMAIN c)
  BY <1>1 DEF Follows
<1>3. T = S \cup (DOMAIN c \ DOMAIN cs)
  <2>. HIDE DEF c
  <2>. QED BY <1>1, SettledGrows
<1>4. Sound(cs, T, ToSet(order))
  <2>. HIDE DEF c, T
  <2>. QED BY <1>1, <1>3 DEF Sound
<1>5. Sound(c, OnePass(c, order, T), ToSet(order))
  <2>. HIDE DEF T
  <2>. QED BY <1>4, PassSettles
<1>6. Settled(c, order, n+1) = OnePass(c, order, T)
  <2>. HIDE DEF c
  <2>. QED BY <1>2, SettledFacts
<1>7. T \subseteq OnePass(c, order, T)
  <2>. HIDE DEF c, T
  <2>. QED BY <1>2, OnePassBounds
<1>8. Sound(c, T, ToSet(order))
  <2>1. \A a \in DOMAIN cs : c[a].exp = cs[a].exp
    BY <1>1 DEF Follows
  <2>. HIDE DEF c, T
  <2>2. ASSUME NEW a \in T \cap ToSet(order)
        PROVE  /\ c[a].exp /= NULL /\ c[a].exp.type = "eENT" /\ c[a].exp.at \in T
               /\ c[a].val = (c[c[a].exp.at].val + 1) % Modulus
    BY <1>1, <1>4, <1>5, <1>7, <2>1 DEF Sound
  <2>. QED BY <2>2 DEF Sound
<1>. QED BY <1>5, <1>6, <1>8

-----------------------------------------------------------------------------
(* Cells are made on sheets that are there, one of which is current; after a
   recalc it is the first. *)
Sheeted ==
  /\ nsheets \in 0..Len(Sheets) /\ cur_sh \in Made \cup {NULL}
  /\ cur_sh = NULL => nsheets = 0
  /\ nsheets = 0 => DOMAIN cells = {}
  /\ chosen = "none" /\ cache /= <<>> => cur_sh = Head(Sheets)

(* The invariant: the cache has every formula unless one came late, and the
   cells that should have settled have. *)
IInv ==
  /\ Shaped(cells)
  /\ cache \in Seq(DOMAIN cells) /\ IsInjective(cache)
  /\ quiet \in Nat
  /\ Sheeted
  /\ CacheIsCurrent /\ (late => cache /= <<>>)
  /\ Sound(cells, Settled(cells, cache, quiet), ToSet(cache))

LEMMA EmptyShaped == Shaped(<<>>)
<1>1. DOMAIN <<>> = {}
  OBVIOUS
<1>2. IsFiniteSet({})
  BY FS_EmptySet
<1>3. <<>> = [a \in {} |-> <<>>[a]]
  OBVIOUS
<1>. QED BY <1>1, <1>2, <1>3 DEF Shaped

(* Nothing cached counts as settled before the first recalc. *)
LEMMA NoneSettled ==
  ASSUME NEW cs, NEW order \in Seq(DOMAIN cs)
  PROVE  Sound(cs, Settled(cs, order, 0), ToSet(order))
<1>1. Settled(cs, order, 0) = DOMAIN cs \ ToSet(order)
  BY SettledFacts
<1>. QED BY <1>1 DEF Sound

LEMMA SheetsFacts ==
  /\ Len(Sheets) \in Nat /\ Len(Sheets) > 0 /\ DOMAIN Sheets = 1..Len(Sheets)
  /\ Head(Sheets) = Sheets[1] /\ Head(Sheets) \in ToSet(Sheets)
  /\ nsheets \in 0..Len(Sheets) => Made \subseteq ToSet(Sheets)
<1>1. Sheets \in Seq(ToSet(Sheets)) /\ Sheets /= <<>>
  BY RecalcAssumption
<1>2. Len(Sheets) \in Nat /\ Len(Sheets) > 0 /\ DOMAIN Sheets = 1..Len(Sheets)
  BY <1>1
<1>3. Head(Sheets) = Sheets[1] /\ 1 \in DOMAIN Sheets
  BY <1>1, <1>2
<1>4. ASSUME nsheets \in 0..Len(Sheets) PROVE Made \subseteq ToSet(Sheets)
  BY <1>2, <1>4 DEF Made, ToSet
<1>. QED BY <1>2, <1>3, <1>4 DEF ToSet

(* Where a cell is looked up, the current sheet is one of the document. *)
LEMMA SheetedFacts ==
  ASSUME Sheeted
  PROVE  /\ Made \subseteq ToSet(Sheets) /\ NULL \notin Made
         /\ cur_sh /= NULL => nsheets /= 0 /\ cur_sh \in ToSet(Sheets)
         /\ nsheets /= 0 => Head(Sheets) \in Made /\ cur_sh /= NULL
<1>1. Made \subseteq ToSet(Sheets) /\ nsheets \in 0..Len(Sheets)
  BY SheetsFacts DEF Sheeted
<1>2. nsheets = 0 => Made = {}
  BY DEF Made
<1>3. ASSUME nsheets /= 0 PROVE Head(Sheets) \in Made
  <2>1. 1 \in 1..nsheets
    BY <1>1, <1>3, SheetsFacts
  <2>. QED BY <2>1, SheetsFacts DEF Made
<1>4. ASSUME nsheets /= 0 PROVE cur_sh /= NULL
  BY <1>4 DEF Sheeted
<1>. QED BY <1>1, <1>2, <1>3, <1>4, RecalcAssumption DEF Sheeted

LEMMA InitInv == Init => IInv
<1>. SUFFICES ASSUME Init PROVE IInv
  OBVIOUS
<1>1. /\ cells = <<>> /\ cache = <<>> /\ quiet = 0 /\ nsheets = 0 /\ cur_sh = NULL
      /\ crashed = FALSE /\ late = FALSE
  BY DEF Init
<1>2. cache \in Seq(DOMAIN cells) /\ IsInjective(cache)
  BY <1>1 DEF IsInjective
<1>3. Sound(cells, Settled(cells, cache, quiet), ToSet(cache))
  BY <1>1, <1>2, NoneSettled
<1>4. Sheeted
  <2>1. 0 \in 0..Len(Sheets) /\ DOMAIN <<>> = {}
    BY SheetsFacts
  <2>. QED BY <1>1, <2>1 DEF Sheeted
<1>5. CacheIsCurrent
  BY <1>1 DEF CacheIsCurrent
<1>. QED BY <1>1, <1>2, <1>3, <1>4, <1>5, EmptyShaped DEF IInv

(* A change of one cell to a good one. *)
Edited(cs, a, e) == [cs EXCEPT ![a] = e]

LEMMA EditedShaped ==
  ASSUME NEW cs, Shaped(cs), NEW a \in DOMAIN cs, NEW e, GoodEnt(e, DOMAIN cs)
  PROVE  Shaped(Edited(cs, a, e)) /\ DOMAIN Edited(cs, a, e) = DOMAIN cs
<1>. DEFINE d == Edited(cs, a, e)
<1>1. /\ DOMAIN d = DOMAIN cs /\ d = [b \in DOMAIN d |-> d[b]]
      /\ d[a] = e /\ \A b \in DOMAIN cs \ {a} : d[b] = cs[b]
  BY DEF Edited, Shaped
<1>. HIDE DEF d
<1>. QED BY <1>1 DEF Shaped, d

LEMMA lookatFacts ==
  ASSUME NEW cs, Shaped(cs), NEW a, IsAddress(a)
  PROVE  /\ Shaped(lookat(cs, a)) /\ a \in DOMAIN lookat(cs, a)
         /\ DOMAIN cs \subseteq DOMAIN lookat(cs, a)
         /\ \A b \in DOMAIN cs : lookat(cs, a)[b] = cs[b]
         /\ Follows(cs, lookat(cs, a), {})
<1>1. IsFiniteSet({a}) /\ \A b \in {a} : IsAddress(b)
  BY FS_Singleton
<1>2. Shaped(Touched(cs, {a})) /\ Follows(cs, Touched(cs, {a}), {}) /\ DOMAIN Touched(cs, {a}) = DOMAIN cs \cup {a}
  BY <1>1, TouchedShaped
<1>. QED BY <1>2 DEF lookat, Follows

LEMMA SetNumKeeps ==
  ASSUME IInv, NEW p \in Inputs, NEW v \in Numbers, SetNum(p, v)
  PROVE  IInv'
<1>. DEFINE a == <<cur_sh, p[1], p[2]>>
            made == lookat(cells, a)
            e == WithNumber(made[a], v)
<1>0. cur_sh /= NULL /\ nsheets /= 0 /\ cur_sh \in ToSet(Sheets)
  BY SheetedFacts DEF SetNum, IInv
<1>1. IsAddress(a)
  BY <1>0, RecalcAssumption DEF IsAddress
<1>2. /\ Shaped(made) /\ a \in DOMAIN made /\ DOMAIN cells \subseteq DOMAIN made
      /\ Follows(cells, made, {})
  <2>1. Shaped(cells)
    BY DEF IInv
  <2>. HIDE DEF a
  <2>. QED BY <1>1, <2>1, lookatFacts
<1>3. /\ cells' = Edited(made, a, e)
      /\ quiet' = 0 /\ cache' = cache /\ crashed' = crashed /\ late' = late
      /\ nsheets' = nsheets /\ cur_sh' = cur_sh /\ chosen' = chosen
  BY DEF SetNum, Edited
<1>. HIDE DEF made, a
<1>4. GoodEnt(made[a], DOMAIN made)
  BY <1>2 DEF Shaped
<1>5. GoodEnt(e, DOMAIN made) /\ e.exp = made[a].exp /\ e.flag = made[a].flag \cup {"VAL"}
  BY <1>4 DEF GoodEnt, Flags, WithNumber
<1>. HIDE DEF e
<1>6. Shaped(cells') /\ DOMAIN cells' = DOMAIN made /\ DOMAIN cells \subseteq DOMAIN cells'
  BY <1>2, <1>3, <1>5, EditedShaped
<1>7. cache' \in Seq(DOMAIN cells') /\ IsInjective(cache')
  BY <1>3, <1>6 DEF IInv
<1>8. Sound(cells', Settled(cells', cache', 0), ToSet(cache'))
  BY <1>7, NoneSettled
<1>9. Evaluable(cells') = Evaluable(cells)
  <2>1. /\ cells'[a] = e
        /\ \A b \in DOMAIN made \ {a} : cells'[b] = made[b]
    BY <1>2, <1>3 DEF Edited
  <2>2. Evaluable(cells') = Evaluable(made)
    BY <1>5, <1>6, <2>1 DEF Evaluable
  <2>3. Evaluable(made) = Evaluable(cells)
    BY <1>2 DEF Follows, Evaluable, BlankEnt
  <2>. QED BY <2>2, <2>3
<1>10. CacheIsCurrent' /\ (late' => cache' /= <<>>)
  BY <1>3, <1>9 DEF IInv, CacheIsCurrent
<1>11. Sheeted'
  BY <1>0, <1>3 DEF IInv, Sheeted, Made
<1>. QED BY <1>3, <1>6, <1>7, <1>8, <1>10, <1>11 DEF IInv

(* Making or selecting a sheet. *)
LEMMA ChoosingKeeps ==
  ASSUME IInv, NEW sh \in ToSet(Sheets), NewSheet(sh) \/ Select(sh)
  PROVE  IInv'
<1>1. /\ UNCHANGED <<cells, cache, crashed, quiet, late>>
      /\ cur_sh' = sh /\ chosen' /= "none"
  BY DEF NewSheet, Select
<1>2. nsheets' \in 0..Len(Sheets) /\ sh \in Made' /\ nsheets' /= 0
  <2>1. /\ Len(Sheets) \in Nat /\ nsheets \in 0..Len(Sheets) /\ (nsheets = 0 => Made = {})
        /\ DOMAIN Sheets = 1..Len(Sheets)
    BY SheetsFacts DEF IInv, Sheeted, Made
  <2>2. CASE sh \in Made /\ nsheets' = nsheets
    BY <2>1, <2>2 DEF Made
  <2>3. CASE sh \notin Made /\ sh = Sheets[nsheets + 1] /\ nsheets' = nsheets + 1
    <3>1. nsheets < Len(Sheets)
      <4>1. PICK i \in 1..Len(Sheets) : Sheets[i] = sh
        BY <2>1 DEF ToSet
      <4>2. i \notin 1..nsheets
        BY <2>3, <4>1 DEF Made
      <4>. QED BY <2>1, <4>1, <4>2
    <3>2. nsheets + 1 \in 1..nsheets'
      BY <2>1, <2>3
    <3>. QED BY <2>1, <2>3, <3>1, <3>2 DEF Made
  <2>. QED BY <2>2, <2>3 DEF NewSheet, Select
<1>3. Sheeted'
  <2>1. sh /= NULL
    BY RecalcAssumption
  <2>. QED BY <1>1, <1>2, <2>1 DEF Sheeted
<1>4. CacheIsCurrent' /\ (late' => cache' /= <<>>)
  BY <1>1 DEF IInv, CacheIsCurrent
<1>. QED BY <1>1, <1>3, <1>4 DEF IInv

LEMMA TextFacts ==
  ASSUME NEW text \in Texts
  PROVE  \/ text.type = "number" /\ text.val \in Numbers
         \/ /\ text.type \in {"ref", "refused"} /\ text.sheet \in ToSet(Sheets) \cup {NULL}
            /\ text.row \in Nat /\ text.col \in Nat
         \/ IsRange(text)
BY DEF Texts, IsRange

LEMMA TargetAddress ==
  ASSUME NEW a, IsAddress(a), NEW text \in Texts, text.type \in {"ref", "refused"}
  PROVE  IsAddress(Target(text, a[1]))
<1>1. text.sheet \in ToSet(Sheets) \cup {NULL} /\ text.row \in Nat /\ text.col \in Nat
  BY TextFacts DEF IsRange
<1>. QED BY <1>1 DEF IsAddress, Target

LEMMA LoadedShaped ==
  ASSUME NEW cs, Shaped(cs), NEW a \in DOMAIN cs, NEW text \in Texts
  PROVE  Shaped(Loaded(cs, a, text)) /\ DOMAIN cs \subseteq DOMAIN Loaded(cs, a, text)
<1>1. IsAddress(a) /\ GoodEnt(cs[a], DOMAIN cs) /\ cs = [b \in DOMAIN cs |-> cs[b]]
  BY DEF Shaped
<1>2. CASE text.type = "number"
  <2>. DEFINE e == [val |-> text.val, flag |-> cs[a].flag, exp |-> NULL]
  <2>1. text.val \in Numbers
    BY <1>2, TextFacts DEF IsRange
  <2>2. GoodEnt(e, DOMAIN cs)
    BY <1>1, <2>1 DEF GoodEnt
  <2>3. Loaded(cs, a, text) = [cs EXCEPT ![a].val = text.val, ![a].exp = NULL]
    BY <1>2 DEF Loaded
  <2>4. [[cs[a] EXCEPT !.val = text.val] EXCEPT !.exp = NULL] = e
    <3>. DEFINE r == [val |-> text.val, flag |-> cs[a].flag, exp |-> cs[a].exp]
    <3>1. [cs[a] EXCEPT !.val = text.val] = r
      BY <1>1 DEF GoodEnt
    <3>2. [r EXCEPT !.exp = NULL] = e
      OBVIOUS
    <3>. HIDE DEF r, e
    <3>. QED BY <3>1, <3>2
  <2>5. Loaded(cs, a, text) = Edited(cs, a, e)
    BY <1>1, <2>3, <2>4 DEF Edited
  <2>. HIDE DEF e
  <2>. QED BY <2>2, <2>5, EditedShaped
<1>3. CASE text.type = "ref"
  <2>. DEFINE t == Target(text, a[1])
              made == lookat(cs, t)
              e == [val |-> made[a].val, flag |-> made[a].flag, exp |-> [type |-> "eENT", at |-> t]]
  <2>1. IsAddress(t)
    BY <1>1, <1>3, TargetAddress
  <2>2. Loaded(cs, a, text) = [made EXCEPT ![a].exp = [type |-> "eENT", at |-> t]]
    BY <1>3 DEF Loaded, Bound
  <2>. HIDE DEF t
  <2>3. Shaped(made) /\ t \in DOMAIN made /\ DOMAIN cs \subseteq DOMAIN made
    BY <2>1, lookatFacts
  <2>. HIDE DEF made
  <2>4. GoodEnt(made[a], DOMAIN made) /\ made = [b \in DOMAIN made |-> made[b]] /\ a \in DOMAIN made
    BY <2>3 DEF Shaped
  <2>5. GoodEnt(e, DOMAIN made)
    BY <2>3, <2>4 DEF GoodEnt, IsRef
  <2>6. [made[a] EXCEPT !.exp = [type |-> "eENT", at |-> t]] = e
    BY <2>4 DEF GoodEnt
  <2>7. Loaded(cs, a, text) = Edited(made, a, e)
    BY <2>2, <2>4, <2>6 DEF Edited
  <2>. HIDE DEF e
  <2>. QED BY <2>3, <2>4, <2>5, <2>7, EditedShaped
<1>4. CASE text.type = "refused"
  <2>. DEFINE t == Target(text, a[1])
              made == lookat(cs, t)
              e == [val |-> made[a].val, flag |-> made[a].flag, exp |-> NULL]
  <2>1. IsAddress(t)
    BY <1>1, <1>4, TargetAddress
  <2>2. Loaded(cs, a, text) = [made EXCEPT ![a].exp = NULL]
    BY <1>4 DEF Loaded
  <2>. HIDE DEF t
  <2>3. Shaped(made) /\ t \in DOMAIN made /\ DOMAIN cs \subseteq DOMAIN made
    BY <2>1, lookatFacts
  <2>. HIDE DEF made
  <2>4. GoodEnt(made[a], DOMAIN made) /\ made = [b \in DOMAIN made |-> made[b]] /\ a \in DOMAIN made
    BY <2>3 DEF Shaped
  <2>5. GoodEnt(e, DOMAIN made)
    BY <2>4 DEF GoodEnt
  <2>6. [made[a] EXCEPT !.exp = NULL] = e
    BY <2>4 DEF GoodEnt
  <2>7. Loaded(cs, a, text) = Edited(made, a, e)
    BY <2>2, <2>4, <2>6 DEF Edited
  <2>. HIDE DEF e
  <2>. QED BY <2>3, <2>4, <2>5, <2>7, EditedShaped
<1>5. CASE text.type \notin {"number", "ref", "refused"}
  <2>. DEFINE e == [val |-> cs[a].val, flag |-> cs[a].flag, exp |-> text]
  <2>1. IsRange(text)
    BY <1>5, TextFacts
  <2>2. GoodEnt(e, DOMAIN cs)
    BY <1>1, <2>1 DEF GoodEnt
  <2>3. Loaded(cs, a, text) = [cs EXCEPT ![a].exp = text]
    BY <1>5 DEF Loaded
  <2>4. [cs[a] EXCEPT !.exp = text] = e
    BY <1>1 DEF GoodEnt
  <2>5. Loaded(cs, a, text) = Edited(cs, a, e)
    BY <1>1, <2>3, <2>4 DEF Edited
  <2>. HIDE DEF e
  <2>. QED BY <2>2, <2>5, EditedShaped
<1>. QED BY <1>2, <1>3, <1>4, <1>5

LEMMA LoadFormulaKeeps ==
  ASSUME IInv, NEW f \in Formulas, LoadFormula(f[1], f[2])
  PROVE  IInv'
<1>. DEFINE a == f[1]
            text == f[2]
            made == lookat(cells, a)
            flag == made[a].flag \cup {"VAL", "RP_FORMULA"}
            flagged == [made EXCEPT ![a].flag = flag]
            e == [val |-> made[a].val, flag |-> flag, exp |-> made[a].exp]
<1>1. a \in Addresses /\ text \in Texts
  BY RecalcAssumption
<1>2. IsAddress(a) /\ a[1] \in ToSet(Sheets)
  BY <1>1 DEF Addresses, IsAddress
<1>3. /\ cells' = Loaded(flagged, a, text) /\ cur_sh' = a[1] /\ quiet' = 0 /\ cache' = cache
      /\ a[1] \in Made /\ nsheets' = nsheets /\ crashed' = crashed
      /\ late' = (late \/ cache /= <<>>) /\ chosen' /= "none"
  BY DEF LoadFormula
<1>. HIDE DEF a, text
<1>4. Shaped(made) /\ a \in DOMAIN made /\ DOMAIN cells \subseteq DOMAIN made
  <2>1. Shaped(cells)
    BY DEF IInv
  <2>. QED BY <1>2, <2>1, lookatFacts
<1>. HIDE DEF made
<1>5. GoodEnt(made[a], DOMAIN made) /\ made = [b \in DOMAIN made |-> made[b]]
  BY <1>4 DEF Shaped
<1>6. GoodEnt(e, DOMAIN made)
  BY <1>5 DEF GoodEnt, Flags
<1>7. flagged = Edited(made, a, e)
  <2>. HIDE DEF flag
  <2>1. [made[a] EXCEPT !.flag = flag] = e
    BY <1>5 DEF GoodEnt
  <2>. QED BY <1>4, <1>5, <2>1 DEF Edited
<1>. HIDE DEF e, flag, flagged
<1>8. Shaped(flagged) /\ DOMAIN flagged = DOMAIN made
  BY <1>4, <1>6, <1>7, EditedShaped
<1>9. Shaped(cells') /\ DOMAIN cells \subseteq DOMAIN cells'
  <2>1. a \in DOMAIN flagged
    BY <1>4, <1>8
  <2>2. Shaped(Loaded(flagged, a, text)) /\ DOMAIN flagged \subseteq DOMAIN Loaded(flagged, a, text)
    BY <1>1, <1>8, <2>1, LoadedShaped
  <2>. QED BY <1>3, <1>4, <1>8, <2>2
<1>10. cache' \in Seq(DOMAIN cells') /\ IsInjective(cache')
  BY <1>3, <1>9 DEF IInv
<1>11. Sound(cells', Settled(cells', cache', 0), ToSet(cache'))
  BY <1>10, NoneSettled
<1>12. Sheeted'
  <2>1. a[1] /= NULL /\ nsheets /= 0
    BY <1>3, SheetedFacts DEF IInv, Made
  <2>. QED BY <1>3, <2>1 DEF IInv, Sheeted, Made
<1>13. CacheIsCurrent' /\ (late' => cache' /= <<>>)
  <2>1. (late' <=> late \/ cache /= <<>>) /\ quiet' = 0 /\ cache' = cache
    BY <1>3
  <2>2. crashed' <=> crashed
    BY <1>3
  <2>3. ~late => ~crashed
    BY DEF IInv, CacheIsCurrent
  <2>4. late => cache /= <<>>
    BY DEF IInv
  <2>5. ~(quiet' > 0)
    BY <2>1
  <2>. QED BY <2>1, <2>2, <2>3, <2>4, <2>5 DEF CacheIsCurrent
<1>. QED BY <1>3, <1>9, <1>10, <1>11, <1>12, <1>13 DEF IInv

(* recalc is one pass: over the formulas the scan finds, or those cached. *)
IsRecalcOf(order, cur) ==
  /\ AreFormulas(order, cells) /\ AreSheets(cur, order) /\ IsInjective(order)
  /\ cells' = EvaluatedInTurn(cells, order, cur)
  /\ cache' = order
  /\ cache = <<>> => ToSet(order) = Evaluable(cells)
  /\ cache /= <<>> => order = cache /\ cur = [a \in DOMAIN cells |-> cur_sh]

LEMMA RecalcIsAPass ==
  ASSUME IInv, Recalc
  PROVE  \E order, cur : IsRecalcOf(order, cur)
<1>1. Shaped(cells) /\ cache \in Seq(DOMAIN cells) /\ IsInjective(cache)
  BY DEF IInv
<1>2. CASE RecalcFromScan
  <2>. DEFINE order == Scan(cells)
              cur == [a \in DOMAIN cells |-> a[1]]
  <2>1. AreFormulas(order, cells) /\ IsInjective(order) /\ ToSet(order) = Evaluable(cells)
    BY <1>1, ScanFacts
  <2>2. AreSheets(cur, order)
    <3>1. \A a \in DOMAIN cells : a[1] \in ToSet(Sheets)
      BY <1>1 DEF Shaped, IsAddress
    <3>2. ToSet(order) \subseteq DOMAIN cells
      BY <2>1 DEF Evaluable
    <3>. QED BY <3>1, <3>2 DEF AreSheets
  <2>3. cells' = EvaluatedInTurn(cells, order, cur) /\ cache' = order /\ cache = <<>>
    BY <1>2 DEF RecalcFromScan, EvaluatedByScan
  <2>. HIDE DEF order, cur
  <2>. QED BY <2>1, <2>2, <2>3 DEF IsRecalcOf
<1>3. CASE RecalcFromCache
  <2>. DEFINE cur == [a \in DOMAIN cells |-> cur_sh]
  <2>1. AreFormulas(cache, cells)
    BY <1>1, <1>3 DEF RecalcFromCache, AreFormulas
  <2>2. AreSheets(cur, cache)
    <3>1. ToSet(cache) \subseteq DOMAIN cells
      BY <1>1, ElementsOf
    <3>2. DOMAIN cells /= {}
      BY <1>1, <1>3 DEF RecalcFromCache
    <3>3. cur_sh \in ToSet(Sheets)
      BY <3>2, SheetedFacts DEF IInv, Sheeted
    <3>. QED BY <3>1, <3>3 DEF AreSheets
  <2>3. cells' = EvaluatedInTurn(cells, cache, cur) /\ cache' = cache /\ cache /= <<>>
    BY <1>3 DEF RecalcFromCache, EvaluatedByCache
  <2>4. cur = [a \in DOMAIN cells |-> cur_sh]
    OBVIOUS
  <2>. HIDE DEF cur
  <2>. QED BY <1>1, <2>1, <2>2, <2>3, <2>4 DEF IsRecalcOf
<1>. QED BY <1>2, <1>3 DEF Recalc

LEMMA EmptyPass ==
  ASSUME NEW cs, NEW cur
  PROVE  EvaluatedInTurn(cs, <<>>, cur) = cs
<1>1. Len(<<>>) = 0 /\ 0 \in 0..0
  OBVIOUS
<1>2. PICK g : IsPass(g, cs, <<>>, cur) /\ EvaluatedInTurn(cs, <<>>, cur) = g[Len(<<>>)]
  BY <1>1, PassExists
<1>3. g[0] = cs
  BY <1>1, <1>2 DEF IsPass
<1>. QED BY <1>1, <1>2, <1>3

LEMMA RecalcKeeps == ASSUME IInv, Recalc PROVE IInv'
<1>0. /\ Shaped(cells) /\ quiet \in Nat
      /\ cache \in Seq(DOMAIN cells)
      /\ Sheeted /\ CacheIsCurrent /\ (late => cache /= <<>>)
      /\ Sound(cells, Settled(cells, cache, quiet), ToSet(cache))
  BY DEF IInv
<1>1. PICK order, cur : IsRecalcOf(order, cur)
  BY RecalcIsAPass
<1>2. /\ AreFormulas(order, cells) /\ AreSheets(cur, order) /\ IsInjective(order)
      /\ cells' = EvaluatedInTurn(cells, order, cur) /\ cache' = order
  BY <1>1 DEF IsRecalcOf
<1>3. Shaped(cells') /\ Follows(cells, cells', ToSet(order))
  BY <1>0, <1>2, PassResult
<1>4. order \in Seq(DOMAIN cells) /\ order \in Seq(DOMAIN cells')
  BY <1>2, <1>3 DEF AreFormulas, Follows
<1>5. CacheIsCurrent' /\ (late' => cache' /= <<>>)
  <2>1. Evaluable(cells') = Evaluable(cells)
    BY <1>3 DEF Follows, Evaluable, BlankEnt
  <2>2. ~late => ToSet(order) = Evaluable(cells)
    BY <1>0, <1>1 DEF IsRecalcOf, CacheIsCurrent
  <2>3. late => order = cache
    BY <1>0, <1>1 DEF IsRecalcOf
  <2>4. late' = late /\ crashed' = crashed
    BY DEF Recalc, RecalcReturns
  <2>. QED BY <1>0, <1>2, <2>1, <2>2, <2>3, <2>4 DEF CacheIsCurrent
<1>6. Sound(cells, Settled(cells, order, quiet), ToSet(order))
  <2>1. CASE cache /= <<>>
    BY <1>0, <1>1, <2>1 DEF IsRecalcOf
  <2>2. CASE quiet = 0
    BY <1>4, <2>2, NoneSettled
  <2>3. CASE cache = <<>> /\ quiet > 0
    <3>1. ToSet(cache) = {}
      BY <2>3 DEF ToSet
    <3>2. ToSet(order) = {}
      BY <1>0, <1>1, <2>3, <3>1 DEF IsRecalcOf, CacheIsCurrent
    <3>. QED BY <3>2 DEF Sound
  <2>. QED BY <1>0, <2>1, <2>2, <2>3
<1>7. /\ Sound(cells', Settled(cells', order, quiet), ToSet(order))
      /\ Sound(cells', Settled(cells', order, quiet+1), ToSet(order))
  BY <1>0, <1>2, <1>6, SettlesOn
<1>8. quiet' \in {quiet, quiet+1} /\ quiet' \in Nat
  BY <1>0 DEF Recalc, RecalcReturns
<1>9. Sound(cells', Settled(cells', cache', quiet'), ToSet(cache'))
  BY <1>2, <1>7, <1>8
<1>10. Sheeted'
  <2>1. nsheets' = nsheets /\ Made' = Made /\ cur_sh' = first_sh
    BY DEF Recalc, RecalcReturns, Made, cur_shAfter
  <2>2. ASSUME nsheets = 0 PROVE DOMAIN cells' = {} /\ cache' = <<>>
    <3>1. DOMAIN cells = {}
      BY <1>0, <2>2 DEF Sheeted
    <3>2. order = <<>>
      BY <1>4, <3>1
    <3>3. cells' = cells
      BY <1>2, <3>2, EmptyPass
    <3>. QED BY <1>2, <3>1, <3>2, <3>3
  <2>3. cur_sh' = IF nsheets = 0 THEN NULL ELSE Head(Sheets)
    BY <2>1 DEF first_sh
  <2>. QED BY <1>0, <2>1, <2>2, <2>3, SheetedFacts DEF Sheeted
<1>. QED BY <1>2, <1>3, <1>4, <1>5, <1>8, <1>9, <1>10 DEF IInv

(* A cached formula has its expression, unless one came late. *)
LEMMA CrashKeeps == ASSUME IInv, RecalcCrashes PROVE IInv'
<1>1. PICK a \in ToSet(cache) : cells[a].exp = NULL
  BY DEF RecalcCrashes
<1>2. cache /= <<>>
  BY <1>1 DEF ToSet
<1>3. late
  BY <1>1, <1>2 DEF IInv, CacheIsCurrent, Evaluable
<1>. QED BY <1>2, <1>3 DEF RecalcCrashes, IInv, CacheIsCurrent, Sheeted, Made

(* The invariant holds throughout. *)
THEOREM Invariance == Spec => []IInv
<1>1. Init => IInv
  BY InitInv
<1>2. IInv /\ [Next]_vars => IInv'
  <2>. SUFFICES ASSUME IInv, [Next]_vars PROVE IInv'
    OBVIOUS
  <2>1. ASSUME NEW sh \in ToSet(Sheets), NewSheet(sh) \/ Select(sh) PROVE IInv'
    BY <2>1, ChoosingKeeps
  <2>2. ASSUME NEW p \in Inputs, NEW v \in Numbers, SetNum(p, v) PROVE IInv'
    BY <2>2, SetNumKeeps
  <2>3. ASSUME NEW f \in Formulas, LoadFormula(f[1], f[2]) PROVE IInv'
    BY <2>3, LoadFormulaKeeps
  <2>4. ASSUME Recalc PROVE IInv'
    BY <2>4, RecalcKeeps
  <2>5. ASSUME RecalcCrashes PROVE IInv'
    BY <2>5, CrashKeeps
  <2>6. ASSUME UNCHANGED vars PROVE IInv'
    BY <2>6 DEF vars, doc, IInv, CacheIsCurrent, Sheeted, Made
  <2>. QED BY <2>1, <2>2, <2>3, <2>4, <2>5, <2>6 DEF Next, OtherCall
<1>. QED BY <1>1, <1>2, PTL DEF Spec

(* Every pointer in the cache and in an expression points at a cell of the
   document, every formula is cached once: whatever is loaded, set, selected
   and evaluated in whatever order. *)
THEOREM TypeCorrect == Spec => []TypeOK
<1>1. IInv => TypeOK
  <2>. SUFFICES ASSUME IInv PROVE TypeOK
    OBVIOUS
  <2>1. ToSet(cache) \subseteq DOMAIN cells
    BY ElementsOf DEF IInv
  <2>2. ASSUME NEW a \in DOMAIN cells
        PROVE  /\ cells[a].val \in Numbers /\ cells[a].flag \subseteq Flags
               /\ cells[a].exp /= NULL /\ cells[a].exp.type = "eENT"
                    => cells[a].exp.at \in DOMAIN cells
    BY DEF IInv, Shaped, GoodEnt, IsRange
  <2>. QED BY <2>1, <2>2 DEF IInv, Sheeted, TypeOK, Flags
<1>. QED BY <1>1, Invariance, PTL

(* recalc has no order of dependence and needs none: repeated n times with
   nothing changed in between, it has given their final values to all formulas
   whose chains of references run against the scan at most n-1 times. *)
THEOREM Settles == Spec => []SettlesInTime
<1>1. IInv => SettlesInTime
  BY DEF IInv, Sound, SettlesInTime
<1>. QED BY <1>1, Invariance, PTL

(* A program that loads its templates before it first finds something to
   calculate never has a formula left out by recalc, nor one that stops it. *)
THEOREM CacheStaysCurrent == Spec => []CacheIsCurrent
<1>1. IInv => CacheIsCurrent
  BY DEF IInv
<1>. QED BY <1>1, Invariance, PTL

(* recalc writes no cell but the formulas it evaluates, and the cells it
   creates are blank. *)
THEOREM OthersKept == Spec => OnlyFormulasChange
<1>. DEFINE evaluated == IF cache = <<>> THEN Evaluable(cells) ELSE ToSet(cache)
            Kept == \A a \in DOMAIN cells' \ evaluated :
                      cells'[a] = IF a \in DOMAIN cells THEN cells[a] ELSE BlankEnt
<1>1. ASSUME IInv, Recalc PROVE Kept
  <2>1. PICK order, cur : IsRecalcOf(order, cur)
    BY <1>1, RecalcIsAPass
  <2>2. Follows(cells, cells', ToSet(order)) /\ ToSet(order) = evaluated
    BY <1>1, <2>1, PassResult DEF IsRecalcOf, IInv
  <2>. QED BY <2>2 DEF Follows
<1>2. ASSUME RecalcCrashes PROVE Kept
  BY <1>2 DEF RecalcCrashes
<1>3. IInv /\ [Next]_vars => [Kept \/ OtherCall]_vars
  <2>. HIDE DEF Kept
  <2>. QED BY <1>1, <1>2 DEF Next
<1>. QED BY <1>3, Invariance, PTL DEF Spec, OnlyFormulasChange

(* Where the formulas of a range come before it, a range function ends the pass
   with the total of what its cells then hold. *)
LEMMA RangeShowsTotal ==
  ASSUME NEW cs, Shaped(cs), NEW order, AreFormulas(order, cs), IsInjective(order),
         NEW cur, AreSheets(cur, order), NEW n \in 1..Len(order),
         IsRange(cs[order[n]].exp),
         \A m \in n..Len(order) :
           order[m] \notin RangeCells(cs[order[n]].exp, cur[order[n]])
  PROVE  LET c == EvaluatedInTurn(cs, order, cur)
         IN  c[order[n]].val = Total(c, RangeCells(cs[order[n]].exp, cur[order[n]])) % Modulus
<1>. DEFINE a == order[n]
            e == cs[a].exp
            sh == cur[a]
            area == RangeCells(e, sh)
            rest(k) == {order[i] : i \in k+1..Len(order)}
<1>1. /\ Len(order) \in Nat /\ order \in Seq(DOMAIN cs) /\ DOMAIN order = 1..Len(order)
      /\ n - 1 \in 0..Len(order)-1 /\ n - 1 \in 0..Len(order) /\ n \in 0..Len(order)
      /\ (n - 1) + 1 = n /\ a \in ToSet(order) /\ a \in DOMAIN cs
  BY DEF AreFormulas, ToSet
<1>2. PICK g : IsPass(g, cs, order, cur) /\ EvaluatedInTurn(cs, order, cur) = g[Len(order)]
  BY <1>1, PassExists
<1>. DEFINE b == g[n-1]
            c == g[n]
            d == g[Len(order)]
<1>3. Shaped(b) /\ Follows(cs, b, ToSet(order)) /\ Shaped(c) /\ Follows(cs, c, ToSet(order))
  BY <1>1, <1>2, PassKeeps
<1>4. c = Evaluated(b, sh, a)
  <2>1. Len(order) \in Nat /\ IsPass(g, cs, order, cur)
    BY <1>1, <1>2
  <2>. HIDE DEF e, area, rest, d
  <2>. QED BY <2>1, PassStage DEF a, b, c, sh
<1>5. Follows(b, d, rest(n-1)) /\ Follows(c, d, rest(n))
  BY <1>1, <1>2, PassRest
<1>6. area \cap rest(n-1) = {} /\ a \notin rest(n)
  BY <1>1 DEF IsInjective
<1>7. b[a].exp = e /\ a \in DOMAIN b /\ a \in DOMAIN c /\ IsRange(e) /\ sh \in ToSet(Sheets)
  BY <1>1, <1>3 DEF Follows, AreSheets
<1>. HIDE DEF a, e, sh, area, rest, b, c, d
<1>8. c[a].val = Total(b, area) % Modulus
  <2>1. b[a].exp /= NULL
    BY <1>1, <1>3, <1>7 DEF AreFormulas, e
  <2>. QED BY <1>3, <1>4, <1>7, <2>1, EvaluatedFacts DEF area
<1>9. d[a] = c[a]
  BY <1>5, <1>6, <1>7 DEF Follows
<1>10. Total(d, area) = Total(b, area)
  BY <1>5, <1>6, TotalKept
<1>. QED BY <1>2, <1>8, <1>9, <1>10 DEF a, e, sh, area, d

(* A range function shows what the first sheet holds after each recalc from
   the second on, if the program leaves the current sheet where recalc left
   it, although the first recalc evaluated it with its own sheet current. *)
THEOREM RangesOfFirstSheet == Spec => RangesReadFirstSheet
<1>. DEFINE Shows(n) ==
       LET a == cache[n]
           area == RangeCells(cells[a].exp, Head(Sheets))
       IN cells[a].exp.type = "f" /\ (\A m \in n..Len(cache) : cache[m] \notin area)
            => cells'[a].val = Total(cells', area) % Modulus
<1>1. IInv /\ [Next]_vars
        => [Recalc /\ cache /= <<>> /\ chosen = "none" => \A n \in DOMAIN cache : Shows(n)]_vars
  <2>. SUFFICES ASSUME IInv, Recalc, cache /= <<>>, chosen = "none", NEW n \in DOMAIN cache
                PROVE  Shows(n)
    OBVIOUS
  <2>. DEFINE a == cache[n]
              area == RangeCells(cells[a].exp, Head(Sheets))
              cur == [b \in DOMAIN cells |-> cur_sh]
  <2>1. IsRecalcOf(cache, cur)
    BY RecalcIsAPass DEF IsRecalcOf
  <2>2. cur_sh = Head(Sheets)
    BY DEF IInv, Sheeted
  <2>3. /\ Shaped(cells) /\ n \in 1..Len(cache) /\ a \in DOMAIN cells /\ cur[a] = Head(Sheets)
    BY <2>2 DEF IInv
  <2>. HIDE DEF cur
  <2>4. /\ AreFormulas(cache, cells) /\ IsInjective(cache) /\ AreSheets(cur, cache)
        /\ cells' = EvaluatedInTurn(cells, cache, cur)
    BY <2>1 DEF IsRecalcOf
  <2>5. SUFFICES ASSUME cells[a].exp.type = "f", \A m \in n..Len(cache) : cache[m] \notin area
                 PROVE  cells'[a].val = Total(cells', area) % Modulus
    OBVIOUS
  <2>6. IsRange(cells[a].exp)
    <3>1. cells[a].exp /= NULL
      BY <2>3, <2>4 DEF AreFormulas, ToSet
    <3>2. GoodEnt(cells[a], DOMAIN cells)
      BY <2>3 DEF Shaped
    <3>. QED BY <2>5, <3>1, <3>2 DEF GoodEnt, IsRef
  <2>7. \A m \in n..Len(cache) : cache[m] \notin RangeCells(cells[cache[n]].exp, cur[cache[n]])
    BY <2>3, <2>5
  <2>. QED BY <2>3, <2>4, <2>6, <2>7, RangeShowsTotal
<1>. QED BY <1>1, Invariance, PTL DEF Spec, RangesReadFirstSheet
=============================================================================
