---------------------------- MODULE DocumentsProofs ----------------------------
(***************************************************************************)
(* The proofs about Documents, for any files of the form that              *)
(* DocumentsAssumption gives them.                                         *)
(*                                                                         *)
(* A document stays one that new_sheet and lookat can make (IsDoc), and    *)
(* its formulas are those of the files loaded (Backed); DocInv is both.    *)
(* What a reader may do to a document is Reading: it grows, within the     *)
(* cells of the file.  What a reader has done after k turns of a loop is a *)
(* relation of its own for each kind of file: Labels for the rows of a     *)
(* CSV file, Filled and HoldsTd for the td of a page, Became, ReadSheets   *)
(* and BookLeft for a workbook.  Each loop has a lemma that carries these  *)
(* from one turn to the next, by induction on the turns.  The last part    *)
(* takes them to what export prints.                                       *)
(***************************************************************************)
EXTENDS Documents, Lemmas

-----------------------------------------------------------------------------
(* Documents *)

IsEnt(e) ==
  /\ e = [val |-> e.val, label |-> e.label, formula |-> e.formula, exp |-> e.exp,
          flag |-> e.flag]
  /\ e.flag \subseteq {"VAL", "RP_LABEL", "RP_FORMULA"}

(* A document as new_sheet and lookat leave it. *)
IsDoc(d) ==
  /\ d = [order |-> d.order, cells |-> d.cells, max |-> d.max, cur |-> d.cur]
  /\ IsSeq(d.order)
  /\ IsInjective(d.order)
  /\ d.cells = [n \in ToSet(d.order) |-> d.cells[n]]
  /\ d.max = [n \in ToSet(d.order) |-> d.max[n]]
  /\ \A n \in ToSet(d.order) : d.max[n] \in Nat \X Nat
  /\ \A n \in ToSet(d.order) : \A p : IsEnt(Ent(d, n, p))
  /\ d.cur \in ToSet(d.order) \cup {None}

LEMMA BlankIsEnt == IsEnt(BlankEnt)
BY DEF IsEnt, BlankEnt

LEMMA EmptyIsDoc == IsDoc(Empty)
<1>1. ToSet(<<>>) = {} /\ IsInjective(<<>>) /\ IsSeq(<<>>)
  BY DEF ToSet, IsInjective, IsSeq
<1>2. Empty = [order |-> Empty.order, cells |-> Empty.cells, max |-> Empty.max, cur |-> Empty.cur]
  BY DEF Empty
<1>3. Empty.order = <<>> /\ Empty.cells = <<>> /\ Empty.max = <<>> /\ Empty.cur = None
  BY DEF Empty
<1>4. \A g : <<>> = [n \in {} |-> g[n]]
  OBVIOUS
<1>5. Empty.cells = [n \in {} |-> Empty.cells[n]] /\ Empty.max = [n \in {} |-> Empty.max[n]]
  BY <1>3, <1>4
<1>. QED BY <1>1, <1>2, <1>3, <1>5 DEF IsDoc

(* A cell written: the others, the list, the extents and the current sheet
   are what they were. *)
LEMMA ChangedEffect ==
  ASSUME NEW d, IsDoc(d), NEW n \in ToSet(d.order), NEW p, NEW ent, IsEnt(ent),
         NEW c, c = Changed(d, n, p, ent)
  PROVE  /\ IsDoc(c)
         /\ c.order = d.order /\ c.max = d.max /\ c.cur = d.cur
         /\ \A m, q : Has(c, m, q) <=> Has(d, m, q) \/ (m = n /\ q = p)
         /\ \A m \in ToSet(d.order) : \A q :
              Ent(c, m, q) = IF m = n /\ q = p THEN ent ELSE Ent(d, m, q)
<1>1. c = [order |-> d.order, cells |-> [d.cells EXCEPT ![n] = With(@, p, ent)],
           max |-> d.max, cur |-> d.cur]
  BY DEF Changed, IsDoc
<1>2. /\ c.order = d.order /\ c.max = d.max /\ c.cur = d.cur
      /\ c.cells = [d.cells EXCEPT ![n] = With(@, p, ent)]
      /\ c = [order |-> c.order, cells |-> c.cells, max |-> c.max, cur |-> c.cur]
  BY <1>1
<1>3. DOMAIN d.cells = ToSet(d.order)
  BY DEF IsDoc
<1>4. /\ c.cells = [m \in ToSet(d.order) |-> c.cells[m]]
      /\ c.cells[n] = With(d.cells[n], p, ent)
      /\ \A m \in ToSet(d.order) : m /= n => c.cells[m] = d.cells[m]
  BY <1>2, <1>3
<1>5. /\ DOMAIN c.cells[n] = DOMAIN d.cells[n] \cup {p}
      /\ \A q \in DOMAIN c.cells[n] : c.cells[n][q] = IF q = p THEN ent ELSE d.cells[n][q]
  BY <1>4 DEF With
<1>6. \A m, q : Has(c, m, q) <=> Has(d, m, q) \/ (m = n /\ q = p)
  BY <1>3, <1>4, <1>5 DEF Has
<1>7. \A m \in ToSet(d.order) : \A q :
        Ent(c, m, q) = IF m = n /\ q = p THEN ent ELSE Ent(d, m, q)
  BY <1>3, <1>4, <1>5 DEF Ent
<1>8. IsDoc(c)
  <2>1. \A m \in ToSet(c.order) : \A q : IsEnt(Ent(c, m, q))
    BY <1>2, <1>7 DEF IsDoc
  <2>. QED BY <1>2, <1>4, <2>1 DEF IsDoc
<1>. QED BY <1>2, <1>6, <1>7, <1>8
LEMMA LookatEffect ==
  ASSUME NEW d, IsDoc(d), NEW n \in ToSet(d.order), NEW p, NEW c, c = lookat(d, n, p)
  PROVE  /\ IsDoc(c)
         /\ c.order = d.order /\ c.max = d.max /\ c.cur = d.cur
         /\ \A m, q : Has(c, m, q) <=> Has(d, m, q) \/ (m = n /\ q = p)
         /\ \A m \in ToSet(d.order) : \A q : Ent(c, m, q) = Ent(d, m, q)
<1>1. IsEnt(Ent(d, n, p))
  BY DEF IsDoc
<1>2. c = Changed(d, n, p, Ent(d, n, p))
  BY DEF lookat
<1>. QED BY <1>1, <1>2, ChangedEffect

(* A reader's store also moves the extents, never back. *)
LEMMA StoredEffect ==
  ASSUME NEW d, IsDoc(d), d.cur \in ToSet(d.order), NEW p \in Nat \X Nat, NEW ent, IsEnt(ent),
         NEW c, c = Stored(d, p, ent)
  PROVE  /\ IsDoc(c)
         /\ c.order = d.order /\ c.cur = d.cur
         /\ \A m, q : Has(c, m, q) <=> Has(d, m, q) \/ (m = d.cur /\ q = p)
         /\ \A m \in ToSet(d.order) : \A q :
              Ent(c, m, q) = IF m = d.cur /\ q = p THEN ent ELSE Ent(d, m, q)
         /\ \A m \in ToSet(d.order) : \A k \in 1..2 : d.max[m][k] <= c.max[m][k]
         /\ \A k \in 1..2 : p[k] <= c.max[d.cur][k]
<1>. DEFINE b == Changed(d, d.cur, p, ent)
            m1 == <<Larger(b.max[d.cur][1], p[1]), Larger(b.max[d.cur][2], p[2])>>
<1>1. d.cur \in ToSet(d.order)
  BY DEF IsDoc
<1>. HIDE DEF b, m1
<1>2. /\ IsDoc(b)
      /\ b.order = d.order /\ b.max = d.max /\ b.cur = d.cur
      /\ \A m, q : Has(b, m, q) <=> Has(d, m, q) \/ (m = d.cur /\ q = p)
      /\ \A m \in ToSet(d.order) : \A q :
           Ent(b, m, q) = IF m = d.cur /\ q = p THEN ent ELSE Ent(d, m, q)
  <2>1. b = Changed(d, d.cur, p, ent)
    BY DEF b
  <2>. QED BY <1>1, <2>1, ChangedEffect
<1>3. c = [b EXCEPT !.max[d.cur] = m1]
  BY DEF Stored, b, m1
<1>4. c = [order |-> b.order, cells |-> b.cells, max |-> [b.max EXCEPT ![d.cur] = m1],
           cur |-> b.cur]
  BY <1>2, <1>3 DEF IsDoc
<1>5. /\ c.order = b.order /\ c.cells = b.cells /\ c.cur = b.cur
      /\ c.max = [b.max EXCEPT ![d.cur] = m1]
      /\ c = [order |-> c.order, cells |-> c.cells, max |-> c.max, cur |-> c.cur]
  BY <1>4
<1>6. /\ b.max = [m \in ToSet(d.order) |-> b.max[m]]
      /\ \A m \in ToSet(d.order) : b.max[m] \in Nat \X Nat
  BY <1>2 DEF IsDoc
<1>7. m1 \in Nat \X Nat /\ \A k \in 1..2 : b.max[d.cur][k] <= m1[k] /\ p[k] <= m1[k]
  BY <1>1, <1>6 DEF m1, Larger
<1>8. /\ c.max = [m \in ToSet(d.order) |-> c.max[m]]
      /\ \A m \in ToSet(d.order) : c.max[m] = IF m = d.cur THEN m1 ELSE b.max[m]
  BY <1>5, <1>6
<1>9. \A m \in ToSet(d.order) :
         c.max[m] \in Nat \X Nat /\ \A k \in 1..2 : b.max[m][k] <= c.max[m][k]
  BY <1>6, <1>7, <1>8
<1>10. /\ \A m, q : Has(c, m, q) <=> Has(b, m, q)
       /\ \A m, q : Ent(c, m, q) = Ent(b, m, q)
  BY <1>5 DEF Has, Ent
<1>11. IsDoc(c)
  <2>1. \A m \in ToSet(c.order) : \A q : IsEnt(Ent(c, m, q))
    BY <1>2, <1>5, <1>10 DEF IsDoc
  <2>. QED BY <1>2, <1>5, <1>8, <1>9, <2>1 DEF IsDoc
<1>12. /\ \A m \in ToSet(d.order) : \A k \in 1..2 : d.max[m][k] <= c.max[m][k]
       /\ \A k \in 1..2 : p[k] <= c.max[d.cur][k]
  BY <1>1, <1>2, <1>7, <1>8, <1>9
<1>. QED BY <1>2, <1>5, <1>10, <1>11, <1>12

(* new_sheet: a sheet that is not there is put last on the list, empty; in
   any case it becomes the current one. *)
LEMMA NewSheetEffect ==
  ASSUME NEW d, IsDoc(d), NEW n, NEW c, c = NewSheet(d, n)
  PROVE  /\ IsDoc(c)
         /\ c.cur = n
         /\ ToSet(c.order) = ToSet(d.order) \cup {n}
         /\ IsPrefix(d.order, c.order)
         /\ \A m, q : Has(c, m, q) <=> Has(d, m, q)
         /\ \A m \in ToSet(d.order) : c.max[m] = d.max[m] /\ \A q : Ent(c, m, q) = Ent(d, m, q)
         /\ \A m \in ToSet(c.order) \ ToSet(d.order) : \A q : Ent(c, m, q) = BlankEnt
<1>. DEFINE T == ToSet(d.order)
<1>1. DOMAIN d.cells = T /\ DOMAIN d.max = T /\ d.order \in Seq(T)
  BY DEF IsDoc, IsSeq
<1>2. CASE n \in T
  <2>1. c = [order |-> d.order, cells |-> d.cells, max |-> d.max, cur |-> n]
    BY <1>1, <1>2 DEF NewSheet, IsDoc
  <2>2. c.order = d.order /\ c.cells = d.cells /\ c.max = d.max /\ c.cur = n
    BY <2>1
  <2>3. /\ \A m, q : Has(c, m, q) <=> Has(d, m, q)
        /\ \A m, q : Ent(c, m, q) = Ent(d, m, q)
    BY <2>2 DEF Has, Ent
  <2>4. IsDoc(c)
    <3>1. c = [order |-> c.order, cells |-> c.cells, max |-> c.max, cur |-> c.cur]
      BY <2>1
    <3>2. \A m \in T : \A q : IsEnt(Ent(c, m, q))
      BY <2>3 DEF IsDoc
    <3>. QED BY <1>2, <2>2, <3>1, <3>2 DEF IsDoc
  <2>5. IsPrefix(d.order, c.order)
    <3>1. Len(d.order) \in Nat
      BY <1>1
    <3>. QED BY <2>2, <3>1, <1>1 DEF IsPrefix
  <2>. QED BY <1>2, <2>2, <2>3, <2>4, <2>5
<1>3. CASE n \notin T
  <2>1. c = [order |-> Append(d.order, n), cells |-> With(d.cells, n, <<>>),
             max |-> With(d.max, n, <<0, 0>>), cur |-> n]
    BY <1>1, <1>3 DEF NewSheet
  <2>2. /\ c.order = Append(d.order, n) /\ c.cur = n
        /\ c.cells = With(d.cells, n, <<>>) /\ c.max = With(d.max, n, <<0, 0>>)
        /\ c = [order |-> c.order, cells |-> c.cells, max |-> c.max, cur |-> c.cur]
    BY <2>1
  <2>3. /\ c.order \in Seq(T \cup {n})
        /\ Len(c.order) = Len(d.order) + 1
        /\ \A i \in 1..Len(d.order) : c.order[i] = d.order[i]
        /\ c.order[Len(d.order) + 1] = n
    BY <1>1, <2>2
  <2>4. ToSet(c.order) = T \cup {n}
    <3>1. /\ DOMAIN d.order = 1..Len(d.order) /\ Len(d.order) \in Nat
          /\ DOMAIN c.order = 1..Len(d.order) + 1
      BY <1>1, <2>3
    <3>2. DOMAIN c.order = DOMAIN d.order \cup {Len(d.order) + 1}
      BY <3>1
    <3>3. /\ \A i \in DOMAIN d.order : c.order[i] = d.order[i]
          /\ c.order[Len(d.order) + 1] = n
      BY <2>3, <3>1
    <3>. QED BY <3>2, <3>3, Zenon DEF ToSet
  <2>5. IsInjective(c.order)
    <3>1. \A i, j \in 1..Len(d.order) : d.order[i] = d.order[j] => i = j
      BY <1>1 DEF IsDoc, IsInjective
    <3>2. \A i \in 1..Len(d.order) : d.order[i] \in T
      BY <1>1
    <3>3. /\ Len(d.order) \in Nat
          /\ DOMAIN c.order = 1..Len(d.order) + 1
      BY <1>1, <2>3
    <3>4. \A i, j \in 1..Len(d.order) : c.order[i] = c.order[j] => i = j
      BY <2>3, <3>1
    <3>5. \A i \in 1..Len(d.order) : c.order[i] # c.order[Len(d.order) + 1]
      BY <1>3, <2>3, <3>2
    <3>6. \A i \in DOMAIN c.order : i \in 1..Len(d.order) \/ i = Len(d.order) + 1
      BY <3>3
    <3>. QED BY <3>4, <3>5, <3>6 DEF IsInjective
  <2>6. IsPrefix(d.order, c.order)
    BY <1>1, <2>3 DEF IsPrefix
  <2>7. /\ DOMAIN c.cells = T \cup {n} /\ DOMAIN c.max = T \cup {n}
        /\ \A m \in T : c.cells[m] = d.cells[m] /\ c.max[m] = d.max[m]
        /\ c.cells[n] = <<>> /\ c.max[n] = <<0, 0>>
        /\ c.cells = [m \in T \cup {n} |-> c.cells[m]] /\ c.max = [m \in T \cup {n} |-> c.max[m]]
    BY <1>1, <1>3, <2>2 DEF With
  <2>8. \A m, q : Has(c, m, q) <=> Has(d, m, q)
    BY <1>1, <1>3, <2>7 DEF Has
  <2>9. \A m \in T : \A q : Ent(c, m, q) = Ent(d, m, q)
    BY <2>7 DEF Ent
  <2>10. \A q : Ent(c, n, q) = BlankEnt
    BY <2>7 DEF Ent
  <2>11. IsDoc(c)
    <3>1. \A m \in T \cup {n} : \A q : IsEnt(Ent(c, m, q))
      BY <2>9, <2>10, BlankIsEnt DEF IsDoc
    <3>2. \A m \in T \cup {n} : c.max[m] \in Nat \X Nat
      <4>1. \A m \in T : d.max[m] \in Nat \X Nat
        BY DEF IsDoc
      <4>2. c.max[n] \in Nat \X Nat
        BY <2>7
      <4>. QED BY <2>7, <4>1, <4>2
    <3>3. IsSeq(c.order)
      BY <2>3, <2>4 DEF IsSeq
    <3>. QED BY <2>2, <2>4, <2>5, <2>7, <3>1, <3>2, <3>3 DEF IsDoc
  <2>. QED BY <2>2, <2>4, <2>6, <2>7, <2>8, <2>9, <2>10, <2>11
<1>. QED BY <1>2, <1>3
LEMMA PrefixTransitive ==
  ASSUME NEW s, IsSeq(s), NEW t, IsSeq(t), NEW u, IsSeq(u), IsPrefix(s, t), IsPrefix(t, u)
  PROVE  IsPrefix(s, u)
<1>. DEFINE T == ToSet(s) \cup ToSet(t) \cup ToSet(u)
<1>1. s \in Seq(T) /\ t \in Seq(T) /\ u \in Seq(T)
  BY DEF IsSeq
<1>. HIDE DEF T
<1>2. Len(s) <= Len(t) /\ Len(t) <= Len(u) /\ Len(s) \in Nat /\ Len(t) \in Nat /\ Len(u) \in Nat
  BY <1>1 DEF IsPrefix
<1>3. \A i \in 1..Len(s) : s[i] = t[i]
  <2>1. SubSeq(s, 1, Len(s)) = SubSeq(t, 1, Len(s))
    BY DEF IsPrefix
  <2>2. \A i \in 1..Len(s) : SubSeq(s, 1, Len(s))[i] = s[i] /\ SubSeq(t, 1, Len(s))[i] = t[i]
    BY <1>1, <1>2
  <2>. QED BY <2>1, <2>2
<1>4. \A i \in 1..Len(t) : t[i] = u[i]
  <2>1. SubSeq(t, 1, Len(t)) = SubSeq(u, 1, Len(t))
    BY DEF IsPrefix
  <2>2. \A i \in 1..Len(t) : SubSeq(t, 1, Len(t))[i] = t[i] /\ SubSeq(u, 1, Len(t))[i] = u[i]
    BY <1>1, <1>2
  <2>. QED BY <2>1, <2>2
<1>5. \A i \in 1..Len(s) : s[i] = u[i]
  BY <1>2, <1>3, <1>4
<1>6. SubSeq(s, 1, Len(s)) = SubSeq(u, 1, Len(s))
  <2>1. SubSeq(s, 1, Len(s)) = [i \in 1..Len(s) |-> s[i]]
    BY <1>1, <1>2
  <2>2. SubSeq(u, 1, Len(s)) = [i \in 1..Len(s) |-> u[i]]
    BY <1>1, <1>2
  <2>. QED BY <1>5, <2>1, <2>2
<1>. QED BY <1>2, <1>6 DEF IsPrefix

-----------------------------------------------------------------------------
(* What a reader may do to a document *)

(* The cell e at p of sheet n has the formula x. *)
Backs(x, n, p, e) ==
  /\ x.sheet = n /\ x.at = p /\ x.f.text = e.formula
  /\ e.exp = [k \in DOMAIN x.f.refs |-> Target(x, x.f.refs[k])]

(* The formulas of d refer to cells that are there, and are among F. *)
Backed(d, F) ==
  \A n \in ToSet(d.order) : \A p :
    Ent(d, n, p).exp /= None =>
      /\ \A r \in ToSet(Ent(d, n, p).exp) : Has(d, r.sheet, r.at)
      /\ \E x \in F : Backs(x, n, p, Ent(d, n, p))

(* From a to b nothing is lost, and the extents do not shrink. *)
Grown(a, b) ==
  /\ IsPrefix(a.order, b.order)
  /\ ToSet(a.order) \subseteq ToSet(b.order)
  /\ \A n, p : Has(a, n, p) => Has(b, n, p)
  /\ \A n \in ToSet(a.order) : \A k \in 1..2 : a.max[n][k] <= b.max[n][k]

(* From a to b the cells written are among W, and the blank ones made on the
   way among R. *)
Within(a, b, W, R) ==
  \A n, p : Has(b, n, p) =>
    \/ <<n, p>> \in W
    \/ Has(a, n, p) /\ Ent(b, n, p) = Ent(a, n, p)
    \/ ~Has(a, n, p) /\ <<n, p>> \in R /\ Ent(b, n, p) = BlankEnt

(* b is what a reader that started with a may have made of it so far. *)
Reading(a, b, W, R, F) == IsDoc(b) /\ Grown(a, b) /\ Within(a, b, W, R) /\ Backed(b, F)

LEMMA ReadingStarts ==
  ASSUME NEW a, IsDoc(a), NEW W, NEW R, NEW F, Backed(a, F)
  PROVE  Reading(a, a, W, R, F)
<1>1. IsPrefix(a.order, a.order)
  BY DEF IsPrefix, IsDoc, IsSeq
<1>2. \A n \in ToSet(a.order) : \A k \in 1..2 : a.max[n][k] <= a.max[n][k]
  BY DEF IsDoc
<1>. QED BY <1>1, <1>2 DEF Reading, Grown, Within

LEMMA HasSheet ==
  ASSUME NEW d, IsDoc(d)
  PROVE  \A n, p : Has(d, n, p) => n \in ToSet(d.order)
BY DEF Has, IsDoc

LEMMA BackedKept ==
  ASSUME NEW d, IsDoc(d), NEW F, Backed(d, F),
         NEW c, ToSet(c.order) = ToSet(d.order),
         \A n, p : Has(d, n, p) => Has(c, n, p),
         \A n \in ToSet(d.order) : \A p :
           Ent(c, n, p).exp = Ent(d, n, p).exp /\ Ent(c, n, p).formula = Ent(d, n, p).formula
  PROVE  Backed(c, F)
<1>. SUFFICES ASSUME NEW n \in ToSet(c.order), NEW p, Ent(c, n, p).exp /= None
              PROVE  /\ \A r \in ToSet(Ent(c, n, p).exp) : Has(c, r.sheet, r.at)
                     /\ \E x \in F : Backs(x, n, p, Ent(c, n, p))
  BY DEF Backed
<1>1. n \in ToSet(d.order)
  OBVIOUS
<1>2. Ent(c, n, p).exp = Ent(d, n, p).exp /\ Ent(c, n, p).formula = Ent(d, n, p).formula
  BY <1>1
<1>3. \A r \in ToSet(Ent(d, n, p).exp) : Has(d, r.sheet, r.at)
  BY <1>1, <1>2 DEF Backed
<1>4. \E x \in F : Backs(x, n, p, Ent(d, n, p))
  BY <1>1, <1>2, Zenon DEF Backed
<1>. QED BY <1>2, <1>3, <1>4 DEF Backs

LEMMA ReadingLooksUp ==
  ASSUME NEW a, NEW b, NEW W, NEW R, NEW F, Reading(a, b, W, R, F),
         NEW n \in ToSet(b.order), NEW p, <<n, p>> \in R,
         NEW c, c = lookat(b, n, p)
  PROVE  /\ Reading(a, c, W, R, F) /\ Has(c, n, p)
         /\ c.order = b.order /\ c.max = b.max /\ c.cur = b.cur
         /\ \A m, q : Has(b, m, q) => Has(c, m, q)
         /\ \A m \in ToSet(b.order) : \A q : Ent(c, m, q) = Ent(b, m, q)
<1>1. IsDoc(b) /\ Grown(a, b) /\ Within(a, b, W, R) /\ Backed(b, F)
  BY DEF Reading
<1>2. /\ IsDoc(c)
      /\ c.order = b.order /\ c.max = b.max /\ c.cur = b.cur
      /\ \A m, q : Has(c, m, q) <=> Has(b, m, q) \/ (m = n /\ q = p)
      /\ \A m \in ToSet(b.order) : \A q : Ent(c, m, q) = Ent(b, m, q)
  BY <1>1, LookatEffect
<1>3. Grown(a, c)
  BY <1>1, <1>2 DEF Grown
<1>4. Backed(c, F)
  BY <1>1, <1>2, BackedKept
<1>5. Within(a, c, W, R)
  <2>. SUFFICES ASSUME NEW m, NEW q, Has(c, m, q)
                PROVE  \/ <<m, q>> \in W
                       \/ Has(a, m, q) /\ Ent(c, m, q) = Ent(a, m, q)
                       \/ ~Has(a, m, q) /\ <<m, q>> \in R /\ Ent(c, m, q) = BlankEnt
    BY DEF Within
  <2>1. m \in ToSet(b.order)
    BY <1>1, <1>2, HasSheet
  <2>2. CASE Has(b, m, q)
    BY <1>1, <1>2, <2>1, <2>2 DEF Within
  <2>3. CASE ~Has(b, m, q)
    <3>1. m = n /\ q = p /\ ~Has(a, m, q)
      BY <1>1, <1>2, <2>3 DEF Grown
    <3>2. Ent(b, m, q) = BlankEnt
      BY <1>1, <2>1, <2>3 DEF Ent, Has, IsDoc
    <3>. QED BY <1>2, <2>1, <3>1, <3>2
  <2>. QED BY <2>2, <2>3
<1>. QED BY <1>2, <1>3, <1>4, <1>5 DEF Reading

(* A cell of the file is stored: its label, its number or its flags. *)
LEMMA ReadingStores ==
  ASSUME NEW a, IsDoc(a), NEW b, NEW W, NEW R, NEW F, Reading(a, b, W, R, F),
         b.cur \in ToSet(b.order),
         NEW p \in Nat \X Nat, <<b.cur, p>> \in W, NEW ent, IsEnt(ent),
         ent.exp = Ent(b, b.cur, p).exp, ent.formula = Ent(b, b.cur, p).formula,
         NEW c, c = Stored(b, p, ent)
  PROVE  Reading(a, c, W, R, F)
<1>1. IsDoc(b) /\ Grown(a, b) /\ Within(a, b, W, R) /\ Backed(b, F)
  BY DEF Reading
<1>2. /\ IsDoc(c)
      /\ c.order = b.order /\ c.cur = b.cur
      /\ \A m, q : Has(c, m, q) <=> Has(b, m, q) \/ (m = b.cur /\ q = p)
      /\ \A m \in ToSet(b.order) : \A q :
           Ent(c, m, q) = IF m = b.cur /\ q = p THEN ent ELSE Ent(b, m, q)
      /\ \A m \in ToSet(b.order) : \A k \in 1..2 : b.max[m][k] <= c.max[m][k]
  <2>. HIDE DEF Stored
  <2>. QED BY <1>1, StoredEffect
<1>3. Grown(a, c)
  <2>1. \A m \in ToSet(a.order) : \A k \in 1..2 : a.max[m][k] <= c.max[m][k]
    <3>. SUFFICES ASSUME NEW m \in ToSet(a.order), NEW k \in 1..2 PROVE a.max[m][k] <= c.max[m][k]
      OBVIOUS
    <3>1. m \in ToSet(b.order) /\ a.max[m][k] <= b.max[m][k] /\ b.max[m][k] <= c.max[m][k]
      BY <1>1, <1>2 DEF Grown
    <3>2. a.max[m][k] \in Nat /\ b.max[m][k] \in Nat /\ c.max[m][k] \in Nat
      <4>1. a.max[m] \in Nat \X Nat /\ b.max[m] \in Nat \X Nat /\ c.max[m] \in Nat \X Nat
        BY <1>1, <1>2, <3>1 DEF IsDoc
      <4>. QED BY <4>1
    <3>. QED BY <3>1, <3>2
  <2>. QED BY <1>1, <1>2, <2>1 DEF Grown
<1>4. Backed(c, F)
  BY <1>1, <1>2, BackedKept
<1>5. Within(a, c, W, R)
  <2>. SUFFICES ASSUME NEW m, NEW q, Has(c, m, q), <<m, q>> \notin W
                PROVE  \/ Has(a, m, q) /\ Ent(c, m, q) = Ent(a, m, q)
                       \/ ~Has(a, m, q) /\ <<m, q>> \in R /\ Ent(c, m, q) = BlankEnt
    BY DEF Within
  <2>1. m \in ToSet(b.order) /\ ~(m = b.cur /\ q = p) /\ Has(b, m, q)
    BY <1>1, <1>2, HasSheet
  <2>. QED BY <1>1, <1>2, <2>1 DEF Within
<1>. QED BY <1>2, <1>3, <1>4, <1>5 DEF Reading

LEMMA ReadingOpens ==
  ASSUME NEW a, IsDoc(a), NEW b, NEW W, NEW R, NEW F, Reading(a, b, W, R, F), NEW n,
         NEW c, c = NewSheet(b, n)
  PROVE  Reading(a, c, W, R, F) /\ c.cur = n /\ ToSet(c.order) = ToSet(b.order) \cup {n}
<1>1. IsDoc(b) /\ Grown(a, b) /\ Within(a, b, W, R) /\ Backed(b, F)
  BY DEF Reading
<1>2. /\ IsDoc(c)
      /\ c.cur = n
      /\ ToSet(c.order) = ToSet(b.order) \cup {n}
      /\ IsPrefix(b.order, c.order)
      /\ \A m, q : Has(c, m, q) <=> Has(b, m, q)
      /\ \A m \in ToSet(b.order) : c.max[m] = b.max[m] /\ \A q : Ent(c, m, q) = Ent(b, m, q)
      /\ \A m \in ToSet(c.order) \ ToSet(b.order) : \A q : Ent(c, m, q) = BlankEnt
  BY <1>1, NewSheetEffect
<1>3. Grown(a, c)
  <2>1. IsPrefix(a.order, c.order)
    BY <1>1, <1>2, PrefixTransitive DEF Grown, IsDoc
  <2>. QED BY <1>1, <1>2, <2>1 DEF Grown
<1>4. Backed(c, F)
  <2>. SUFFICES ASSUME NEW m \in ToSet(c.order), NEW p, Ent(c, m, p).exp /= None
                PROVE  /\ \A r \in ToSet(Ent(c, m, p).exp) : Has(c, r.sheet, r.at)
                       /\ \E x \in F : Backs(x, m, p, Ent(c, m, p))
    BY DEF Backed
  <2>1. m \in ToSet(b.order) /\ Ent(c, m, p) = Ent(b, m, p)
    BY <1>2 DEF BlankEnt
  <2>2. Ent(b, m, p).exp /= None
    BY <2>1
  <2>3. \A r \in ToSet(Ent(b, m, p).exp) : Has(b, r.sheet, r.at)
    BY <1>1, <2>1, <2>2 DEF Backed
  <2>4. \E x \in F : Backs(x, m, p, Ent(b, m, p))
    BY <1>1, <2>1, <2>2, Zenon DEF Backed
  <2>. QED BY <1>2, <2>1, <2>3, <2>4
<1>5. Within(a, c, W, R)
  <2>1. \A m, q : Has(c, m, q) => Has(b, m, q) /\ Ent(c, m, q) = Ent(b, m, q)
    BY <1>1, <1>2, HasSheet
  <2>. QED BY <1>1, <2>1 DEF Within
<1>. QED BY <1>2, <1>3, <1>4, <1>5 DEF Reading
-----------------------------------------------------------------------------
(* The loops.  Each is a run r of its turns: r[0] is where it starts, r[k]
   what it has after k turns. *)

(* The callbacks for the fields of a row, one after the other. *)
LEMMA CsvRowLoop ==
  ASSUME NEW s, NEW row, IsSeq(row)
  PROVE  \E r : /\ r[0] = s
                /\ \A k \in 1..Len(row) : r[k] = cb1(r[k-1], row[k])
                /\ CsvRow(s, row) = cb2(r[Len(row)])
<1>. DEFINE start == s
            Is(f, m) == f = [k \in 0..m |-> IF k = 0 THEN start ELSE cb1(f[k-1], row[k])]
            S == {m \in Nat : \E f : Is(f, m)}
<1>1. Len(row) \in Nat
  BY DEF IsSeq
<1>. HIDE DEF start
<1>2. 0 \in S
  <2>1. Is([k \in 0..0 |-> start], 0)
    OBVIOUS
  <2>. QED BY <2>1
<1>3. ASSUME NEW m \in Nat, m \in S PROVE m + 1 \in S
  <2>1. PICK f : Is(f, m)
    BY <1>3
  <2>2. Is([k \in 0..m+1 |-> IF k = m + 1 THEN cb1(f[m], row[m+1]) ELSE f[k]], m + 1)
    BY <2>1
  <2>. HIDE DEF Is
  <2>. QED BY <2>2
<1>4. Len(row) \in S
  <2>. HIDE DEF S
  <2>. QED BY <1>1, <1>2, <1>3, SetInduction
<1>. DEFINE r == CHOOSE f : Is(f, Len(row))
<1>5. Is(r, Len(row))
  BY <1>4
<1>6. CsvRow(s, row) = cb2(r[Len(row)])
  BY DEF CsvRow, Loop, start
<1>7. r[0] = start /\ \A k \in 1..Len(row) : r[k] = cb1(r[k-1], row[k])
  <2>. HIDE DEF r
  <2>. QED BY <1>1, <1>5
<1>. HIDE DEF r
<1>. QED BY <1>6, <1>7 DEF start

(* The rows of a table. *)
LEMMA CsvLoop ==
  ASSUME NEW d, NEW file, IsSeq(file.rows)
  PROVE  \E r : /\ r[0] = [doc |-> NewSheet(d, CsvSheet), line |-> 0, col |-> 0]
                /\ \A k \in 1..Len(file.rows) : r[k] = CsvRow(r[k-1], file.rows[k])
                /\ csv_read(d, file) = r[Len(file.rows)]
<1>. DEFINE start == [doc |-> NewSheet(d, CsvSheet), line |-> 0, col |-> 0]
            Is(f, m) == f = [k \in 0..m |-> IF k = 0 THEN start ELSE CsvRow(f[k-1], file.rows[k])]
            S == {m \in Nat : \E f : Is(f, m)}
<1>1. Len(file.rows) \in Nat
  BY DEF IsSeq
<1>. HIDE DEF start
<1>2. 0 \in S
  <2>1. Is([k \in 0..0 |-> start], 0)
    OBVIOUS
  <2>. QED BY <2>1
<1>3. ASSUME NEW m \in Nat, m \in S PROVE m + 1 \in S
  <2>1. PICK f : Is(f, m)
    BY <1>3
  <2>2. Is([k \in 0..m+1 |-> IF k = m + 1 THEN CsvRow(f[m], file.rows[m+1]) ELSE f[k]], m + 1)
    BY <2>1
  <2>. HIDE DEF Is
  <2>. QED BY <2>2
<1>4. Len(file.rows) \in S
  <2>. HIDE DEF S
  <2>. QED BY <1>1, <1>2, <1>3, SetInduction
<1>. DEFINE r == CHOOSE f : Is(f, Len(file.rows))
<1>5. Is(r, Len(file.rows))
  BY <1>4
<1>6. csv_read(d, file) = r[Len(file.rows)]
  BY DEF csv_read, Loop, Counters, start
<1>7. r[0] = start /\ \A k \in 1..Len(file.rows) : r[k] = CsvRow(r[k-1], file.rows[k])
  <2>. HIDE DEF r
  <2>. QED BY <1>1, <1>5
<1>. HIDE DEF r
<1>. QED BY <1>6, <1>7 DEF start

(* The search for td below a tr, *)
LEMMA HtmlRowLoop ==
  ASSUME NEW dom, IsSeq(dom), NEW s, NEW tr
  PROVE  \E r : /\ r[0] = s
                /\ \A k \in 1..Len(dom) : r[k] = InRow(dom, r[k-1], tr, k)
                /\ html_read_row(dom, s, tr).doc = r[Len(dom)].doc
                /\ html_read_row(dom, s, tr).at = <<s.at[1] + 1, 0>>
<1>. DEFINE start == s
            Is(f, m) == f = [k \in 0..m |-> IF k = 0 THEN start ELSE InRow(dom, f[k-1], tr, k)]
            S == {m \in Nat : \E f : Is(f, m)}
<1>1. Len(dom) \in Nat
  BY DEF IsSeq
<1>. HIDE DEF start
<1>2. 0 \in S
  <2>1. Is([k \in 0..0 |-> start], 0)
    OBVIOUS
  <2>. QED BY <2>1
<1>3. ASSUME NEW m \in Nat, m \in S PROVE m + 1 \in S
  <2>1. PICK f : Is(f, m)
    BY <1>3
  <2>2. Is([k \in 0..m+1 |-> IF k = m + 1 THEN InRow(dom, f[m], tr, m+1) ELSE f[k]], m + 1)
    BY <2>1
  <2>. HIDE DEF Is
  <2>. QED BY <2>2
<1>4. Len(dom) \in S
  <2>. HIDE DEF S
  <2>. QED BY <1>1, <1>2, <1>3, SetInduction
<1>. DEFINE r == CHOOSE f : Is(f, Len(dom))
<1>5. Is(r, Len(dom))
  BY <1>4
<1>6. /\ html_read_row(dom, s, tr).doc = r[Len(dom)].doc
      /\ html_read_row(dom, s, tr).at = <<s.at[1] + 1, 0>>
  BY DEF html_read_row, Loop, start
<1>7. r[0] = start /\ \A k \in 1..Len(dom) : r[k] = InRow(dom, r[k-1], tr, k)
  <2>. HIDE DEF r
  <2>. QED BY <1>1, <1>5
<1>. HIDE DEF r
<1>. QED BY <1>6, <1>7 DEF start

(* for tr below a table, *)
LEMMA HtmlRowsLoop ==
  ASSUME NEW dom, IsSeq(dom), NEW d, NEW table
  PROVE  \E r : /\ r[0] = [doc |-> d, at |-> <<0, 0>>]
                /\ \A k \in 1..Len(dom) : r[k] = InTable(dom, r[k-1], table, k)
                /\ html_read_rows(d, dom, table) = r[Len(dom)].doc
<1>. DEFINE start == [doc |-> d, at |-> <<0, 0>>]
            Is(f, m) == f = [k \in 0..m |-> IF k = 0 THEN start ELSE InTable(dom, f[k-1], table, k)]
            S == {m \in Nat : \E f : Is(f, m)}
<1>1. Len(dom) \in Nat
  BY DEF IsSeq
<1>. HIDE DEF start
<1>2. 0 \in S
  <2>1. Is([k \in 0..0 |-> start], 0)
    OBVIOUS
  <2>. QED BY <2>1
<1>3. ASSUME NEW m \in Nat, m \in S PROVE m + 1 \in S
  <2>1. PICK f : Is(f, m)
    BY <1>3
  <2>2. Is([k \in 0..m+1 |-> IF k = m + 1 THEN InTable(dom, f[m], table, m+1) ELSE f[k]], m + 1)
    BY <2>1
  <2>. HIDE DEF Is
  <2>. QED BY <2>2
<1>4. Len(dom) \in S
  <2>. HIDE DEF S
  <2>. QED BY <1>1, <1>2, <1>3, SetInduction
<1>. DEFINE r == CHOOSE f : Is(f, Len(dom))
<1>5. Is(r, Len(dom))
  BY <1>4
<1>6. html_read_rows(d, dom, table) = r[Len(dom)].doc
  BY DEF html_read_rows, Loop, start
<1>7. r[0] = start /\ \A k \in 1..Len(dom) : r[k] = InTable(dom, r[k-1], table, k)
  <2>. HIDE DEF r
  <2>. QED BY <1>1, <1>5
<1>. HIDE DEF r
<1>. QED BY <1>6, <1>7 DEF start

(* and for tables on a page. *)
LEMMA TraverseLoop ==
  ASSUME NEW dom, IsSeq(dom), NEW d
  PROVE  \E r : /\ r[0] = [doc |-> d, tbl_nr |-> [i \in 0..Len(dom) |-> 1]]
                /\ \A k \in 1..Len(dom) : r[k] = Traverse(dom, r[k-1], k)
                /\ traverse_dom_trees(d, dom) = r[Len(dom)].doc
<1>. DEFINE start == [doc |-> d, tbl_nr |-> [i \in 0..Len(dom) |-> 1]]
            Is(f, m) == f = [k \in 0..m |-> IF k = 0 THEN start ELSE Traverse(dom, f[k-1], k)]
            S == {m \in Nat : \E f : Is(f, m)}
<1>1. Len(dom) \in Nat
  BY DEF IsSeq
<1>. HIDE DEF start
<1>2. 0 \in S
  <2>1. Is([k \in 0..0 |-> start], 0)
    OBVIOUS
  <2>. QED BY <2>1
<1>3. ASSUME NEW m \in Nat, m \in S PROVE m + 1 \in S
  <2>1. PICK f : Is(f, m)
    BY <1>3
  <2>2. Is([k \in 0..m+1 |-> IF k = m + 1 THEN Traverse(dom, f[m], m+1) ELSE f[k]], m + 1)
    BY <2>1
  <2>. HIDE DEF Is
  <2>. QED BY <2>2
<1>4. Len(dom) \in S
  <2>. HIDE DEF S
  <2>. QED BY <1>1, <1>2, <1>3, SetInduction
<1>. DEFINE r == CHOOSE f : Is(f, Len(dom))
<1>5. Is(r, Len(dom))
  BY <1>4
<1>6. traverse_dom_trees(d, dom) = r[Len(dom)].doc
  BY DEF traverse_dom_trees, Loop, start
<1>7. r[0] = start /\ \A k \in 1..Len(dom) : r[k] = Traverse(dom, r[k-1], k)
  <2>. HIDE DEF r
  <2>. QED BY <1>1, <1>5
<1>. HIDE DEF r
<1>. QED BY <1>6, <1>7 DEF start

(* The references of a formula. *)
LEMMA GetASTLoop ==
  ASSUME NEW s, NEW refs, IsSeq(refs)
  PROVE  \E r : /\ r[0] = s
                /\ \A k \in 1..Len(refs) : r[k] = Reference(r[k-1], refs[k])
                /\ getAST(s, refs) = r[Len(refs)]
<1>. DEFINE start == s
            Is(f, m) == f = [k \in 0..m |-> IF k = 0 THEN start ELSE Reference(f[k-1], refs[k])]
            S == {m \in Nat : \E f : Is(f, m)}
<1>1. Len(refs) \in Nat
  BY DEF IsSeq
<1>. HIDE DEF start
<1>2. 0 \in S
  <2>1. Is([k \in 0..0 |-> start], 0)
    OBVIOUS
  <2>. QED BY <2>1
<1>3. ASSUME NEW m \in Nat, m \in S PROVE m + 1 \in S
  <2>1. PICK f : Is(f, m)
    BY <1>3
  <2>2. Is([k \in 0..m+1 |-> IF k = m + 1 THEN Reference(f[m], refs[m+1]) ELSE f[k]], m + 1)
    BY <2>1
  <2>. HIDE DEF Is
  <2>. QED BY <2>2
<1>4. Len(refs) \in S
  <2>. HIDE DEF S
  <2>. QED BY <1>1, <1>2, <1>3, SetInduction
<1>. DEFINE r == CHOOSE f : Is(f, Len(refs))
<1>5. Is(r, Len(refs))
  BY <1>4
<1>6. getAST(s, refs) = r[Len(refs)]
  BY DEF getAST, Loop, start
<1>7. r[0] = start /\ \A k \in 1..Len(refs) : r[k] = Reference(r[k-1], refs[k])
  <2>. HIDE DEF r
  <2>. QED BY <1>1, <1>5
<1>. HIDE DEF r
<1>. QED BY <1>6, <1>7 DEF start

(* The cells of a part of a workbook, *)
LEMMA SheetDataLoop ==
  ASSUME NEW s, NEW cells, IsSeq(cells)
  PROVE  \E r : /\ r[0] = s
                /\ \A k \in 1..Len(cells) : r[k] = ReadCell(r[k-1], cells[k])
                /\ get_sheet_data(s, cells) = r[Len(cells)]
<1>. DEFINE start == s
            Is(f, m) == f = [k \in 0..m |-> IF k = 0 THEN start ELSE ReadCell(f[k-1], cells[k])]
            S == {m \in Nat : \E f : Is(f, m)}
<1>1. Len(cells) \in Nat
  BY DEF IsSeq
<1>. HIDE DEF start
<1>2. 0 \in S
  <2>1. Is([k \in 0..0 |-> start], 0)
    OBVIOUS
  <2>. QED BY <2>1
<1>3. ASSUME NEW m \in Nat, m \in S PROVE m + 1 \in S
  <2>1. PICK f : Is(f, m)
    BY <1>3
  <2>2. Is([k \in 0..m+1 |-> IF k = m + 1 THEN ReadCell(f[m], cells[m+1]) ELSE f[k]], m + 1)
    BY <2>1
  <2>. HIDE DEF Is
  <2>. QED BY <2>2
<1>4. Len(cells) \in S
  <2>. HIDE DEF S
  <2>. QED BY <1>1, <1>2, <1>3, SetInduction
<1>. DEFINE r == CHOOSE f : Is(f, Len(cells))
<1>5. Is(r, Len(cells))
  BY <1>4
<1>6. get_sheet_data(s, cells) = r[Len(cells)]
  BY DEF get_sheet_data, Loop, start
<1>7. r[0] = start /\ \A k \in 1..Len(cells) : r[k] = ReadCell(r[k-1], cells[k])
  <2>. HIDE DEF r
  <2>. QED BY <1>1, <1>5
<1>. HIDE DEF r
<1>. QED BY <1>6, <1>7 DEF start

(* its sheets when they are made, *)
LEMMA CreatedLoop ==
  ASSUME NEW d, NEW sheets, IsSeq(sheets)
  PROVE  \E r : /\ r[0] = d
                /\ \A k \in 1..Len(sheets) : r[k] = NewSheet(r[k-1], sheets[k].name)
                /\ Created(d, sheets) = r[Len(sheets)]
<1>. DEFINE start == d
            Is(f, m) == f = [k \in 0..m |-> IF k = 0 THEN start ELSE NewSheet(f[k-1], sheets[k].name)]
            S == {m \in Nat : \E f : Is(f, m)}
<1>1. Len(sheets) \in Nat
  BY DEF IsSeq
<1>. HIDE DEF start
<1>2. 0 \in S
  <2>1. Is([k \in 0..0 |-> start], 0)
    OBVIOUS
  <2>. QED BY <2>1
<1>3. ASSUME NEW m \in Nat, m \in S PROVE m + 1 \in S
  <2>1. PICK f : Is(f, m)
    BY <1>3
  <2>2. Is([k \in 0..m+1 |-> IF k = m + 1 THEN NewSheet(f[m], sheets[m+1].name) ELSE f[k]], m + 1)
    BY <2>1
  <2>. HIDE DEF Is
  <2>. QED BY <2>2
<1>4. Len(sheets) \in S
  <2>. HIDE DEF S
  <2>. QED BY <1>1, <1>2, <1>3, SetInduction
<1>. DEFINE r == CHOOSE f : Is(f, Len(sheets))
<1>5. Is(r, Len(sheets))
  BY <1>4
<1>6. Created(d, sheets) = r[Len(sheets)]
  BY DEF Created, Loop, start
<1>7. r[0] = start /\ \A k \in 1..Len(sheets) : r[k] = NewSheet(r[k-1], sheets[k].name)
  <2>. HIDE DEF r
  <2>. QED BY <1>1, <1>5
<1>. HIDE DEF r
<1>. QED BY <1>6, <1>7 DEF start

(* and when they are read. *)
LEMMA OpenLoop ==
  ASSUME NEW d, NEW file, file.styles, IsSeq(file.sheets)
  PROVE  \E r : /\ r[0] = [doc |-> Created(d, file.sheets), rc |-> 0, lost |-> FALSE]
                /\ \A k \in 1..Len(file.sheets) : r[k] = ReadSheet(r[k-1], file.sheets[k])
                /\ open_xlsx(d, file) = r[Len(file.sheets)]
<1>. DEFINE start == [doc |-> Created(d, file.sheets), rc |-> 0, lost |-> FALSE]
            Is(f, m) == f = [k \in 0..m |-> IF k = 0 THEN start ELSE ReadSheet(f[k-1], file.sheets[k])]
            S == {m \in Nat : \E f : Is(f, m)}
<1>1. Len(file.sheets) \in Nat
  BY DEF IsSeq
<1>. HIDE DEF start
<1>2. 0 \in S
  <2>1. Is([k \in 0..0 |-> start], 0)
    OBVIOUS
  <2>. QED BY <2>1
<1>3. ASSUME NEW m \in Nat, m \in S PROVE m + 1 \in S
  <2>1. PICK f : Is(f, m)
    BY <1>3
  <2>2. Is([k \in 0..m+1 |-> IF k = m + 1 THEN ReadSheet(f[m], file.sheets[m+1]) ELSE f[k]], m + 1)
    BY <2>1
  <2>. HIDE DEF Is
  <2>. QED BY <2>2
<1>4. Len(file.sheets) \in S
  <2>. HIDE DEF S
  <2>. QED BY <1>1, <1>2, <1>3, SetInduction
<1>. DEFINE r == CHOOSE f : Is(f, Len(file.sheets))
<1>5. Is(r, Len(file.sheets))
  BY <1>4
<1>6. open_xlsx(d, file) = r[Len(file.sheets)]
  BY DEF open_xlsx, Loop, start
<1>7. r[0] = start /\ \A k \in 1..Len(file.sheets) : r[k] = ReadSheet(r[k-1], file.sheets[k])
  <2>. HIDE DEF r
  <2>. QED BY <1>1, <1>5
<1>. HIDE DEF r
<1>. QED BY <1>6, <1>7 DEF start
-----------------------------------------------------------------------------
(* What a reader leaves behind *)

(* The cell at p of sheet n before the reader started with a. *)
Old(a, n, p) == IF n \in ToSet(a.order) THEN Ent(a, n, p) ELSE BlankEnt

(* The dump of the sheet n comes as far as p. *)
Reaches(d, n, p) == n \in ToSet(d.order) /\ \A k \in 1..2 : p[k] <= d.max[n][k]

LEMMA ExtentsAreNumbers ==
  ASSUME NEW d, IsDoc(d)
  PROVE  \A n \in ToSet(d.order) : \A k \in 1..2 : d.max[n][k] \in Nat
<1>1. \A n \in ToSet(d.order) : d.max[n] \in Nat \X Nat
  BY DEF IsDoc
<1>. QED BY <1>1

LEMMA OldIsEnt ==
  ASSUME NEW a, IsDoc(a)
  PROVE  \A n, p : IsEnt(Old(a, n, p))
BY BlankIsEnt DEF Old, IsDoc

(* In d every cell is what it was when the reader started with a. *)
Unread(a, d) == \A n \in ToSet(d.order) : \A p : Ent(d, n, p) = Old(a, n, p)

(* A sheet opened has what it had, or blank cells. *)
LEMMA UnreadOpens ==
  ASSUME NEW a, NEW b, IsDoc(b), ToSet(a.order) \subseteq ToSet(b.order), Unread(a, b), NEW m
  PROVE  Unread(a, NewSheet(b, m))
<1>1. PICK c : c = NewSheet(b, m)
  OBVIOUS
<1>2. /\ \A n \in ToSet(b.order) : \A q : Ent(c, n, q) = Ent(b, n, q)
      /\ \A n \in ToSet(c.order) \ ToSet(b.order) : \A q : Ent(c, n, q) = BlankEnt
  BY <1>1, NewSheetEffect
<1>. QED BY <1>1, <1>2 DEF Old, Unread

LEMMA NothingRead ==
  ASSUME NEW a, IsDoc(a), NEW d, NEW F, Reading(a, d, {}, {}, F)
  PROVE  Unread(a, d)
<1>. SUFFICES ASSUME NEW n \in ToSet(d.order), NEW p PROVE Ent(d, n, p) = Old(a, n, p)
  BY DEF Unread
<1>0. IsDoc(d)
  BY DEF Reading
<1>1. DOMAIN d.cells = ToSet(d.order) /\ DOMAIN a.cells = ToSet(a.order)
  BY <1>0 DEF IsDoc
<1>2. CASE Has(d, n, p)
  <2>1. Has(a, n, p) /\ Ent(d, n, p) = Ent(a, n, p)
    BY <1>2 DEF Reading, Within
  <2>. QED BY <2>1, HasSheet DEF Old
<1>3. CASE ~Has(d, n, p)
  <2>1. ~Has(a, n, p)
    BY <1>3 DEF Reading, Grown
  <2>2. Ent(d, n, p) = BlankEnt
    BY <1>1, <1>3 DEF Has, Ent
  <2>3. n \in ToSet(a.order) => Ent(a, n, p) = BlankEnt
    BY <1>1, <2>1 DEF Has, Ent
  <2>. QED BY <2>2, <2>3 DEF Old
<1>. QED BY <1>2, <1>3

-----------------------------------------------------------------------------
(* csv.c *)

(* The state of the reader: its document and the place of the next field. *)
AtField(s, i, j) == s.line = i /\ s.col = j

(* A flag set, a label and a number given to a cell. *)
LEMMA FlaggedEnt ==
  ASSUME NEW e, IsEnt(e), NEW flags, flags \subseteq {"VAL", "RP_LABEL", "RP_FORMULA"}
  PROVE  /\ IsEnt(Flagged(e, flags))
         /\ Flagged(e, flags) = [val |-> e.val, label |-> e.label, formula |-> e.formula,
                                 exp |-> e.exp, flag |-> e.flag \cup flags]
<1>1. Flagged(e, flags) = [val |-> e.val, label |-> e.label, formula |-> e.formula,
                           exp |-> e.exp, flag |-> e.flag \cup flags]
  BY DEF Flagged, IsEnt
<1>. QED BY <1>1 DEF IsEnt

LEMMA LabelledEnt ==
  ASSUME NEW e, IsEnt(e), NEW t
  PROVE  /\ IsEnt(Labelled(e, t))
         /\ Labelled(e, t) = [val |-> e.val, label |-> t, formula |-> e.formula, exp |-> e.exp,
                              flag |-> e.flag \cup {"RP_LABEL"}]
<1>. DEFINE g == [e EXCEPT !.label = t]
<1>1. g = [val |-> e.val, label |-> t, formula |-> e.formula, exp |-> e.exp, flag |-> e.flag]
  BY DEF IsEnt
<1>2. Labelled(e, t) = Flagged(g, {"RP_LABEL"})
  BY DEF Labelled
<1>. HIDE DEF g
<1>3. /\ IsEnt(g) /\ g.val = e.val /\ g.label = t /\ g.formula = e.formula /\ g.exp = e.exp
      /\ g.flag = e.flag
  BY <1>1 DEF IsEnt
<1>. QED BY <1>2, <1>3, FlaggedEnt

LEMMA ValuedEnt ==
  ASSUME NEW e, IsEnt(e), NEW v
  PROVE  /\ IsEnt(Valued(e, v))
         /\ Valued(e, v) = [val |-> v, label |-> e.label, formula |-> e.formula, exp |-> e.exp,
                            flag |-> e.flag \cup {"VAL"}]
<1>. DEFINE g == [e EXCEPT !.val = v]
<1>1. g = [val |-> v, label |-> e.label, formula |-> e.formula, exp |-> e.exp, flag |-> e.flag]
  BY DEF IsEnt
<1>2. Valued(e, v) = Flagged(g, {"VAL"})
  BY DEF Valued
<1>. HIDE DEF g
<1>3. /\ IsEnt(g) /\ g.val = v /\ g.label = e.label /\ g.formula = e.formula /\ g.exp = e.exp
      /\ g.flag = e.flag
  BY <1>1 DEF IsEnt
<1>. QED BY <1>2, <1>3, FlaggedEnt

(* The field m of row k comes before the place <<i, j>>. *)
Passed(k, m, i, j) == k - 1 < i \/ (k - 1 = i /\ m - 1 < j)

(* The fields before <<i, j>> are labels of their cells, all other cells are
   what they were. *)
Labels(a, d, rows, i, j) ==
  /\ \A k \in DOMAIN rows : \A m \in DOMAIN rows[k] : Passed(k, m, i, j) =>
       /\ Reaches(d, CsvSheet, <<k - 1, m - 1>>)
       /\ Ent(d, CsvSheet, <<k - 1, m - 1>>) =
            Labelled(Old(a, CsvSheet, <<k - 1, m - 1>>), rows[k][m])
  /\ \A n \in ToSet(d.order) : \A p :
       \/ n = CsvSheet /\ \E k \in DOMAIN rows : \E m \in DOMAIN rows[k] :
                            Passed(k, m, i, j) /\ p = <<k - 1, m - 1>>
       \/ Ent(d, n, p) = Old(a, n, p)

LEMMA LabelStored ==
  ASSUME NEW a, IsDoc(a), NEW d, IsDoc(d), d.cur = CsvSheet, d.cur \in ToSet(d.order),
         NEW rows, IsTable(rows), NEW i \in Nat, NEW j \in Nat, Labels(a, d, rows, i, j),
         i + 1 \in DOMAIN rows, j + 1 \in DOMAIN rows[i+1],
         NEW c, c = Stored(d, <<i, j>>, Labelled(Ent(d, CsvSheet, <<i, j>>), rows[i+1][j+1]))
  PROVE  Labels(a, c, rows, i, j + 1)
<1>. DEFINE p == <<i, j>>
            text == rows[i+1][j+1]
            e == Labelled(Ent(d, CsvSheet, p), text)
<1>0. /\ DOMAIN rows \subseteq Nat
      /\ \A k \in DOMAIN rows : DOMAIN rows[k] \subseteq Nat
  BY DEF IsTable, IsSeq
<1>1. p \in Nat \X Nat /\ p[1] = i /\ p[2] = j
  OBVIOUS
<1>2. Ent(d, CsvSheet, p) = Old(a, CsvSheet, p)
  <2>1. ASSUME NEW k \in DOMAIN rows, NEW m \in DOMAIN rows[k], Passed(k, m, i, j)
        PROVE  p /= <<k - 1, m - 1>>
    BY <1>0, <2>1 DEF Passed
  <2>. HIDE DEF p
  <2>. QED BY <2>1 DEF Labels
<1>3. IsEnt(e)
  BY <1>2, OldIsEnt, LabelledEnt
<1>. HIDE DEF e, p
<1>4. /\ c.order = d.order
      /\ \A m \in ToSet(d.order) : \A q :
           Ent(c, m, q) = IF m = CsvSheet /\ q = p THEN e ELSE Ent(d, m, q)
      /\ \A m \in ToSet(d.order) : \A k \in 1..2 : d.max[m][k] <= c.max[m][k]
      /\ \A k \in 1..2 : p[k] <= c.max[CsvSheet][k]
  <2>1. c = Stored(d, p, e)
    BY DEF p, e
  <2>. QED BY <1>1, <1>3, <2>1, StoredEffect
<1>5. IsDoc(c)
  <2>1. c = Stored(d, p, e)
    BY DEF p, e
  <2>. QED BY <1>1, <1>3, <2>1, StoredEffect
<1>6. ASSUME NEW k \in DOMAIN rows, NEW m \in DOMAIN rows[k]
      PROVE  Passed(k, m, i, j + 1) <=> Passed(k, m, i, j) \/ (k = i + 1 /\ m = j + 1)
  BY <1>0 DEF Passed
<1>7. ASSUME NEW k \in DOMAIN rows, NEW m \in DOMAIN rows[k], Passed(k, m, i, j)
      PROVE  /\ Reaches(c, CsvSheet, <<k - 1, m - 1>>)
             /\ Ent(c, CsvSheet, <<k - 1, m - 1>>) =
                  Labelled(Old(a, CsvSheet, <<k - 1, m - 1>>), rows[k][m])
  <2>1. PICK q : q = <<k - 1, m - 1>>
    OBVIOUS
  <2>2. q[1] \in Int /\ q[2] \in Int /\ q /= p
    BY <1>0, <1>7, <2>1 DEF Passed, p
  <2>3. Reaches(d, CsvSheet, q) /\ Ent(d, CsvSheet, q) = Labelled(Old(a, CsvSheet, q), rows[k][m])
    BY <1>7, <2>1 DEF Labels
  <2>4. \A n \in ToSet(d.order) : \A x \in 1..2 : d.max[n][x] \in Nat /\ c.max[n][x] \in Nat
    BY <1>4, <1>5, ExtentsAreNumbers
  <2>5. \A x \in 1..2 : q[x] \in Int
    BY <2>2
  <2>6. Reaches(c, CsvSheet, q)
    BY <1>4, <2>3, <2>4, <2>5 DEF Reaches
  <2>7. Ent(c, CsvSheet, q) = Ent(d, CsvSheet, q)
    BY <1>4, <2>2
  <2>. QED BY <2>1, <2>3, <2>6, <2>7
<1>8. Reaches(c, CsvSheet, p) /\ Ent(c, CsvSheet, p) = Labelled(Old(a, CsvSheet, p), text)
  <2>1. Ent(c, CsvSheet, p) = e
    BY <1>4
  <2>2. Reaches(c, CsvSheet, p)
    BY <1>4 DEF Reaches
  <2>. QED BY <1>2, <2>1, <2>2 DEF e
<1>9. p = <<(i + 1) - 1, (j + 1) - 1>>
  BY DEF p
<1>10. ASSUME NEW n \in ToSet(c.order), NEW q, Ent(c, n, q) /= Old(a, n, q)
       PROVE  n = CsvSheet /\ \E k \in DOMAIN rows : \E m \in DOMAIN rows[k] :
                Passed(k, m, i, j + 1) /\ q = <<k - 1, m - 1>>
  <2>1. CASE n = CsvSheet /\ q = p
    <3>1. Passed(i + 1, j + 1, i, j + 1)
      BY DEF Passed
    <3>. QED BY <1>9, <2>1, <3>1
  <2>2. CASE ~(n = CsvSheet /\ q = p)
    <3>1. Ent(d, n, q) /= Old(a, n, q) /\ n \in ToSet(d.order)
      BY <1>4, <1>10, <2>2
    <3>2. n = CsvSheet /\ \E k \in DOMAIN rows : \E m \in DOMAIN rows[k] :
            Passed(k, m, i, j) /\ q = <<k - 1, m - 1>>
      BY <3>1 DEF Labels
    <3>. QED BY <1>6, <3>2
  <2>. QED BY <2>1, <2>2
<1>11. ASSUME NEW k \in DOMAIN rows, NEW m \in DOMAIN rows[k], Passed(k, m, i, j + 1)
       PROVE  /\ Reaches(c, CsvSheet, <<k - 1, m - 1>>)
              /\ Ent(c, CsvSheet, <<k - 1, m - 1>>) =
                   Labelled(Old(a, CsvSheet, <<k - 1, m - 1>>), rows[k][m])
  <2>1. CASE Passed(k, m, i, j)
    BY <1>7, <2>1
  <2>2. CASE k = i + 1 /\ m = j + 1
    BY <1>8, <1>9, <2>2
  <2>. QED BY <1>6, <1>11, <2>1, <2>2
<1>. QED BY <1>10, <1>11 DEF Labels

(* The end of a row. *)
LEMMA RowLabelled ==
  ASSUME NEW a, NEW d, NEW rows, IsTable(rows), NEW i \in Nat, i + 1 \in DOMAIN rows,
         NEW j, j = Len(rows[i+1]), Labels(a, d, rows, i, j)
  PROVE  Labels(a, d, rows, i + 1, 0)
<1>1. /\ DOMAIN rows \subseteq Nat
      /\ \A k \in DOMAIN rows : DOMAIN rows[k] = 1..Len(rows[k]) /\ Len(rows[k]) \in Nat
  BY DEF IsTable, IsSeq
<1>2. ASSUME NEW k \in DOMAIN rows, NEW m \in DOMAIN rows[k]
      PROVE  Passed(k, m, i + 1, 0) <=> Passed(k, m, i, j)
  <2>1. k \in Nat /\ m \in 1..Len(rows[k]) /\ Len(rows[k]) \in Nat
    BY <1>1
  <2>2. k = i + 1 => m - 1 < j
    BY <2>1
  <2>. QED BY <2>1, <2>2 DEF Passed
<1>. QED BY <1>2 DEF Labels

(* A field is stored where the counters are, and the column moves on. *)
LEMMA FieldRead ==
  ASSUME NEW a, IsDoc(a), NEW W, NEW R, NEW F, NEW s, Reading(a, s.doc, W, R, F),
         s.doc.cur \in ToSet(s.doc.order),
         NEW i \in Nat, NEW j \in Nat, AtField(s, i, j), <<s.doc.cur, <<i, j>>>> \in W,
         NEW text
  PROVE  /\ Reading(a, cb1(s, text).doc, W, R, F)
         /\ cb1(s, text).doc.cur = s.doc.cur /\ cb1(s, text).doc.order = s.doc.order
         /\ AtField(cb1(s, text), i, j + 1)
<1>. DEFINE t == cb1(s, text)
            e == Labelled(Ent(s.doc, s.doc.cur, <<i, j>>), text)
<1>1. t = [doc |-> Stored(s.doc, <<i, j>>, e), line |-> i, col |-> j + 1]
  BY DEF cb1, AtField
<1>2. IsDoc(s.doc)
  BY DEF Reading
<1>3. IsEnt(Ent(s.doc, s.doc.cur, <<i, j>>))
  BY <1>2 DEF IsDoc
<1>4. /\ IsEnt(e) /\ e.exp = Ent(s.doc, s.doc.cur, <<i, j>>).exp
      /\ e.formula = Ent(s.doc, s.doc.cur, <<i, j>>).formula
  BY <1>3, LabelledEnt
<1>. HIDE DEF e
<1>5. t.doc = Stored(s.doc, <<i, j>>, e) /\ AtField(t, i, j + 1)
  BY <1>1 DEF AtField
<1>6. Reading(a, t.doc, W, R, F)
  <2>. HIDE DEF t
  <2>. QED BY <1>4, <1>5, ReadingStores
<1>7. t.doc.order = s.doc.order /\ t.doc.cur = s.doc.cur
  <2>. HIDE DEF t
  <2>. QED BY <1>2, <1>4, <1>5, StoredEffect
<1>. QED BY <1>5, <1>6, <1>7

LEMMA CsvRowRead ==
  ASSUME NEW a, IsDoc(a), NEW W, NEW R, NEW F, NEW s, Reading(a, s.doc, W, R, F),
         s.doc.cur \in ToSet(s.doc.order),
         NEW i \in Nat, AtField(s, i, 0), NEW row, IsSeq(row),
         \A j \in DOMAIN row : <<s.doc.cur, <<i, j - 1>>>> \in W,
         NEW rows, IsTable(rows), i + 1 \in DOMAIN rows, row = rows[i+1], s.doc.cur = CsvSheet,
         Labels(a, s.doc, rows, i, 0)
  PROVE  /\ Reading(a, CsvRow(s, row).doc, W, R, F)
         /\ CsvRow(s, row).doc.cur = s.doc.cur /\ CsvRow(s, row).doc.order = s.doc.order
         /\ AtField(CsvRow(s, row), i + 1, 0)
         /\ Labels(a, CsvRow(s, row).doc, rows, i + 1, 0)
<1>. DEFINE n == Len(row)
            t == CsvRow(s, row)
<1>1. n \in Nat /\ DOMAIN row = 1..n
  BY DEF IsSeq
<1>n. n = Len(row)
  OBVIOUS
<1>2. PICK r : r[0] = s /\ (\A k \in 1..n : r[k] = cb1(r[k-1], row[k])) /\ t = cb2(r[n])
  <2>. HIDE DEF n
  <2>. QED BY CsvRowLoop DEF n
<1>. HIDE DEF n, t
<1>. DEFINE I(b, k) == /\ Reading(a, b.doc, W, R, F)
                       /\ b.doc.cur = s.doc.cur /\ b.doc.order = s.doc.order
                       /\ AtField(b, i, k)
                       /\ Labels(a, b.doc, rows, i, k)
<1>3. ASSUME NEW k \in 0..n-1, NEW b, I(b, k) PROVE I(cb1(b, row[k+1]), k + 1)
  <2>1. k + 1 \in DOMAIN row /\ (k + 1) - 1 = k /\ k \in Nat
    BY <1>1, <1>n
  <2>2. /\ Reading(a, b.doc, W, R, F) /\ AtField(b, i, k)
        /\ b.doc.cur \in ToSet(b.doc.order) /\ <<b.doc.cur, <<i, k>>>> \in W
    BY <1>3, <2>1
  <2>3. \A text : /\ Reading(a, cb1(b, text).doc, W, R, F)
                  /\ cb1(b, text).doc.cur = b.doc.cur /\ cb1(b, text).doc.order = b.doc.order
                  /\ AtField(cb1(b, text), i, k + 1)
    <3>. HIDE DEF I
    <3>. QED BY <2>1, <2>2, FieldRead
  <2>4. Labels(a, cb1(b, row[k+1]).doc, rows, i, k + 1)
    <3>1. PICK d : d = b.doc
      OBVIOUS
    <3>2. PICK c : c = cb1(b, row[k+1]).doc
      OBVIOUS
    <3>3. IsDoc(d) /\ d.cur = CsvSheet /\ d.cur \in ToSet(d.order) /\ Labels(a, d, rows, i, k)
      BY <1>3, <3>1 DEF Reading
    <3>4. c = Stored(d, <<i, k>>, Labelled(Ent(d, CsvSheet, <<i, k>>), rows[i+1][k+1]))
      BY <2>2, <3>1, <3>2, <3>3 DEF cb1, AtField
    <3>5. k + 1 \in DOMAIN rows[i+1]
      BY <2>1
    <3>6. Labels(a, c, rows, i, k + 1)
      <4>. HIDE DEF I
      <4>. QED BY <2>1, <3>3, <3>4, <3>5, LabelStored
    <3>. QED BY <3>2, <3>6
  <2>. QED BY <1>3, <2>3, <2>4
<1>4. 0..n \subseteq {k \in 0..n : I(r[k], k)}
  <2>. DEFINE S == {k \in 0..n : I(r[k], k)}
  <2>1. I(r[0], 0)
    BY <1>2
  <2>2. ASSUME NEW k \in 0..n-1, I(r[k], k) PROVE I(r[k+1], k + 1)
    <3>1. r[k+1] = cb1(r[k], row[k+1])
      BY <1>1, <1>2
    <3>. HIDE DEF I
    <3>. QED BY <1>3, <2>2, <3>1
  <2>3. 0 \in S /\ \A k \in 0..n-1 : k \in S => k + 1 \in S
    <3>. HIDE DEF I
    <3>1. n \in Nat
      BY <1>1
    <3>2. \A k \in 0..n-1 : I(r[k], k) => I(r[k+1], k + 1)
      BY <2>2
    <3>. QED BY ONLY <2>1, <3>1, <3>2
  <2>4. 0..n \subseteq S
    <3>. HIDE DEF S
    <3>. QED BY <1>1, <2>3, BoundedInduction
  <2>. QED BY <2>4
<1>5. I(r[n], n)
  <2>. HIDE DEF I
  <2>. QED BY <1>1, <1>4
<1>6. t = [doc |-> r[n].doc, line |-> i + 1, col |-> 0]
  <2>1. r[n].line = i
    BY <1>5 DEF AtField
  <2>. QED BY <1>2, <2>1 DEF cb2
<1>7. Labels(a, t.doc, rows, i + 1, 0)
  <2>1. PICK d : d = r[n].doc
    OBVIOUS
  <2>2. Labels(a, d, rows, i, n) /\ n = Len(rows[i+1])
    BY <1>n, <1>5, <2>1
  <2>3. Labels(a, d, rows, i + 1, 0)
    <3>. HIDE DEF I
    <3>. QED BY <2>2, RowLabelled
  <2>. QED BY <1>6, <2>1, <2>3
<1>. QED BY <1>5, <1>6, <1>7 DEF AtField, t

(* A table fills the sheet CsvSheet from its first cell on. *)
LEMMA CsvRead ==
  ASSUME NEW a, IsDoc(a), NEW W, NEW R, NEW F, Backed(a, F),
         NEW file, IsTable(file.rows),
         \A i \in DOMAIN file.rows : \A j \in DOMAIN file.rows[i] :
           <<CsvSheet, <<i - 1, j - 1>>>> \in W,
         NEW t, t = csv_read(a, file)
  PROVE  /\ Reading(a, t.doc, W, R, F) /\ t.line \in Nat /\ t.col \in Nat
         /\ Labels(a, t.doc, file.rows, Len(file.rows), 0)
<1>. DEFINE n == Len(file.rows)
            s == [doc |-> NewSheet(a, CsvSheet), line |-> 0, col |-> 0]
<1>1. IsSeq(file.rows) /\ n \in Nat /\ DOMAIN file.rows = 1..n
  <2>1. IsSeq(file.rows)
    BY DEF IsTable
  <2>. QED BY <2>1 DEF IsSeq
<1>2. PICK r : r[0] = s /\ (\A k \in 1..n : r[k] = CsvRow(r[k-1], file.rows[k])) /\ t = r[n]
  <2>. HIDE DEF n
  <2>. QED BY <1>1, CsvLoop DEF n
<1>3. /\ Reading(a, s.doc, W, R, F) /\ s.doc.cur = CsvSheet
      /\ s.doc.cur \in ToSet(s.doc.order) /\ AtField(s, 0, 0)
      /\ Labels(a, s.doc, file.rows, 0, 0)
  <2>1. Reading(a, a, W, R, F)
    BY ReadingStarts
  <2>2. Unread(a, s.doc)
    <3>1. Unread(a, a)
      BY DEF Unread, Old
    <3>. QED BY <3>1, UnreadOpens
  <2>3. Labels(a, s.doc, file.rows, 0, 0)
    <3>1. ASSUME NEW k \in DOMAIN file.rows, NEW m \in DOMAIN file.rows[k]
          PROVE  ~Passed(k, m, 0, 0)
      <4>1. k \in Nat \ {0} /\ m \in Nat \ {0}
        BY <1>1 DEF IsTable, IsSeq
      <4>. QED BY <4>1 DEF Passed
    <3>. HIDE DEF s
    <3>. QED BY <2>2, <3>1 DEF Labels, Unread
  <2>. QED BY <2>1, <2>3, ReadingOpens DEF AtField
<1>n. n = Len(file.rows)
  OBVIOUS
<1>. HIDE DEF n, s
<1>. DEFINE I(b, k) == /\ Reading(a, b.doc, W, R, F)
                       /\ b.doc.cur = s.doc.cur /\ b.doc.order = s.doc.order
                       /\ AtField(b, k, 0)
                       /\ Labels(a, b.doc, file.rows, k, 0)
<1>4. ASSUME NEW k \in 0..n-1, NEW b, I(b, k) PROVE I(CsvRow(b, file.rows[k+1]), k + 1)
  <2>. DEFINE row == file.rows[k+1]
  <2>1. k + 1 \in DOMAIN file.rows /\ (k + 1) - 1 = k /\ k \in Nat
    BY <1>1
  <2>2. IsSeq(row)
    BY <2>1 DEF IsTable
  <2>3. b.doc.cur \in ToSet(b.doc.order)
    BY <1>3, <1>4
  <2>4. \A j \in DOMAIN row : <<b.doc.cur, <<k, j - 1>>>> \in W
    BY <1>3, <1>4, <2>1
  <2>r. row = file.rows[k+1] /\ b.doc.cur = CsvSheet
    BY <1>3, <1>4
  <2>. HIDE DEF row
  <2>5. Reading(a, b.doc, W, R, F) /\ AtField(b, k, 0) /\ Labels(a, b.doc, file.rows, k, 0)
    BY <1>4
  <2>6. /\ Reading(a, CsvRow(b, row).doc, W, R, F)
        /\ CsvRow(b, row).doc.cur = b.doc.cur /\ CsvRow(b, row).doc.order = b.doc.order
        /\ AtField(CsvRow(b, row), k + 1, 0)
        /\ Labels(a, CsvRow(b, row).doc, file.rows, k + 1, 0)
    <3>. HIDE DEF I
    <3>1. PICK rows : rows = file.rows
      OBVIOUS
    <3>2. /\ IsTable(rows) /\ k + 1 \in DOMAIN rows /\ row = rows[k+1]
          /\ Labels(a, b.doc, rows, k, 0)
      BY <2>1, <2>r, <2>5, <3>1
    <3>3. /\ Reading(a, CsvRow(b, row).doc, W, R, F)
          /\ CsvRow(b, row).doc.cur = b.doc.cur /\ CsvRow(b, row).doc.order = b.doc.order
          /\ AtField(CsvRow(b, row), k + 1, 0)
          /\ Labels(a, CsvRow(b, row).doc, rows, k + 1, 0)
      BY <2>1, <2>2, <2>r, <2>3, <2>4, <2>5, <3>2, CsvRowRead
    <3>. QED BY <3>1, <3>3
  <2>7. I(CsvRow(b, row), k + 1)
    BY <1>4, <2>6
  <2>. QED BY <2>7 DEF row
<1>5. 0..n \subseteq {k \in 0..n : I(r[k], k)}
  <2>. DEFINE S == {k \in 0..n : I(r[k], k)}
  <2>1. I(r[0], 0)
    BY <1>2, <1>3
  <2>2. ASSUME NEW k \in 0..n-1, I(r[k], k) PROVE I(r[k+1], k + 1)
    <3>1. r[k+1] = CsvRow(r[k], file.rows[k+1])
      BY <1>1, <1>2
    <3>. HIDE DEF I
    <3>. QED BY <1>4, <2>2, <3>1
  <2>3. 0 \in S /\ \A k \in 0..n-1 : k \in S => k + 1 \in S
    <3>. HIDE DEF I
    <3>. QED BY <1>1, <2>1, <2>2
  <2>4. 0..n \subseteq S
    <3>. HIDE DEF S
    <3>. QED BY <1>1, <2>3, BoundedInduction
  <2>. QED BY <2>4
<1>6. I(r[n], n)
  <2>. HIDE DEF I
  <2>. QED BY <1>1, <1>5
<1>. QED BY <1>1, <1>n, <1>2, <1>6 DEF AtField
-----------------------------------------------------------------------------
(* xlsx.c *)

IsX(s) == s = [doc |-> s.doc, rc |-> s.rc, lost |-> s.lost]

(* From s to t a formula only looked cells up. *)
LookedUp(s, t) ==
  /\ IsX(t) /\ t.rc = s.rc /\ t.lost = s.lost
  /\ t.doc.cur = s.doc.cur /\ t.doc.order = s.doc.order /\ t.doc.max = s.doc.max
  /\ \A n, p : Has(s.doc, n, p) => Has(t.doc, n, p)
  /\ \A n \in ToSet(s.doc.order) : \A p : Ent(t.doc, n, p) = Ent(s.doc, n, p)

(* A reference to a sheet that is there is to a cell that is there from then
   on. *)
LEMMA ReferenceRead ==
  ASSUME NEW a, NEW W, NEW R, NEW F, NEW s, IsX(s), Reading(a, s.doc, W, R, F),
         NEW ref, NEW n, n = Bound(s.doc, ref).sheet, n \in ToSet(s.doc.order),
         <<n, ref.at>> \in R
  PROVE  /\ LookedUp(s, Reference(s, ref))
         /\ Reading(a, Reference(s, ref).doc, W, R, F)
         /\ Has(Reference(s, ref).doc, n, ref.at)
<1>. DEFINE t == Reference(s, ref)
            d == lookat(s.doc, n, ref.at)
<1>1. IsDoc(s.doc) /\ DOMAIN s.doc.cells = ToSet(s.doc.order)
  BY DEF Reading, IsDoc
<1>2. t = [s EXCEPT !.doc = d]
  BY <1>1 DEF Reference, Bound
<1>. HIDE DEF t
<1>3. t = [doc |-> d, rc |-> s.rc, lost |-> s.lost]
  <2>. HIDE DEF d
  <2>. QED BY <1>2 DEF IsX
<1>4. t.doc = d /\ t.rc = s.rc /\ t.lost = s.lost /\ IsX(t)
  <2>. HIDE DEF d
  <2>. QED BY <1>3 DEF IsX
<1>5. /\ d.order = s.doc.order /\ d.max = s.doc.max /\ d.cur = s.doc.cur
      /\ Has(d, n, ref.at) /\ Reading(a, d, W, R, F)
      /\ \A m, q : Has(s.doc, m, q) => Has(d, m, q)
      /\ \A m \in ToSet(s.doc.order) : \A q : Ent(d, m, q) = Ent(s.doc, m, q)
  BY ReadingLooksUp
<1>. HIDE DEF d
<1>. QED BY <1>4, <1>5 DEF LookedUp, t

LEMMA LookedUpTransitive ==
  ASSUME NEW s, NEW t, NEW u, LookedUp(s, t), LookedUp(t, u)
  PROVE  LookedUp(s, u)
BY DEF LookedUp

(* Afterwards all cells that the formula refers to are there. *)
LEMMA ReferencesRead ==
  ASSUME NEW a, NEW W, NEW R, NEW F, NEW s, IsX(s), Reading(a, s.doc, W, R, F),
         NEW refs, IsSeq(refs),
         \A j \in DOMAIN refs : /\ Bound(s.doc, refs[j]).sheet \in ToSet(s.doc.order)
                                /\ <<Bound(s.doc, refs[j]).sheet, refs[j].at>> \in R
  PROVE  /\ LookedUp(s, getAST(s, refs))
         /\ Reading(a, getAST(s, refs).doc, W, R, F)
         /\ \A j \in DOMAIN refs :
              Has(getAST(s, refs).doc, Bound(s.doc, refs[j]).sheet, refs[j].at)
<1>. DEFINE n == Len(refs)
            t == getAST(s, refs)
<1>1. n \in Nat /\ DOMAIN refs = 1..n
  BY DEF IsSeq
<1>2. PICK r : r[0] = s /\ (\A k \in 1..n : r[k] = Reference(r[k-1], refs[k])) /\ t = r[n]
  <2>. HIDE DEF n
  <2>. QED BY GetASTLoop DEF n
<1>. HIDE DEF n, t
<1>. DEFINE I(b, k) == /\ LookedUp(s, b) /\ Reading(a, b.doc, W, R, F)
                       /\ \A j \in 1..k : Has(b.doc, Bound(s.doc, refs[j]).sheet, refs[j].at)
<1>3. ASSUME NEW k \in 0..n-1, NEW b, I(b, k) PROVE I(Reference(b, refs[k+1]), k + 1)
  <2>. DEFINE ref == refs[k+1]
              m == Bound(s.doc, ref).sheet
              c == Reference(b, ref)
  <2>1. k + 1 \in DOMAIN refs
    BY <1>1
  <2>2. m \in ToSet(s.doc.order) /\ <<m, ref.at>> \in R
    BY <2>1
  <2>3. LookedUp(s, b) /\ Reading(a, b.doc, W, R, F) /\ IsX(b)
    BY <1>3 DEF LookedUp
  <2>4. m = Bound(b.doc, ref).sheet /\ m \in ToSet(b.doc.order)
    BY <2>2, <2>3 DEF LookedUp, Bound
  <2>5. LookedUp(b, c) /\ Reading(a, c.doc, W, R, F) /\ Has(c.doc, m, ref.at)
    <3>. HIDE DEF I, ref, m
    <3>. QED BY <2>2, <2>3, <2>4, ReferenceRead
  <2>6. LookedUp(s, c)
    <3>. HIDE DEF I, c
    <3>. QED BY <2>3, <2>5, LookedUpTransitive
  <2>7. \A j \in 1..k+1 : Has(c.doc, Bound(s.doc, refs[j]).sheet, refs[j].at)
    <3>. SUFFICES ASSUME NEW j \in 1..k+1
                  PROVE  Has(c.doc, Bound(s.doc, refs[j]).sheet, refs[j].at)
      OBVIOUS
    <3>1. CASE j = k + 1
      <4>. HIDE DEF c
      <4>. QED BY <2>5, <3>1
    <3>2. CASE j \in 1..k
      <4>1. Has(b.doc, Bound(s.doc, refs[j]).sheet, refs[j].at)
        BY <1>3, <3>2
      <4>. HIDE DEF c
      <4>. QED BY <2>5, <4>1 DEF LookedUp
    <3>. QED BY <3>1, <3>2
  <2>. HIDE DEF c
  <2>8. I(c, k + 1)
    BY <2>5, <2>6, <2>7
  <2>. HIDE DEF I
  <2>. QED BY <2>8 DEF c
<1>4. I(s, 0)
  <2>1. LookedUp(s, s)
    BY DEF LookedUp
  <2>. QED BY <2>1
<1>5. 0..n \subseteq {k \in 0..n : I(r[k], k)}
  <2>. DEFINE S == {k \in 0..n : I(r[k], k)}
  <2>1. ASSUME NEW k \in 0..n-1, I(r[k], k) PROVE I(r[k+1], k + 1)
    <3>1. r[k+1] = Reference(r[k], refs[k+1])
      BY <1>1, <1>2
    <3>. HIDE DEF I
    <3>. QED BY <1>3, <2>1, <3>1
  <2>2. 0 \in S /\ \A k \in 0..n-1 : k \in S => k + 1 \in S
    <3>. HIDE DEF I
    <3>. QED BY <1>1, <1>2, <1>4, <2>1
  <2>3. 0..n \subseteq S
    <3>. HIDE DEF S
    <3>. QED BY <1>1, <2>2, BoundedInduction
  <2>. QED BY <2>3
<1>6. I(t, n)
  <2>. HIDE DEF I
  <2>. QED BY <1>1, <1>2, <1>5
<1>. QED BY <1>1, <1>6 DEF t
(* When e has an expression it is x, and the cells it refers to are in d. *)
Supported(d, x, n, p, e) ==
  e.exp /= None =>
    /\ Backs(x, n, p, e)
    /\ \A k \in DOMAIN x.f.refs :
         Has(d, Target(x, x.f.refs[k]).sheet, Target(x, x.f.refs[k]).at)

(* A formula of the file is put into its cell: what it refers to is there. *)
LEMMA ReadingBinds ==
  ASSUME NEW a, NEW b, NEW W, NEW R, NEW F, Reading(a, b, W, R, F),
         NEW n \in ToSet(b.order), NEW p, <<n, p>> \in W, NEW ent, IsEnt(ent),
         NEW x \in F, Supported(b, x, n, p, ent),
         NEW c, c = Changed(b, n, p, ent)
  PROVE  /\ Reading(a, c, W, R, F)
         /\ c.order = b.order /\ c.max = b.max /\ c.cur = b.cur
         /\ \A m, q : Has(c, m, q) <=> Has(b, m, q) \/ (m = n /\ q = p)
         /\ \A m \in ToSet(b.order) : \A q :
              Ent(c, m, q) = IF m = n /\ q = p THEN ent ELSE Ent(b, m, q)
<1>1. IsDoc(b) /\ Grown(a, b) /\ Within(a, b, W, R) /\ Backed(b, F)
  BY DEF Reading
<1>2. /\ IsDoc(c)
      /\ c.order = b.order /\ c.max = b.max /\ c.cur = b.cur
      /\ \A m, q : Has(c, m, q) <=> Has(b, m, q) \/ (m = n /\ q = p)
      /\ \A m \in ToSet(b.order) : \A q :
           Ent(c, m, q) = IF m = n /\ q = p THEN ent ELSE Ent(b, m, q)
  BY <1>1, ChangedEffect
<1>3. Grown(a, c)
  BY <1>1, <1>2 DEF Grown
<1>4. Within(a, c, W, R)
  <2>. SUFFICES ASSUME NEW m, NEW q, Has(c, m, q), <<m, q>> \notin W
                PROVE  \/ Has(a, m, q) /\ Ent(c, m, q) = Ent(a, m, q)
                       \/ ~Has(a, m, q) /\ <<m, q>> \in R /\ Ent(c, m, q) = BlankEnt
    BY DEF Within
  <2>1. m \in ToSet(b.order) /\ ~(m = n /\ q = p) /\ Has(b, m, q)
    BY <1>1, <1>2, HasSheet
  <2>. QED BY <1>1, <1>2, <2>1 DEF Within
<1>5. Backed(c, F)
  <2>. SUFFICES ASSUME NEW m \in ToSet(c.order), NEW q, Ent(c, m, q).exp /= None
                PROVE  /\ \A r \in ToSet(Ent(c, m, q).exp) : Has(c, r.sheet, r.at)
                       /\ \E y \in F : Backs(y, m, q, Ent(c, m, q))
    BY DEF Backed
  <2>1. m \in ToSet(b.order)
    BY <1>2
  <2>2. CASE m = n /\ q = p
    <3>1. Ent(c, m, q) = ent
      BY <1>2, <2>1, <2>2
    <3>2. /\ Backs(x, m, q, ent)
          /\ \A k \in DOMAIN x.f.refs :
               Has(b, Target(x, x.f.refs[k]).sheet, Target(x, x.f.refs[k]).at)
      BY <2>2, <3>1 DEF Supported
    <3>3. \A r \in ToSet(ent.exp) : Has(b, r.sheet, r.at)
      BY <3>2 DEF ToSet, Backs
    <3>. QED BY <1>2, <2>2, <3>1, <3>2, <3>3
  <2>3. CASE ~(m = n /\ q = p)
    <3>1. Ent(c, m, q) = Ent(b, m, q)
      BY <1>2, <2>1, <2>3
    <3>2. \A r \in ToSet(Ent(b, m, q).exp) : Has(b, r.sheet, r.at)
      BY <1>1, <2>1, <3>1 DEF Backed
    <3>3. \E y \in F : Backs(y, m, q, Ent(b, m, q))
      <4>1. Ent(b, m, q).exp /= None
        BY <3>1
      <4>. QED BY <1>1, <2>1, <4>1, Zenon DEF Backed
    <3>. QED BY <1>2, <3>1, <3>2, <3>3
  <2>. QED BY <2>2, <2>3
<1>. QED BY <1>2, <1>3, <1>4, <1>5 DEF Reading

(* From s to t cells at the places P of the current sheet were read. *)
Put(s, t, P) ==
  /\ IsX(t) /\ t.rc = s.rc /\ t.lost = s.lost
  /\ t.doc.cur = s.doc.cur /\ t.doc.order = s.doc.order
  /\ \A n, p : Has(s.doc, n, p) => Has(t.doc, n, p)
  /\ \A n \in ToSet(s.doc.order) : \A p :
       n /= s.doc.cur \/ p \notin P => Ent(t.doc, n, p) = Ent(s.doc, n, p)
  /\ \A n \in ToSet(s.doc.order) : \A k \in 1..2 : s.doc.max[n][k] <= t.doc.max[n][k]

(* What the cell c of the file makes of the one at its place of sheet n, from
   the document a to the document b. *)
Became(a, b, n, c) ==
  LET old == Ent(a, n, c.at)
      new == Ent(b, n, c.at)
  IN /\ Holds(c) = "nothing" => new = old
     /\ Holds(c) /= "nothing" => \A k \in 1..2 : c.at[k] <= b.max[n][k]
     /\ Holds(c) = "label" => new = Labelled(old, c.text)
     /\ Holds(c) = "number" => new = Valued(old, c.num)
     /\ Holds(c) = "date" => new = Valued(old, Date(c.num))
     /\ Holds(c) = "formula" /\ c.f.kind = "number" => new.val = c.f.num /\ "VAL" \in new.flag

LEMMA FormulaRead ==
  ASSUME NEW a, IsDoc(a), NEW W, NEW R, NEW F, NEW s, IsX(s), Reading(a, s.doc, W, R, F),
         s.doc.cur \in ToSet(s.doc.order),
         NEW c, c.at \in Nat \X Nat, <<s.doc.cur, c.at>> \in W, IsSeq(c.f.refs),
         Holds(c) = "formula",
         NEW x \in F, x.sheet = s.doc.cur, x.at = c.at, x.f = c.f,
         \A j \in DOMAIN c.f.refs :
           /\ Bound(s.doc, c.f.refs[j]).sheet \in ToSet(s.doc.order)
           /\ <<Bound(s.doc, c.f.refs[j]).sheet, c.f.refs[j].at>> \in R
  PROVE  /\ Put(s, Formula(s, c), {c.at})
         /\ Became(s.doc, Formula(s, c).doc, s.doc.cur, c)
         /\ Reading(a, Formula(s, c).doc, W, R, F)
<1>. DEFINE n == s.doc.cur
            refs == c.f.refs
            here == Ent(s.doc, n, c.at)
            m == [s EXCEPT !.doc = Stored(@, c.at, Ent(@, @.cur, c.at))]
            u == getAST(m, refs)
            d == u.doc
            old == Ent(d, d.cur, c.at)
            e == [val |-> IF c.f.kind = "number" THEN c.f.num ELSE old.val,
                  label |-> old.label,
                  formula |-> c.f.text,
                  exp |-> IF c.f.kind = "expression"
                          THEN [k \in DOMAIN refs |-> Bound(d, refs[k])] ELSE None,
                  flag |-> old.flag \cup {"VAL", "RP_FORMULA"}]
            t == Formula(s, c)
<1>1. t = [u EXCEPT !.doc = Changed(d, d.cur, c.at, e)]
  BY DEF Formula
<1>2. IsDoc(s.doc) /\ IsEnt(here)
  BY DEF Reading, IsDoc
<1>3. m = [doc |-> Stored(s.doc, c.at, here), rc |-> s.rc, lost |-> s.lost]
  BY DEF IsX
<1>. HIDE DEF t, u, m
<1>4. IsX(m) /\ m.doc = Stored(s.doc, c.at, here) /\ m.rc = s.rc /\ m.lost = s.lost
  BY <1>3 DEF IsX
<1>5. Reading(a, m.doc, W, R, F)
  <2>. HIDE DEF here
  <2>1. here.exp = Ent(s.doc, s.doc.cur, c.at).exp /\ here.formula = Ent(s.doc, s.doc.cur, c.at).formula
    BY DEF here
  <2>. QED BY <1>2, <1>4, <2>1, ReadingStores
<1>6. /\ m.doc.order = s.doc.order /\ m.doc.cur = n
      /\ \A y, q : Has(m.doc, y, q) <=> Has(s.doc, y, q) \/ (y = n /\ q = c.at)
      /\ \A y \in ToSet(s.doc.order) : \A q : Ent(m.doc, y, q) = Ent(s.doc, y, q)
      /\ \A y \in ToSet(s.doc.order) : \A k \in 1..2 : s.doc.max[y][k] <= m.doc.max[y][k]
      /\ \A k \in 1..2 : c.at[k] <= m.doc.max[n][k]
  <2>1. PICK b : b = s.doc
    OBVIOUS
  <2>2. PICK g : g = m.doc
    OBVIOUS
  <2>3. IsDoc(b) /\ b.cur \in ToSet(b.order) /\ IsEnt(here) /\ g = Stored(b, c.at, here)
    BY <1>2, <1>4, <2>1, <2>2
  <2>4. /\ g.order = b.order /\ g.cur = b.cur
        /\ \A y, q : Has(g, y, q) <=> Has(b, y, q) \/ (y = b.cur /\ q = c.at)
        /\ \A y \in ToSet(b.order) : \A q :
             Ent(g, y, q) = IF y = b.cur /\ q = c.at THEN here ELSE Ent(b, y, q)
        /\ \A y \in ToSet(b.order) : \A k \in 1..2 : b.max[y][k] <= g.max[y][k]
        /\ \A k \in 1..2 : c.at[k] <= g.max[b.cur][k]
    <3>. HIDE DEF here
    <3>. QED BY <2>3, StoredEffect
  <2>. QED BY <2>1, <2>2, <2>4
<1>7. /\ LookedUp(m, u) /\ Reading(a, d, W, R, F)
      /\ \A j \in DOMAIN refs : Has(d, Bound(m.doc, refs[j]).sheet, refs[j].at)
  <2>1. \A j \in DOMAIN refs : Bound(m.doc, refs[j]) = Bound(s.doc, refs[j])
    BY <1>6 DEF Bound
  <2>2. \A j \in DOMAIN refs : /\ Bound(m.doc, refs[j]).sheet \in ToSet(m.doc.order)
                               /\ <<Bound(m.doc, refs[j]).sheet, refs[j].at>> \in R
    BY <1>6, <2>1
  <2>. HIDE DEF refs
  <2>3. IsSeq(refs)
    BY DEF refs
  <2>. QED BY <1>4, <1>5, <2>2, <2>3, ReferencesRead DEF u
<1>8. d.cur = n /\ d.order = s.doc.order /\ old = here /\ d.max = m.doc.max
  BY <1>6, <1>7 DEF LookedUp
<1>9. IsEnt(e) /\ e.formula = c.f.text
  BY <1>2, <1>8 DEF IsEnt
<1>10. Supported(d, x, n, c.at, e)
  <2>1. x.f = c.f /\ x.sheet = n /\ x.at = c.at
    OBVIOUS
  <2>2. \A k \in DOMAIN refs : /\ Target(x, refs[k]) = Bound(d, refs[k])
                               /\ Target(x, refs[k]) = Bound(m.doc, refs[k])
                               /\ Target(x, refs[k]).at = refs[k].at
    BY <1>6, <1>8, <2>1 DEF Target, Bound
  <2>3. e.exp /= None => e.exp = [k \in DOMAIN refs |-> Bound(d, refs[k])]
    OBVIOUS
  <2>. HIDE DEF e, d, m
  <2>4. \A k \in DOMAIN refs : Has(d, Target(x, refs[k]).sheet, Target(x, refs[k]).at)
    BY <1>7, <2>2
  <2>5. [k \in DOMAIN refs |-> Bound(d, refs[k])] = [k \in DOMAIN refs |-> Target(x, refs[k])]
    BY <2>2
  <2>. QED BY <1>9, <2>1, <2>3, <2>4, <2>5 DEF Backs, Supported
<1>11. /\ Reading(a, t.doc, W, R, F)
       /\ t.doc.order = d.order /\ t.doc.max = d.max /\ t.doc.cur = d.cur
       /\ \A y, q : Has(t.doc, y, q) <=> Has(d, y, q) \/ (y = n /\ q = c.at)
       /\ \A y \in ToSet(d.order) : \A q :
            Ent(t.doc, y, q) = IF y = n /\ q = c.at THEN e ELSE Ent(d, y, q)
  <2>. HIDE DEF e
  <2>1. x.f = c.f /\ x.sheet = n /\ x.at = c.at
    OBVIOUS
  <2>2. t = [doc |-> Changed(d, n, c.at, e), rc |-> u.rc, lost |-> u.lost]
    <3>1. IsX(u)
      BY <1>7 DEF LookedUp
    <3>. QED BY <1>1, <1>8, <3>1 DEF IsX
  <2>3. t.doc = Changed(d, n, c.at, e) /\ n \in ToSet(d.order)
    BY <1>8, <2>2
  <2>. HIDE DEF d, n
  <2>4. <<n, c.at>> \in W
    BY DEF n
  <2>5. PICK g : g = t.doc
    OBVIOUS
  <2>6. /\ Reading(a, g, W, R, F)
        /\ g.order = d.order /\ g.max = d.max /\ g.cur = d.cur
        /\ \A y, q : Has(g, y, q) <=> Has(d, y, q) \/ (y = n /\ q = c.at)
        /\ \A y \in ToSet(d.order) : \A q :
             Ent(g, y, q) = IF y = n /\ q = c.at THEN e ELSE Ent(d, y, q)
    <3>1. g = Changed(d, n, c.at, e)
      BY <2>3, <2>5
    <3>2. PICK p : p = c.at
      OBVIOUS
    <3>3. <<n, p>> \in W /\ g = Changed(d, n, p, e)
      BY <2>4, <3>1, <3>2
    <3>4. Supported(d, x, n, p, e)
      BY <1>10, <3>2
    <3>5. /\ Reading(a, g, W, R, F)
          /\ g.order = d.order /\ g.max = d.max /\ g.cur = d.cur
          /\ \A y, q : Has(g, y, q) <=> Has(d, y, q) \/ (y = n /\ q = p)
          /\ \A y \in ToSet(d.order) : \A q :
               Ent(g, y, q) = IF y = n /\ q = p THEN e ELSE Ent(d, y, q)
      BY <1>7, <1>9, <2>3, <3>3, <3>4, ReadingBinds
    <3>. QED BY <3>2, <3>5
  <2>. QED BY <2>5, <2>6
<1>12. t.rc = s.rc /\ t.lost = s.lost /\ IsX(t)
  <2>1. IsX(u) /\ u.rc = m.rc /\ u.lost = m.lost
    BY <1>7 DEF LookedUp
  <2>. HIDE DEF e
  <2>2. t = [doc |-> Changed(d, d.cur, c.at, e), rc |-> u.rc, lost |-> u.lost]
    BY <1>1, <2>1 DEF IsX
  <2>. QED BY <1>4, <2>1, <2>2 DEF IsX
<1>13. Put(s, t, {c.at})
  <2>. HIDE DEF e, d, n, here
  <2>1. \A y, q : Has(m.doc, y, q) => Has(d, y, q)
    BY <1>7 DEF LookedUp, d
  <2>2. \A y \in ToSet(s.doc.order) : \A q : Ent(d, y, q) = Ent(s.doc, y, q)
    BY <1>6, <1>7 DEF LookedUp, d
  <2>3. \A y \in ToSet(s.doc.order) : \A q :
           y /= n \/ q /= c.at => Ent(t.doc, y, q) = Ent(s.doc, y, q)
    BY <1>8, <1>11, <2>2
  <2>. QED BY <1>6, <1>8, <1>11, <1>12, <2>1, <2>3 DEF Put, n
<1>14. Became(s.doc, t.doc, s.doc.cur, c)
  <2>1. Ent(t.doc, n, c.at) = e
    <3>. HIDE DEF e, d, n
    <3>. QED BY <1>8, <1>11 DEF n
  <2>2. c.f.kind = "number" => e.val = c.f.num /\ "VAL" \in e.flag
    OBVIOUS
  <2>3. \A k \in 1..2 : c.at[k] <= t.doc.max[n][k]
    <3>. HIDE DEF e, d, n
    <3>. QED BY <1>6, <1>8, <1>11
  <2>. HIDE DEF e
  <2>. QED BY <2>1, <2>2, <2>3 DEF Became
<1>. QED BY <1>11, <1>13, <1>14 DEF t
(* What a document may take from the cell c of sheet n: its place, and when
   it is a formula, the formula and the places it refers to. *)
Allowed(names, n, c, W, R, F) ==
  /\ c.at \in Nat \X Nat
  /\ Holds(c) /= "nothing" => <<n, c.at>> \in W
  /\ Holds(c) = "formula" =>
       /\ IsSeq(c.f.refs)
       /\ \E x \in F : x.sheet = n /\ x.at = c.at /\ x.f = c.f
       /\ \A j \in DOMAIN c.f.refs :
            /\ c.f.refs[j].sheet \in names \cup {None}
            /\ <<IF c.f.refs[j].sheet = None THEN n ELSE c.f.refs[j].sheet, c.f.refs[j].at>> \in R

LEMMA StoredRead ==
  ASSUME NEW a, IsDoc(a), NEW W, NEW R, NEW F, NEW s, IsX(s), Reading(a, s.doc, W, R, F),
         s.doc.cur \in ToSet(s.doc.order),
         NEW p, p \in Nat \X Nat, <<s.doc.cur, p>> \in W,
         NEW e, IsEnt(e),
         e.exp = Ent(s.doc, s.doc.cur, p).exp, e.formula = Ent(s.doc, s.doc.cur, p).formula,
         NEW t, IsX(t), t.doc = Stored(s.doc, p, e), t.rc = s.rc, t.lost = s.lost
  PROVE  /\ Put(s, t, {p})
         /\ Ent(t.doc, s.doc.cur, p) = e
         /\ \A k \in 1..2 : p[k] <= t.doc.max[s.doc.cur][k]
         /\ Reading(a, t.doc, W, R, F)
<1>1. PICK b : b = s.doc
  OBVIOUS
<1>2. PICK g : g = t.doc
  OBVIOUS
<1>3. /\ Reading(a, b, W, R, F) /\ b.cur \in ToSet(b.order) /\ <<b.cur, p>> \in W
      /\ e.exp = Ent(b, b.cur, p).exp /\ e.formula = Ent(b, b.cur, p).formula
      /\ g = Stored(b, p, e)
  BY <1>1, <1>2
<1>4. IsDoc(b)
  BY <1>3 DEF Reading
<1>5. Reading(a, g, W, R, F)
  BY <1>3, ReadingStores
<1>6. /\ g.order = b.order /\ g.cur = b.cur
      /\ \A m, q : Has(g, m, q) <=> Has(b, m, q) \/ (m = b.cur /\ q = p)
      /\ \A m \in ToSet(b.order) : \A q :
           Ent(g, m, q) = IF m = b.cur /\ q = p THEN e ELSE Ent(b, m, q)
      /\ \A m \in ToSet(b.order) : \A k \in 1..2 : b.max[m][k] <= g.max[m][k]
      /\ \A k \in 1..2 : p[k] <= g.max[b.cur][k]
  BY <1>3, <1>4, StoredEffect
<1>7. Put(s, t, {p})
  BY <1>1, <1>2, <1>6 DEF Put
<1>. QED BY <1>1, <1>2, <1>3, <1>5, <1>6, <1>7

LEMMA CellRead ==
  ASSUME NEW a, IsDoc(a), NEW W, NEW R, NEW F, NEW s, IsX(s), Reading(a, s.doc, W, R, F),
         s.doc.cur \in ToSet(s.doc.order),
         NEW c, Allowed(ToSet(s.doc.order), s.doc.cur, c, W, R, F)
  PROVE  /\ Put(s, ReadCell(s, c), {c.at})
         /\ Became(s.doc, ReadCell(s, c).doc, s.doc.cur, c)
         /\ Reading(a, ReadCell(s, c).doc, W, R, F)
<1>. DEFINE t == ReadCell(s, c)
            old == Ent(s.doc, s.doc.cur, c.at)
<1>1. IsDoc(s.doc) /\ IsEnt(old)
  BY DEF Reading, IsDoc
<1>2. c.at \in Nat \X Nat
  BY DEF Allowed
<1>3. Holds(c) \in {"label", "number", "date", "formula", "nothing"}
  BY DEF Holds
<1>4. ASSUME NEW e, IsEnt(e), e.exp = old.exp, e.formula = old.formula,
             Holds(c) /= "nothing", t = [s EXCEPT !.doc = Stored(@, c.at, e)]
      PROVE  /\ Put(s, t, {c.at}) /\ Ent(t.doc, s.doc.cur, c.at) = e
             /\ \A k \in 1..2 : c.at[k] <= t.doc.max[s.doc.cur][k]
             /\ Reading(a, t.doc, W, R, F)
  <2>. HIDE DEF t
  <2>1. IsX(t) /\ t.doc = Stored(s.doc, c.at, e) /\ t.rc = s.rc /\ t.lost = s.lost
    BY <1>4 DEF IsX
  <2>2. PICK p : p = c.at
    OBVIOUS
  <2>3. /\ p \in Nat \X Nat /\ <<s.doc.cur, p>> \in W /\ t.doc = Stored(s.doc, p, e)
        /\ e.exp = Ent(s.doc, s.doc.cur, p).exp /\ e.formula = Ent(s.doc, s.doc.cur, p).formula
    BY <1>2, <1>4, <2>1, <2>2 DEF Allowed
  <2>4. IsEnt(e) /\ IsX(t) /\ t.rc = s.rc /\ t.lost = s.lost
    BY <1>4, <2>1
  <2>. HIDE DEF old
  <2>5. /\ Put(s, t, {p}) /\ Ent(t.doc, s.doc.cur, p) = e
        /\ \A k \in 1..2 : p[k] <= t.doc.max[s.doc.cur][k]
        /\ Reading(a, t.doc, W, R, F)
    BY <2>3, <2>4, StoredRead
  <2>. QED BY <2>2, <2>5
<1>5. CASE Holds(c) = "label"
  <2>1. t = [s EXCEPT !.doc = Stored(@, c.at, Labelled(old, c.text))]
    BY <1>5 DEF ReadCell
  <2>. HIDE DEF t, old
  <2>2. PICK e : e = Labelled(old, c.text)
    OBVIOUS
  <2>3. IsEnt(e) /\ e.exp = old.exp /\ e.formula = old.formula
    BY <1>1, <2>2, LabelledEnt
  <2>4. /\ Put(s, t, {c.at}) /\ Ent(t.doc, s.doc.cur, c.at) = e
        /\ \A k \in 1..2 : c.at[k] <= t.doc.max[s.doc.cur][k]
        /\ Reading(a, t.doc, W, R, F)
    BY <1>4, <1>5, <2>1, <2>2, <2>3
  <2>. QED BY <1>5, <2>2, <2>4 DEF t, old, Became
<1>6. CASE Holds(c) \in {"number", "date"}
  <2>. DEFINE v == IF Holds(c) = "number" THEN c.num ELSE Date(c.num)
  <2>1. t = [s EXCEPT !.doc = Stored(@, c.at, Valued(old, v))]
    BY <1>6 DEF ReadCell
  <2>. HIDE DEF t, old, v
  <2>2. PICK e : e = Valued(old, v)
    OBVIOUS
  <2>3. IsEnt(e) /\ e.exp = old.exp /\ e.formula = old.formula
    BY <1>1, <2>2, ValuedEnt
  <2>4. /\ Put(s, t, {c.at}) /\ Ent(t.doc, s.doc.cur, c.at) = e
        /\ \A k \in 1..2 : c.at[k] <= t.doc.max[s.doc.cur][k]
        /\ Reading(a, t.doc, W, R, F)
    BY <1>4, <1>6, <2>1, <2>2, <2>3
  <2>. QED BY <1>6, <2>2, <2>4 DEF t, old, v, Became
<1>7. CASE Holds(c) = "formula"
  <2>1. t = Formula(s, c)
    BY <1>7 DEF ReadCell
  <2>2. <<s.doc.cur, c.at>> \in W /\ IsSeq(c.f.refs)
    BY <1>7 DEF Allowed
  <2>3. PICK x \in F : x.sheet = s.doc.cur /\ x.at = c.at /\ x.f = c.f
    BY <1>7 DEF Allowed
  <2>4. \A j \in DOMAIN c.f.refs :
           /\ Bound(s.doc, c.f.refs[j]).sheet \in ToSet(s.doc.order)
           /\ <<Bound(s.doc, c.f.refs[j]).sheet, c.f.refs[j].at>> \in R
    BY <1>7 DEF Allowed, Bound
  <2>. HIDE DEF t
  <2>5. /\ Put(s, Formula(s, c), {c.at}) /\ Became(s.doc, Formula(s, c).doc, s.doc.cur, c)
        /\ Reading(a, Formula(s, c).doc, W, R, F)
    BY <1>2, <1>7, <2>2, <2>3, <2>4, FormulaRead
  <2>. QED BY <2>1, <2>5 DEF t
<1>8. CASE Holds(c) = "nothing"
  <2>1. t = s
    BY <1>8 DEF ReadCell
  <2>2. \A n \in ToSet(s.doc.order) : \A k \in 1..2 : s.doc.max[n][k] \in Nat
    <3>1. \A n \in ToSet(s.doc.order) : s.doc.max[n] \in Nat \X Nat
      BY <1>1 DEF IsDoc
    <3>. QED BY <3>1
  <2>3. Put(s, s, {c.at})
    BY <2>2 DEF Put
  <2>4. Became(s.doc, s.doc, s.doc.cur, c)
    BY <1>8 DEF Became
  <2>. QED BY <2>1, <2>3, <2>4
<1>. QED BY <1>3, <1>4, <1>5, <1>6, <1>7, <1>8
LEMMA PutTransitive ==
  ASSUME NEW s, NEW t, NEW u, NEW P, NEW Q, Put(s, t, P), Put(t, u, Q),
         IsDoc(s.doc), IsDoc(t.doc), IsDoc(u.doc)
  PROVE  Put(s, u, P \cup Q)
<1>1. \A n \in ToSet(s.doc.order) : \A k \in 1..2 :
         /\ s.doc.max[n][k] \in Nat /\ t.doc.max[n][k] \in Nat /\ u.doc.max[n][k] \in Nat
         /\ s.doc.max[n][k] <= t.doc.max[n][k] /\ t.doc.max[n][k] <= u.doc.max[n][k]
  BY ExtentsAreNumbers DEF Put
<1>2. \A n \in ToSet(s.doc.order) : \A k \in 1..2 : s.doc.max[n][k] <= u.doc.max[n][k]
  BY <1>1
<1>3. \A n \in ToSet(s.doc.order) : \A p :
         n /= s.doc.cur \/ p \notin P \cup Q => Ent(u.doc, n, p) = Ent(s.doc, n, p)
  BY DEF Put
<1>. QED BY <1>2, <1>3 DEF Put

LEMMA BecameStays ==
  ASSUME NEW a, NEW b, NEW d, IsDoc(b), IsDoc(d),
         NEW n \in ToSet(b.order) \cap ToSet(d.order),
         \A k \in 1..2 : b.max[n][k] <= d.max[n][k],
         NEW c, c.at \in Nat \X Nat, Ent(d, n, c.at) = Ent(b, n, c.at),
         Became(a, b, n, c)
  PROVE  Became(a, d, n, c)
<1>1. \A k \in 1..2 : c.at[k] <= b.max[n][k] => c.at[k] <= d.max[n][k]
  <2>1. \A k \in 1..2 : b.max[n][k] \in Nat /\ d.max[n][k] \in Nat
    BY ExtentsAreNumbers
  <2>2. \A k \in 1..2 : c.at[k] \in Nat
    OBVIOUS
  <2>. QED BY <2>1, <2>2
<1>. QED BY <1>1 DEF Became

(* A part read: every cell of it has become what the file says, and no other
   place of the sheet is touched. *)
LEMMA SheetDataRead ==
  ASSUME NEW a, IsDoc(a), NEW W, NEW R, NEW F, NEW s, IsX(s), Reading(a, s.doc, W, R, F),
         s.doc.cur \in ToSet(s.doc.order),
         NEW cells, IsSeq(cells),
         \A j \in DOMAIN cells : Allowed(ToSet(s.doc.order), s.doc.cur, cells[j], W, R, F),
         \A i, j \in DOMAIN cells : cells[i].at = cells[j].at => i = j
  PROVE  /\ Put(s, get_sheet_data(s, cells), {cells[j].at : j \in DOMAIN cells})
         /\ \A j \in DOMAIN cells : Became(s.doc, get_sheet_data(s, cells).doc, s.doc.cur, cells[j])
         /\ Reading(a, get_sheet_data(s, cells).doc, W, R, F)
<1>. DEFINE n == Len(cells)
            t == get_sheet_data(s, cells)
            Places(k) == {cells[j].at : j \in 1..k}
<1>1. n \in Nat /\ DOMAIN cells = 1..n
  BY DEF IsSeq
<1>2. PICK r : r[0] = s /\ (\A k \in 1..n : r[k] = ReadCell(r[k-1], cells[k])) /\ t = r[n]
  <2>. HIDE DEF n
  <2>. QED BY SheetDataLoop DEF n
<1>. HIDE DEF n, t
<1>. DEFINE I(b, k) == /\ Put(s, b, Places(k)) /\ Reading(a, b.doc, W, R, F)
                       /\ \A j \in 1..k : Became(s.doc, b.doc, s.doc.cur, cells[j])
<1>3. ASSUME NEW k \in 0..n-1, NEW b, I(b, k) PROVE I(ReadCell(b, cells[k+1]), k + 1)
  <2>. DEFINE c == cells[k+1]
              u == ReadCell(b, c)
  <2>1. k + 1 \in DOMAIN cells /\ k \in Nat
    BY <1>1
  <2>2. Put(s, b, Places(k)) /\ Reading(a, b.doc, W, R, F) /\ IsX(b)
        /\ b.doc.cur = s.doc.cur /\ b.doc.order = s.doc.order
    BY <1>3 DEF Put
  <2>3. Allowed(ToSet(s.doc.order), s.doc.cur, c, W, R, F) /\ c.at \in Nat \X Nat
    BY <2>1 DEF Allowed
  <2>. HIDE DEF c, u
  <2>4. Put(b, u, {c.at}) /\ Became(b.doc, u.doc, b.doc.cur, c) /\ Reading(a, u.doc, W, R, F)
    <3>. HIDE DEF I
    <3>1. Allowed(ToSet(b.doc.order), b.doc.cur, c, W, R, F) /\ b.doc.cur \in ToSet(b.doc.order)
      BY <2>2, <2>3
    <3>. QED BY <2>2, <3>1, CellRead DEF u
  <2>5. IsDoc(s.doc) /\ IsDoc(b.doc) /\ IsDoc(u.doc)
    BY <2>2, <2>4 DEF Reading
  <2>6. Put(s, u, Places(k + 1))
    <3>1. Places(k + 1) = Places(k) \cup {c.at}
      <4>1. 1..k+1 = 1..k \cup {k+1}
        BY <2>1
      <4>. QED BY <4>1 DEF c
    <3>. HIDE DEF I, Places
    <3>2. Put(s, u, Places(k) \cup {c.at})
      BY <2>2, <2>4, <2>5, PutTransitive
    <3>. QED BY <3>1, <3>2
  <2>7. Became(s.doc, u.doc, s.doc.cur, c)
    <3>1. c.at \notin Places(k)
      BY <1>1, <2>1 DEF c
    <3>. HIDE DEF Places, I
    <3>2. Ent(b.doc, s.doc.cur, c.at) = Ent(s.doc, s.doc.cur, c.at)
      BY <2>2, <3>1 DEF Put
    <3>. QED BY <2>2, <2>4, <3>2 DEF Became
  <2>8. ASSUME NEW j \in 1..k PROVE Became(s.doc, u.doc, s.doc.cur, cells[j])
    <3>1. Became(s.doc, b.doc, s.doc.cur, cells[j])
      BY <1>3
    <3>2. cells[j].at \notin {c.at} /\ cells[j].at \in Nat \X Nat
      <4>1. j \in DOMAIN cells /\ j /= k + 1
        BY <1>1
      <4>. QED BY <2>1, <4>1 DEF Allowed, c
    <3>. HIDE DEF Places, I
    <3>3. PICK x : x = cells[j]
      OBVIOUS
    <3>4. /\ s.doc.cur \in ToSet(b.doc.order) \cap ToSet(u.doc.order)
          /\ \A i \in 1..2 : b.doc.max[s.doc.cur][i] <= u.doc.max[s.doc.cur][i]
          /\ Ent(u.doc, s.doc.cur, x.at) = Ent(b.doc, s.doc.cur, x.at)
      BY <2>2, <2>4, <3>2, <3>3 DEF Put
    <3>5. Became(s.doc, u.doc, s.doc.cur, x)
      BY <2>5, <3>1, <3>2, <3>3, <3>4, BecameStays
    <3>. QED BY <3>3, <3>5
  <2>9. \A j \in 1..k+1 : Became(s.doc, u.doc, s.doc.cur, cells[j])
    BY <2>1, <2>7, <2>8 DEF c
  <2>. HIDE DEF Places
  <2>10. I(u, k + 1)
    BY <2>4, <2>6, <2>9
  <2>. HIDE DEF I
  <2>. QED BY <2>10 DEF u, c
<1>4. I(s, 0)
  <2>1. Put(s, s, Places(0))
    <3>1. \A m \in ToSet(s.doc.order) : \A k \in 1..2 : s.doc.max[m][k] \in Nat
      BY ExtentsAreNumbers DEF Reading
    <3>. HIDE DEF Places
    <3>. QED BY <3>1 DEF Put
  <2>. HIDE DEF Places
  <2>. QED BY <2>1
<1>5. 0..n \subseteq {k \in 0..n : I(r[k], k)}
  <2>. DEFINE S == {k \in 0..n : I(r[k], k)}
  <2>1. ASSUME NEW k \in 0..n-1, I(r[k], k) PROVE I(r[k+1], k + 1)
    <3>1. r[k+1] = ReadCell(r[k], cells[k+1])
      BY <1>1, <1>2
    <3>. HIDE DEF I
    <3>. QED BY <1>3, <2>1, <3>1
  <2>2. 0 \in S /\ \A k \in 0..n-1 : k \in S => k + 1 \in S
    <3>. HIDE DEF I
    <3>. QED BY <1>1, <1>2, <1>4, <2>1
  <2>3. 0..n \subseteq S
    <3>. HIDE DEF S
    <3>. QED BY <1>1, <2>2, BoundedInduction
  <2>. QED BY <2>3
<1>6. I(t, n)
  <2>. HIDE DEF I
  <2>. QED BY <1>1, <1>2, <1>5
<1>7. Places(n) = {cells[j].at : j \in DOMAIN cells}
  BY <1>1
<1>. HIDE DEF Places
<1>. QED BY <1>1, <1>6, <1>7 DEF t
(* Another sheet becomes the current one. *)
LEMMA ReadingSelects ==
  ASSUME NEW a, NEW b, NEW W, NEW R, NEW F, Reading(a, b, W, R, F), NEW n \in ToSet(b.order),
         NEW c, c = [b EXCEPT !.cur = n]
  PROVE  /\ Reading(a, c, W, R, F)
         /\ c.cur = n /\ c.order = b.order /\ c.max = b.max
         /\ \A m, p : Has(c, m, p) <=> Has(b, m, p)
         /\ \A m, p : Ent(c, m, p) = Ent(b, m, p)
<1>1. IsDoc(b) /\ Grown(a, b) /\ Within(a, b, W, R) /\ Backed(b, F)
  BY DEF Reading
<1>2. c = [order |-> b.order, cells |-> b.cells, max |-> b.max, cur |-> n]
  BY <1>1 DEF IsDoc
<1>3. /\ c.order = b.order /\ c.cells = b.cells /\ c.max = b.max /\ c.cur = n
      /\ c = [order |-> c.order, cells |-> c.cells, max |-> c.max, cur |-> c.cur]
  BY <1>2
<1>4. /\ \A m, p : Has(c, m, p) <=> Has(b, m, p)
      /\ \A m, p : Ent(c, m, p) = Ent(b, m, p)
  BY <1>3 DEF Has, Ent
<1>5. IsDoc(c)
  <2>1. \A m \in ToSet(b.order) : \A p : IsEnt(Ent(c, m, p))
    BY <1>1, <1>4 DEF IsDoc
  <2>. QED BY <1>1, <1>3, <2>1 DEF IsDoc
<1>6. Grown(a, c) /\ Within(a, c, W, R)
  BY <1>1, <1>3, <1>4 DEF Grown, Within
<1>7. Backed(c, F)
  <2>1. ToSet(c.order) = ToSet(b.order) /\ \A m, p : Has(b, m, p) => Has(c, m, p)
    BY <1>3, <1>4
  <2>2. \A m \in ToSet(b.order) : \A p :
           Ent(c, m, p).exp = Ent(b, m, p).exp /\ Ent(c, m, p).formula = Ent(b, m, p).formula
    BY <1>4
  <2>3. IsDoc(b) /\ Backed(b, F)
    BY <1>1
  <2>. QED BY ONLY <2>1, <2>2, <2>3, BackedKept
<1>. QED BY <1>3, <1>4, <1>5, <1>6, <1>7 DEF Reading

(* The first loop: all sheets are there, and nothing else has changed. *)
LEMMA SheetsCreated ==
  ASSUME NEW a, IsDoc(a), NEW W, NEW R, NEW F, Reading(a, a, W, R, F),
         NEW sheets, IsSeq(sheets)
  PROVE  /\ Reading(a, Created(a, sheets), W, R, F)
         /\ \A j \in DOMAIN sheets : sheets[j].name \in ToSet(Created(a, sheets).order)
<1>. DEFINE n == Len(sheets)
            t == Created(a, sheets)
<1>1. n \in Nat /\ DOMAIN sheets = 1..n
  BY DEF IsSeq
<1>2. PICK r : r[0] = a /\ (\A k \in 1..n : r[k] = NewSheet(r[k-1], sheets[k].name)) /\ t = r[n]
  <2>. HIDE DEF n
  <2>. QED BY CreatedLoop DEF n
<1>. HIDE DEF n, t
<1>. DEFINE I(b, k) == /\ Reading(a, b, W, R, F)
                       /\ \A j \in 1..k : sheets[j].name \in ToSet(b.order)
<1>3. ASSUME NEW k \in 0..n-1, NEW b, I(b, k) PROVE I(NewSheet(b, sheets[k+1].name), k + 1)
  <2>1. PICK c : c = NewSheet(b, sheets[k+1].name)
    OBVIOUS
  <2>2. Reading(a, c, W, R, F) /\ ToSet(c.order) = ToSet(b.order) \cup {sheets[k+1].name}
    BY <1>3, <2>1, ReadingOpens
  <2>3. \A j \in 1..k+1 : sheets[j].name \in ToSet(c.order)
    BY <1>3, <2>2
  <2>4. I(c, k + 1)
    BY <2>2, <2>3
  <2>. HIDE DEF I
  <2>. QED BY <2>1, <2>4
<1>4. 0..n \subseteq {k \in 0..n : I(r[k], k)}
  <2>. DEFINE S == {k \in 0..n : I(r[k], k)}
  <2>1. I(r[0], 0)
    BY <1>2
  <2>2. ASSUME NEW k \in 0..n-1, I(r[k], k) PROVE I(r[k+1], k + 1)
    <3>1. r[k+1] = NewSheet(r[k], sheets[k+1].name)
      BY <1>1, <1>2
    <3>. HIDE DEF I
    <3>. QED BY <1>3, <2>2, <3>1
  <2>3. 0 \in S /\ \A k \in 0..n-1 : k \in S => k + 1 \in S
    <3>. HIDE DEF I
    <3>. QED BY <1>1, <2>1, <2>2
  <2>4. 0..n \subseteq S
    <3>. HIDE DEF S
    <3>. QED BY <1>1, <2>3, BoundedInduction
  <2>. QED BY <2>4
<1>5. I(t, n)
  <2>. HIDE DEF I
  <2>. QED BY <1>1, <1>2, <1>4
<1>. QED BY <1>1, <1>5 DEF t

(* From g to d those of the sheets T of the workbook that come up to k were
   read. *)
ReadSheets(g, d, sheets, T, k) ==
  /\ d.order = g.order
  /\ \A n \in ToSet(g.order) : \A i \in 1..2 : g.max[n][i] <= d.max[n][i]
  /\ \A n \in ToSet(g.order) : \A p :
       (\A j \in T : j <= k /\ n = sheets[j].name => p \notin {c.at : c \in ToSet(sheets[j].cells)})
         => Ent(d, n, p) = Ent(g, n, p)
  /\ \A j \in T : j <= k => \A c \in ToSet(sheets[j].cells) : Became(g, d, sheets[j].name, c)

(* The workbook has its sheets in g, and every cell of sh may be taken. *)
HasSheets(g, sheets) ==
  /\ IsDoc(g) /\ IsBook(sheets)
  /\ \A j \in DOMAIN sheets : sheets[j].name \in ToSet(g.order)

MayTake(N, sh, W, R, F) == \A c \in ToSet(sh.cells) : Allowed(N, sh.name, c, W, R, F)

(* What the reader returns is left as it is. *)
SameFlags(s, t) == t.rc = s.rc /\ t.lost = s.lost

LEMMA PartRead ==
  ASSUME NEW a, IsDoc(a), NEW W, NEW R, NEW F, NEW g, NEW sheets, HasSheets(g, sheets),
         NEW T, T \subseteq DOMAIN sheets \cap Nat,
         NEW k \in Nat, NEW i, i = k + 1, i \in T,
         MayTake(ToSet(g.order), sheets[i], W, R, F),
         NEW s, IsX(s), Reading(a, s.doc, W, R, F), s.doc.cur = sheets[i].name,
         ReadSheets(g, s.doc, sheets, T, k)
  PROVE  LET t == get_sheet_data(s, sheets[i].cells)
         IN /\ ReadSheets(g, t.doc, sheets, T, i)
            /\ Reading(a, t.doc, W, R, F) /\ IsX(t) /\ SameFlags(s, t)
<1>t. PICK t : t = get_sheet_data(s, sheets[i].cells)
  OBVIOUS
<1>. DEFINE name == sheets[i].name
            cells == sheets[i].cells
            P == {cells[j].at : j \in DOMAIN cells}
            d == s.doc
            e == t.doc
<1>0. /\ IsDoc(g) /\ IsBook(sheets)
      /\ \A j \in DOMAIN sheets : sheets[j].name \in ToSet(g.order)
      /\ \A c \in ToSet(cells) : Allowed(ToSet(g.order), name, c, W, R, F)
  BY DEF HasSheets, MayTake
<1>1. /\ \A j, l \in DOMAIN sheets : sheets[j].name = sheets[l].name => j = l
      /\ IsSeq(cells)
      /\ \A j, l \in DOMAIN cells : cells[j].at = cells[l].at => j = l
      /\ \A j \in DOMAIN sheets : \A c \in ToSet(sheets[j].cells) : c.at \in Nat \X Nat
  BY <1>0 DEF IsBook
<1>2. /\ d.order = g.order /\ d.cur = name /\ name \in ToSet(d.order)
      /\ \A n \in ToSet(g.order) : \A m \in 1..2 : g.max[n][m] <= d.max[n][m]
      /\ \A n \in ToSet(g.order) : \A p :
           (\A j \in T : j <= k /\ n = sheets[j].name => p \notin {c.at : c \in ToSet(sheets[j].cells)})
             => Ent(d, n, p) = Ent(g, n, p)
      /\ \A j \in T : j <= k => \A c \in ToSet(sheets[j].cells) : Became(g, d, sheets[j].name, c)
  BY <1>0 DEF ReadSheets
<1>3. ToSet(cells) = {cells[j] : j \in DOMAIN cells}
  BY DEF ToSet
<1>4. \A j \in DOMAIN cells : Allowed(ToSet(s.doc.order), s.doc.cur, cells[j], W, R, F)
  BY <1>0, <1>2, <1>3
<1>5. /\ Put(s, t, P)
      /\ \A j \in DOMAIN cells : Became(d, e, name, cells[j])
      /\ Reading(a, e, W, R, F)
  <2>1. PICK x : x = cells
    OBVIOUS
  <2>2. /\ IsSeq(x)
        /\ \A j \in DOMAIN x : Allowed(ToSet(s.doc.order), s.doc.cur, x[j], W, R, F)
        /\ \A j, l \in DOMAIN x : x[j].at = x[l].at => j = l
        /\ t = get_sheet_data(s, x)
        /\ s.doc.cur \in ToSet(s.doc.order)
    BY <1>t, <1>1, <1>2, <1>4, <2>1
  <2>3. /\ Put(s, get_sheet_data(s, x), {x[j].at : j \in DOMAIN x})
        /\ \A j \in DOMAIN x : Became(s.doc, get_sheet_data(s, x).doc, s.doc.cur, x[j])
        /\ Reading(a, get_sheet_data(s, x).doc, W, R, F)
    <3>. HIDE DEF name, cells, P, d, e
    <3>. QED BY <2>2, SheetDataRead
  <2>. QED BY <1>2, <2>1, <2>2, <2>3
<1>6. /\ IsX(t) /\ t.rc = s.rc /\ t.lost = s.lost /\ e.order = g.order
      /\ \A n \in ToSet(g.order) : \A p : n /= name \/ p \notin P => Ent(e, n, p) = Ent(d, n, p)
      /\ \A n \in ToSet(g.order) : \A m \in 1..2 : d.max[n][m] <= e.max[n][m]
  <2>. HIDE DEF P
  <2>. QED BY <1>2, <1>5 DEF Put
<1>7. IsDoc(d) /\ IsDoc(e)
  BY <1>5 DEF Reading
<1>8. P = {c.at : c \in ToSet(cells)}
  BY <1>3
<1>. HIDE DEF name, P, cells, d, e
<1>9. \A n \in ToSet(g.order) : \A m \in 1..2 : g.max[n][m] <= e.max[n][m]
  <2>1. \A n \in ToSet(g.order) : \A m \in 1..2 :
          g.max[n][m] \in Nat /\ d.max[n][m] \in Nat /\ e.max[n][m] \in Nat
    BY <1>0, <1>2, <1>6, <1>7, ExtentsAreNumbers
  <2>. QED BY <1>2, <1>6, <2>1
<1>10. ASSUME NEW n \in ToSet(g.order), NEW p,
              \A j \in T :
                j <= i /\ n = sheets[j].name => p \notin {c.at : c \in ToSet(sheets[j].cells)}
       PROVE  Ent(e, n, p) = Ent(g, n, p)
  <2>1. n = name => p \notin P
    BY <1>8, <1>10 DEF name, cells
  <2>. QED BY <1>2, <1>6, <1>10, <2>1
<1>11. ASSUME NEW j \in T, j <= k, NEW c \in ToSet(sheets[j].cells)
       PROVE  Became(g, e, sheets[j].name, c)
  <2>1. PICK n : n = sheets[j].name
    OBVIOUS
  <2>2. n \in ToSet(g.order) /\ n /= name
    BY <1>0, <1>1, <1>11, <2>1 DEF name
  <2>3. Became(g, d, n, c) /\ c.at \in Nat \X Nat
    BY <1>1, <1>2, <1>11, <2>1
  <2>4. Ent(e, n, c.at) = Ent(d, n, c.at) /\ \A m \in 1..2 : d.max[n][m] <= e.max[n][m]
    BY <1>6, <2>2
  <2>5. n \in ToSet(d.order) \cap ToSet(e.order)
    BY <1>2, <1>6, <2>2
  <2>. QED BY <1>7, <2>1, <2>3, <2>4, <2>5, BecameStays
<1>12. ASSUME NEW c \in ToSet(cells) PROVE Became(g, e, name, c)
  <2>1. Became(d, e, name, c)
    BY <1>3, <1>5
  <2>2. \A j \in T : j <= k => name /= sheets[j].name
    BY <1>1 DEF name
  <2>3. Ent(d, name, c.at) = Ent(g, name, c.at)
    BY <1>0, <1>2, <2>2
  <2>. QED BY <2>1, <2>3 DEF Became
<1>13. ASSUME NEW j \in T, j <= i
       PROVE  \A c \in ToSet(sheets[j].cells) : Became(g, e, sheets[j].name, c)
  BY <1>11, <1>12, <1>13 DEF name, cells
<1>14. ReadSheets(g, e, sheets, T, i)
  BY <1>6, <1>9, <1>10, <1>13 DEF ReadSheets
<1>. QED BY <1>t, <1>5, <1>6, <1>14 DEF e, SameFlags

LEMMA AllowedMore ==
  ASSUME NEW N, NEW M, N \subseteq M, NEW n, NEW c, NEW W, NEW R, NEW F, Allowed(N, n, c, W, R, F)
  PROVE  Allowed(M, n, c, W, R, F)
BY DEF Allowed

(* The sheet k + 1 is read when all before it are and its part is there. *)
Joins(There, sheets, k) ==
  /\ (k + 1 \in There) <=> (1..k \subseteq There /\ sheets[k+1].part = "there")
  /\ k + 1 \notin There => There \subseteq 1..k

(* No formula has named a sheet in vain. *)
NoneLost(s) == s.lost = FALSE

(* The reader's answer after k sheets: 0 as long as all parts were there. *)
Answers(s, T, k) == (s.rc = 0 => 1..k \subseteq T) /\ (s.rc /= 0 => T \subseteq 1..k)

(* One sheet read: those before it were read as far as the parts are there. *)
LEMMA SheetRead ==
  ASSUME NEW a, IsDoc(a), NEW W, NEW R, NEW F, NEW g, NEW sheets, HasSheets(g, sheets),
         NEW T, T \subseteq DOMAIN sheets \cap Nat,
         \A j \in T : MayTake(ToSet(g.order), sheets[j], W, R, F),
         NEW k \in Nat, NEW i, i = k + 1, i \in DOMAIN sheets, Joins(T, sheets, k),
         NEW s, IsX(s), Reading(a, s.doc, W, R, F), ReadSheets(g, s.doc, sheets, T, k),
         Answers(s, T, k)
  PROVE  LET t == ReadSheet(s, sheets[i])
         IN /\ IsX(t) /\ Reading(a, t.doc, W, R, F) /\ ReadSheets(g, t.doc, sheets, T, i)
            /\ Answers(t, T, i) /\ (NoneLost(s) => NoneLost(t))
<1>t. PICK t : t = ReadSheet(s, sheets[i])
  OBVIOUS
<1>. DEFINE sh == sheets[i]
            here == [s EXCEPT !.doc.cur = sh.name]
<1>1. sh.part \in {"there", "missing"} /\ sh.name \in ToSet(g.order) /\ s.doc.order = g.order
  BY DEF HasSheets, IsBook, ReadSheets
<1>0. /\ i \in T <=> (1..k \subseteq T /\ sh.part = "there")
      /\ i \notin T => T \subseteq 1..k
  BY DEF Joins
<1>2. /\ IsX(here) /\ here.rc = s.rc /\ here.lost = s.lost
      /\ here.doc = [s.doc EXCEPT !.cur = sh.name]
  <2>1. here = [doc |-> [s.doc EXCEPT !.cur = sh.name], rc |-> s.rc, lost |-> s.lost]
    <3>. HIDE DEF sh
    <3>. QED BY DEF IsX
  <2>. HIDE DEF here, sh
  <2>. QED BY <2>1 DEF IsX
<1>3. /\ Reading(a, here.doc, W, R, F)
      /\ here.doc.cur = sh.name /\ here.doc.order = s.doc.order /\ here.doc.max = s.doc.max
      /\ \A m, p : Ent(here.doc, m, p) = Ent(s.doc, m, p)
  <2>1. PICK b : b = s.doc
    OBVIOUS
  <2>2. PICK c : c = here.doc
    OBVIOUS
  <2>3. Reading(a, b, W, R, F) /\ sh.name \in ToSet(b.order) /\ c = [b EXCEPT !.cur = sh.name]
    BY <1>1, <1>2, <2>1, <2>2
  <2>. HIDE DEF sh, here
  <2>4. /\ Reading(a, c, W, R, F)
        /\ c.cur = sh.name /\ c.order = b.order /\ c.max = b.max
        /\ \A m, p : Ent(c, m, p) = Ent(b, m, p)
    BY ONLY <2>3, ReadingSelects, IsDoc(a)
  <2>. QED BY <2>1, <2>2, <2>4
<1>4. ReadSheets(g, here.doc, sheets, T, k)
  <2>. HIDE DEF here
  <2>. QED BY <1>3 DEF ReadSheets, Became
<1>5. ASSUME NEW d, ReadSheets(g, d, sheets, T, k), i \notin T PROVE ReadSheets(g, d, sheets, T, i)
  <2>1. \A j \in T : j <= k
    BY <1>0, <1>5
  <2>2. \A j \in T : j <= i
    BY <2>1
  <2>. QED BY <1>5, <2>1, <2>2 DEF ReadSheets
<1>6. CASE s.rc /= 0
  <2>1. t = s
    BY <1>t, <1>6 DEF ReadSheet
  <2>2. i \notin T /\ T \subseteq 1..i
    BY <1>6, <1>0 DEF Answers
  <2>3. ReadSheets(g, s.doc, sheets, T, i)
    BY <1>5, <2>2
  <2>4. Answers(t, T, i)
    BY <1>6, <2>1, <2>2 DEF Answers
  <2>. QED BY <1>t, <2>1, <2>3, <2>4 DEF NoneLost
<1>7. CASE s.rc = 0 /\ sh.part = "missing"
  <2>1. t = [here EXCEPT !.rc = -1]
    BY <1>t, <1>7 DEF ReadSheet
  <2>. HIDE DEF here
  <2>2. t = [doc |-> here.doc, rc |-> -1, lost |-> here.lost]
    BY <1>2, <2>1 DEF IsX
  <2>3. IsX(t) /\ t.doc = here.doc /\ t.rc = -1 /\ t.lost = s.lost
    BY <1>2, <2>2 DEF IsX
  <2>4. i \notin T /\ T \subseteq 1..i
    BY <1>7, <1>0
  <2>5. ReadSheets(g, here.doc, sheets, T, i)
    BY <1>4, <1>5, <2>4
  <2>6. Answers(t, T, i)
    BY <2>3, <2>4 DEF Answers
  <2>7. IsX(t) /\ Reading(a, t.doc, W, R, F) /\ ReadSheets(g, t.doc, sheets, T, i)
    BY <1>3, <2>3, <2>5, Zenon
  <2>. QED BY <1>t, <2>3, <2>6, <2>7 DEF NoneLost
<1>8. CASE s.rc = 0 /\ sh.part = "there"
  <2>1. t = get_sheet_data(here, sheets[i].cells)
    BY <1>t, <1>8 DEF ReadSheet
  <2>2. i \in T /\ 1..k \subseteq T
    BY <1>8, <1>0 DEF Answers
  <2>3. MayTake(ToSet(g.order), sheets[i], W, R, F) /\ here.doc.cur = sheets[i].name
    BY <1>3, <2>2
  <2>4. PICK c : c = here
    OBVIOUS
  <2>. HIDE DEF here
  <2>5. /\ IsX(c) /\ Reading(a, c.doc, W, R, F) /\ c.doc.cur = sheets[i].name
        /\ ReadSheets(g, c.doc, sheets, T, k) /\ t = get_sheet_data(c, sheets[i].cells)
    BY <1>2, <1>3, <1>4, <2>1, <2>3, <2>4
  <2>. HIDE DEF sh
  <2>6. /\ ReadSheets(g, t.doc, sheets, T, i)
        /\ Reading(a, t.doc, W, R, F) /\ IsX(t) /\ SameFlags(c, t)
    BY <2>2, <2>3, <2>5, PartRead
  <2>7. t.rc = 0 /\ t.lost = s.lost
    BY <1>2, <1>8, <2>4, <2>6 DEF SameFlags
  <2>8. Answers(t, T, i)
    BY <2>2, <2>7 DEF Answers
  <2>. QED BY <1>t, <2>6, <2>7, <2>8 DEF NoneLost
<1>. QED BY <1>1, <1>6, <1>7, <1>8

(* From a to d the sheets of a workbook up to the first missing part were
   read, after all of them were there. *)
BookLeft(a, d, file) ==
  \E g : /\ Unread(a, g)
         /\ ReadSheets(g, d, file.sheets, PartsThere(file), Len(file.sheets))
         /\ file.styles => HasSheets(g, file.sheets)

(* The workbook read: its sheets up to the first missing part have become
   what the file says, and no formula named a sheet in vain. *)
LEMMA BookRead ==
  ASSUME NEW a, IsDoc(a), NEW W, NEW R, NEW F, Backed(a, F),
         NEW file, IsBook(file.sheets),
         \A i \in PartsThere(file) :
           MayTake({file.sheets[j].name : j \in DOMAIN file.sheets}, file.sheets[i], W, R, F),
         NEW t, t = open_xlsx(a, file)
  PROVE  /\ Reading(a, t.doc, W, R, F) /\ t.lost = FALSE
         /\ BookLeft(a, t.doc, file)
<1>. DEFINE sheets == file.sheets
            n == Len(sheets)
            There == PartsThere(file)
            g == Created(a, sheets)
<1>1. IsSeq(sheets)
  BY DEF IsBook
<1>2. n \in Nat /\ DOMAIN sheets = 1..n
  BY <1>1 DEF IsSeq
<1>3. Reading(a, a, {}, {}, F) /\ Reading(a, a, W, R, F)
  BY ReadingStarts
<1>4. CASE ~file.styles
  <2>1. t = [doc |-> a, rc |-> -1, lost |-> FALSE]
    BY <1>4 DEF open_xlsx
  <2>2. There = {}
    BY <1>4 DEF PartsThere
  <2>3. \A m \in ToSet(a.order) : \A k \in 1..2 : a.max[m][k] <= a.max[m][k]
    BY ExtentsAreNumbers
  <2>4. ReadSheets(a, a, sheets, There, n)
    BY <2>2, <2>3 DEF ReadSheets
  <2>5. t.doc = a /\ t.lost = FALSE
    BY <2>1
  <2>6. Unread(a, a)
    BY <1>3, NothingRead
  <2>7. BookLeft(a, t.doc, file)
    BY <1>4, <2>4, <2>5, <2>6 DEF BookLeft
  <2>. QED BY <1>3, <2>5, <2>7
<1>5. CASE file.styles
  <2>1. /\ Reading(a, g, {}, {}, F) /\ Reading(a, g, W, R, F)
        /\ HasSheets(g, sheets)
    BY <1>1, <1>3, SheetsCreated DEF HasSheets, Reading
  <2>2. IsDoc(g)
    BY <2>1 DEF Reading
  <2>3. PICK r : /\ r[0] = [doc |-> g, rc |-> 0, lost |-> FALSE]
                 /\ \A k \in 1..n : r[k] = ReadSheet(r[k-1], sheets[k])
                 /\ t = r[n]
    <3>. HIDE DEF n, g
    <3>. QED BY <1>1, <1>5, OpenLoop DEF n, g
  <2>4. There \subseteq DOMAIN sheets \cap Nat /\ \A k \in 0..n-1 : Joins(There, sheets, k)
    <3>1. There = {k \in 1..n : \A j \in 1..k : sheets[j].part = "there"}
      BY <1>2, <1>5 DEF PartsThere
    <3>. HIDE DEF There, n, sheets
    <3>2. \A k \in 0..n-1 : (k + 1 \in There) <=> (1..k \subseteq There /\ sheets[k+1].part = "there")
      BY <1>2, <3>1
    <3>3. \A k \in 0..n-1 : k + 1 \notin There => There \subseteq 1..k
      BY <1>2, <3>1
    <3>. QED BY <1>2, <3>1, <3>2, <3>3 DEF Joins
  <2>5. \A i \in There : MayTake(ToSet(g.order), sheets[i], W, R, F)
    <3>1. {sheets[j].name : j \in DOMAIN sheets} \subseteq ToSet(g.order)
      BY <2>1 DEF HasSheets
    <3>2. \A i \in There : MayTake({sheets[j].name : j \in DOMAIN sheets}, sheets[i], W, R, F)
      OBVIOUS
    <3>. HIDE DEF There, sheets, g
    <3>. QED BY <3>1, <3>2, AllowedMore DEF MayTake
  <2>. HIDE DEF There, n, g
  <2>. DEFINE I(b, k) == /\ IsX(b) /\ Reading(a, b.doc, W, R, F) /\ b.lost = FALSE
                         /\ ReadSheets(g, b.doc, sheets, There, k)
                         /\ Answers(b, There, k)
  <2>6. ASSUME NEW k \in 0..n-1, NEW b, I(b, k) PROVE I(ReadSheet(b, sheets[k+1]), k + 1)
    <3>1. PICK i : i = k + 1
      OBVIOUS
    <3>2. k \in Nat /\ i \in DOMAIN sheets /\ Joins(There, sheets, k)
      BY <1>2, <2>4, <3>1 DEF n
    <3>3. PICK c : c = ReadSheet(b, sheets[i])
      OBVIOUS
    <3>4. /\ IsX(b) /\ Reading(a, b.doc, W, R, F) /\ b.lost = FALSE
          /\ ReadSheets(g, b.doc, sheets, There, k) /\ Answers(b, There, k)
      BY <2>6
    <3>5. /\ IsX(c) /\ Reading(a, c.doc, W, R, F) /\ ReadSheets(g, c.doc, sheets, There, i)
          /\ Answers(c, There, i) /\ (NoneLost(b) => NoneLost(c))
      <4>. HIDE DEF I, sheets
      <4>. QED BY <2>1, <2>4, <2>5, <3>1, <3>2, <3>3, <3>4, SheetRead
    <3>6. I(c, i)
      BY <3>4, <3>5 DEF NoneLost
    <3>. HIDE DEF I
    <3>. QED BY <3>1, <3>3, <3>6
  <2>7. I(r[0], 0)
    <3>1. r[0].doc = g /\ r[0].rc = 0 /\ r[0].lost = FALSE /\ IsX(r[0])
      BY <2>3 DEF IsX
    <3>2. \A m \in ToSet(g.order) : \A k \in 1..2 : g.max[m][k] <= g.max[m][k]
      BY <2>2, ExtentsAreNumbers
    <3>3. \A j \in There : ~(j <= 0)
      BY <1>2, <2>4
    <3>4. ReadSheets(g, g, sheets, There, 0)
      BY <3>2, <3>3 DEF ReadSheets
    <3>5. Answers(r[0], There, 0)
      BY <3>1 DEF Answers
    <3>. QED BY <2>1, <3>1, <3>4, <3>5
  <2>8. 0..n \subseteq {k \in 0..n : I(r[k], k)}
    <3>. DEFINE S == {k \in 0..n : I(r[k], k)}
    <3>1. ASSUME NEW k \in 0..n-1, I(r[k], k) PROVE I(r[k+1], k + 1)
      <4>1. r[k+1] = ReadSheet(r[k], sheets[k+1])
        BY <1>2, <2>3
      <4>. HIDE DEF I
      <4>. QED BY <2>6, <3>1, <4>1
    <3>2. 0 \in S /\ \A k \in 0..n-1 : k \in S => k + 1 \in S
      <4>. HIDE DEF I
      <4>. QED BY <1>2, <2>7, <3>1 DEF n
    <3>3. 0..n \subseteq S
      <4>. HIDE DEF S
      <4>. QED BY <1>2, <3>2, BoundedInduction DEF n
    <3>. QED BY <3>3
  <2>9. I(t, n)
    <3>. HIDE DEF I
    <3>. QED BY <1>2, <2>3, <2>8 DEF n
  <2>10. Unread(a, g)
    BY <2>1, NothingRead
  <2>11. ReadSheets(g, t.doc, file.sheets, PartsThere(file), Len(file.sheets))
    BY <2>9 DEF There, n
  <2>12. BookLeft(a, t.doc, file)
    <3>1. HasSheets(g, file.sheets)
      BY <2>1
    <3>. QED BY <2>10, <2>11, <3>1 DEF BookLeft
  <2>. QED BY <2>9, <2>12
<1>. QED BY <1>4, <1>5
-----------------------------------------------------------------------------
(* html.c *)

(* The members of S up to k. *)
Count(S, k) == Cardinality(S \cap (1..k))

LEMMA Counting ==
  ASSUME NEW S
  PROVE  /\ Count(S, 0) = 0
         /\ \A k \in Nat : Count(S, k) \in Nat
         /\ \A k \in Nat : k + 1 \in S => Count(S, k + 1) = Count(S, k) + 1
         /\ \A k \in Nat : k + 1 \notin S => Count(S, k + 1) = Count(S, k)
<1>1. ASSUME NEW k \in Nat PROVE IsFiniteSet(S \cap (1..k))
  <2>1. IsFiniteSet(1..k)
    BY FS_Interval
  <2>2. S \cap (1..k) \subseteq 1..k
    OBVIOUS
  <2>. QED BY <2>1, <2>2, FS_Subset
<1>2. S \cap (1..0) = {}
  OBVIOUS
<1>3. Count(S, 0) = 0
  BY <1>2, FS_EmptySet DEF Count
<1>4. \A k \in Nat : Count(S, k) \in Nat
  BY <1>1, FS_CardinalityType DEF Count
<1>5. ASSUME NEW k \in Nat, k + 1 \in S PROVE Count(S, k + 1) = Count(S, k) + 1
  <2>1. S \cap (1..k+1) = (S \cap (1..k)) \cup {k+1}
    BY <1>5
  <2>2. k + 1 \notin S \cap (1..k)
    OBVIOUS
  <2>. QED BY <1>1, <2>1, <2>2, FS_AddElement DEF Count
<1>6. ASSUME NEW k \in Nat, k + 1 \notin S PROVE Count(S, k + 1) = Count(S, k)
  <2>1. S \cap (1..k+1) = S \cap (1..k)
    BY <1>6
  <2>. QED BY <2>1 DEF Count
<1>. QED BY <1>3, <1>4, <1>5, <1>6

(* The sheets are the same, and so is the current one. *)
SameSheets(d, e) == e.cur = d.cur /\ e.order = d.order

(* The state of the reader: its document and the place of the next td. *)
AtPlace(s, i, j) == s.at = <<i, j>>

(* What strtod makes of a text: the formula stays. *)
LEMMA TypedEnt ==
  ASSUME NEW e, IsEnt(e), NEW text
  PROVE  /\ IsEnt(Typed(e, text))
         /\ Typed(e, text).exp = e.exp /\ Typed(e, text).formula = e.formula
<1>1. CASE IsNumber(text)
  BY <1>1, ValuedEnt DEF Typed
<1>2. CASE ~IsNumber(text)
  <2>. DEFINE g == [e EXCEPT !.val = 0]
  <2>1. g = [val |-> 0, label |-> e.label, formula |-> e.formula, exp |-> e.exp, flag |-> e.flag]
    BY DEF IsEnt
  <2>2. Typed(e, text) = Labelled(g, text)
    BY <1>2 DEF Typed
  <2>. HIDE DEF g
  <2>3. IsEnt(g) /\ g.formula = e.formula /\ g.exp = e.exp
    BY <2>1 DEF IsEnt
  <2>. QED BY <2>2, <2>3, LabelledEnt
<1>. QED BY <1>1, <1>2

(* The td of a tr, and the tr of a table. *)
TdsOf(dom, tr) == {j \in DOMAIN dom : IsKid(dom, j, tr, "td")}
TrsOf(dom, table) == {j \in DOMAIN dom : IsKid(dom, j, table, "tr")}

LEMMA CountGrows ==
  ASSUME NEW S, NEW x, x \in S, x \in Nat \ {0}, NEW k \in Nat, x <= k
  PROVE  Count(S, x - 1) < Count(S, k)
<1>. DEFINE A == S \cap (1..x-1)
            B == S \cap (1..k)
<1>1. IsFiniteSet(1..k)
  BY FS_Interval
<1>2. B \subseteq 1..k /\ A \subseteq B /\ x \in B /\ x \notin A
  OBVIOUS
<1>. HIDE DEF A, B
<1>3. IsFiniteSet(B)
  BY <1>1, <1>2, FS_Subset
<1>4. /\ IsFiniteSet(A)
      /\ Cardinality(A) <= Cardinality(B)
      /\ Cardinality(A) = Cardinality(B) => A = B
  BY <1>2, <1>3, FS_Subset
<1>5. Cardinality(A) \in Nat /\ Cardinality(B) \in Nat
  BY <1>3, <1>4, FS_CardinalityType
<1>6. Cardinality(A) < Cardinality(B)
  BY <1>2, <1>4, <1>5
<1>. QED BY <1>6 DEF Count, A, B

(* Where a td stands on its page. *)
LEMMA TdStands ==
  ASSUME NEW dom, IsPage(dom), NEW td \in Tds(dom),
         NEW tr, tr = dom[td].up, NEW table, table = TableOf(dom, td)
  PROVE  /\ td \in 1..Len(dom) /\ tr \in 1..Len(dom) /\ table \in 1..Len(dom)
         /\ Len(dom) \in Nat
         /\ td \in TdsOf(dom, tr) /\ tr \in TrsOf(dom, table)
         /\ HasChildren(dom, td) /\ dom[table].tag = "table"
         /\ Place(dom, td) = <<Title(dom, table), <<Count(TrsOf(dom, table), tr - 1),
                                                    Count(TdsOf(dom, tr), td - 1)>>>>
<1>1. /\ DOMAIN dom = 1..Len(dom) /\ Len(dom) \in Nat
      /\ \A j \in DOMAIN dom : dom[j].up \in 0..j-1
  BY DEF IsPage, IsSeq
<1>2. /\ td \in DOMAIN dom /\ tr \in DOMAIN dom /\ table \in DOMAIN dom
      /\ dom[td].tag = "td" /\ dom[tr].up = table /\ dom[tr].tag = "tr"
      /\ dom[table].tag = "table" /\ HasChildren(dom, td)
  BY DEF Tds, TableOf, IsKid
<1>3. Before(dom, td) = Count(TdsOf(dom, tr), td - 1)
  BY <1>2 DEF Before, Count, TdsOf
<1>4. Before(dom, tr) = Count(TrsOf(dom, table), tr - 1)
  BY <1>2 DEF Before, Count, TrsOf
<1>5. Place(dom, td) = <<Title(dom, table), <<Before(dom, tr), Before(dom, td)>>>>
  BY DEF Place
<1>6. td \in TdsOf(dom, tr) /\ tr \in TrsOf(dom, table)
  BY <1>2 DEF TdsOf, TrsOf, IsKid
<1>. QED BY <1>1, <1>2, <1>3, <1>4, <1>5, <1>6

(* No two td of a table have the same place. *)
LEMMA PlacesDiffer ==
  ASSUME NEW dom, IsPage(dom), NEW x \in Tds(dom), NEW y \in Tds(dom),
         TableOf(dom, x) = TableOf(dom, y), Place(dom, x) = Place(dom, y)
  PROVE  x = y
<1>1. ASSUME NEW S, NEW i, NEW j, i \in S, j \in S, i \in Nat \ {0}, j \in Nat \ {0},
             Count(S, i - 1) = Count(S, j - 1)
      PROVE  i = j
  <2>1. \A k \in Nat : Count(S, k) \in Nat
    BY Counting
  <2>2. CASE i < j
    <3>1. j - 1 \in Nat /\ i <= j - 1
      BY <1>1, <2>2
    <3>2. Count(S, i - 1) < Count(S, j - 1)
      BY <1>1, <3>1, CountGrows
    <3>. QED BY <1>1, <2>1, <3>1, <3>2
  <2>3. CASE j < i
    <3>1. i - 1 \in Nat /\ j <= i - 1
      BY <1>1, <2>3
    <3>2. Count(S, j - 1) < Count(S, i - 1)
      BY <1>1, <3>1, CountGrows
    <3>. QED BY <1>1, <2>1, <3>1, <3>2
  <2>. QED BY <1>1, <2>2, <2>3
<1>2. PICK table : table = TableOf(dom, x) /\ table = TableOf(dom, y)
  OBVIOUS
<1>3. PICK tr : tr = dom[x].up
  OBVIOUS
<1>4. PICK tr2 : tr2 = dom[y].up
  OBVIOUS
<1>5. /\ x \in 1..Len(dom) /\ tr \in 1..Len(dom) /\ Len(dom) \in Nat
      /\ x \in TdsOf(dom, tr) /\ tr \in TrsOf(dom, table)
      /\ Place(dom, x) = <<Title(dom, table), <<Count(TrsOf(dom, table), tr - 1),
                                                Count(TdsOf(dom, tr), x - 1)>>>>
  BY <1>2, <1>3, TdStands
<1>6. /\ y \in 1..Len(dom) /\ tr2 \in 1..Len(dom)
      /\ y \in TdsOf(dom, tr2) /\ tr2 \in TrsOf(dom, table)
      /\ Place(dom, y) = <<Title(dom, table), <<Count(TrsOf(dom, table), tr2 - 1),
                                                Count(TdsOf(dom, tr2), y - 1)>>>>
  BY <1>2, <1>4, TdStands
<1>7. /\ Count(TrsOf(dom, table), tr - 1) = Count(TrsOf(dom, table), tr2 - 1)
      /\ Count(TdsOf(dom, tr), x - 1) = Count(TdsOf(dom, tr2), y - 1)
  <2>1. \A n, i, j, u, v : <<n, <<i, j>>>> = <<n, <<u, v>>>> => i = u /\ j = v
    OBVIOUS
  <2>2. <<Title(dom, table), <<Count(TrsOf(dom, table), tr - 1), Count(TdsOf(dom, tr), x - 1)>>>> =
        <<Title(dom, table), <<Count(TrsOf(dom, table), tr2 - 1), Count(TdsOf(dom, tr2), y - 1)>>>>
    BY <1>5, <1>6, Zenon
  <2>. QED BY <2>1, <2>2, Zenon
<1>8. tr = tr2
  BY <1>1, <1>5, <1>6, <1>7
<1>. QED BY <1>1, <1>5, <1>6, <1>7, <1>8

(* What has been read when the reader has done the nodes up to k of the page,
   of a table, and of a tr. *)
OfPage(dom, k) == {td \in Tds(dom) : TableOf(dom, td) <= k}

OfTable(dom, table, k) ==
  {td \in Tds(dom) : \/ TableOf(dom, td) < table
                     \/ TableOf(dom, td) = table /\ dom[td].up <= k}

OfRow(dom, table, tr, k) ==
  {td \in Tds(dom) : \/ TableOf(dom, td) < table
                     \/ TableOf(dom, td) = table /\ dom[td].up < tr
                     \/ TableOf(dom, td) = table /\ dom[td].up = tr /\ td <= k}

LEMMA PartsOfPage ==
  ASSUME NEW dom, IsPage(dom), NEW k \in Nat, NEW i, i = k + 1
  PROVE  /\ OfPage(dom, 0) = {}
         /\ OfTable(dom, i, 0) = OfPage(dom, k)
         /\ OfTable(dom, i, Len(dom)) = OfPage(dom, i)
         /\ i \in DOMAIN dom /\ dom[i].tag /= "table" => OfPage(dom, i) = OfPage(dom, k)
<1>1. \A td \in Tds(dom) :
        /\ td \in 1..Len(dom) /\ dom[td].up \in 1..Len(dom) /\ TableOf(dom, td) \in 1..Len(dom)
        /\ Len(dom) \in Nat
        /\ dom[TableOf(dom, td)].tag = "table"
  BY TdStands
<1>2. OfPage(dom, 0) = {}
  BY <1>1 DEF OfPage
<1>3. OfTable(dom, i, 0) = OfPage(dom, k)
  BY <1>1 DEF OfPage, OfTable
<1>4. OfTable(dom, i, Len(dom)) = OfPage(dom, i)
  BY <1>1 DEF OfPage, OfTable
<1>5. ASSUME dom[i].tag /= "table" PROVE OfPage(dom, i) = OfPage(dom, k)
  BY <1>1, <1>5 DEF OfPage
<1>. QED BY <1>2, <1>3, <1>4, <1>5

LEMMA PartsOfTable ==
  ASSUME NEW dom, IsPage(dom), NEW table, NEW k \in Nat, NEW i, i = k + 1
  PROVE  /\ OfRow(dom, table, i, 0) = OfTable(dom, table, k)
         /\ OfRow(dom, table, i, Len(dom)) = OfTable(dom, table, i)
         /\ i \notin TrsOf(dom, table) => OfTable(dom, table, i) = OfTable(dom, table, k)
<1>1. \A td \in Tds(dom) :
        /\ td \in 1..Len(dom) /\ dom[td].up \in 1..Len(dom)
        /\ Len(dom) \in Nat
        /\ dom[td].up \in TrsOf(dom, TableOf(dom, td))
  BY TdStands
<1>2. OfRow(dom, table, i, 0) = OfTable(dom, table, k)
  BY <1>1 DEF OfRow, OfTable
<1>3. OfRow(dom, table, i, Len(dom)) = OfTable(dom, table, i)
  BY <1>1 DEF OfRow, OfTable
<1>4. ASSUME i \notin TrsOf(dom, table) PROVE OfTable(dom, table, i) = OfTable(dom, table, k)
  BY <1>1, <1>4 DEF OfTable
<1>. QED BY <1>2, <1>3, <1>4

LEMMA PartsOfRow ==
  ASSUME NEW dom, IsPage(dom), NEW table, NEW tr, NEW k \in Nat, NEW i, i = k + 1
  PROVE  /\ i \notin TdsOf(dom, tr) \/ ~HasChildren(dom, i) =>
              OfRow(dom, table, tr, i) = OfRow(dom, table, tr, k)
         /\ i \in Tds(dom) /\ TableOf(dom, i) = table /\ dom[i].up = tr =>
              \A x : x \in OfRow(dom, table, tr, i) <=> x \in OfRow(dom, table, tr, k) \/ x = i
<1>1. \A td \in Tds(dom) :
        /\ td \in 1..Len(dom) /\ Len(dom) \in Nat
        /\ td \in TdsOf(dom, dom[td].up) /\ HasChildren(dom, td)
  BY TdStands
<1>2. ASSUME i \notin TdsOf(dom, tr) \/ ~HasChildren(dom, i)
      PROVE  OfRow(dom, table, tr, i) = OfRow(dom, table, tr, k)
  BY <1>1, <1>2 DEF OfRow
<1>3. ASSUME i \in Tds(dom), TableOf(dom, i) = table, dom[i].up = tr
      PROVE  \A x : x \in OfRow(dom, table, tr, i) <=> x \in OfRow(dom, table, tr, k) \/ x = i
  BY <1>1, <1>3 DEF OfRow
<1>. QED BY <1>2, <1>3

(* The td has its place to itself. *)
Alone(dom, td) == \A j \in Tds(dom) : Place(dom, j) = Place(dom, td) => j = td

(* No td of T with the same place was read later. *)
IsLast(dom, T, td) ==
  \A j \in T : Place(dom, j) = Place(dom, td) => TableOf(dom, j) <= TableOf(dom, td)

(* The text of the td is in c at p of sheet n. *)
HoldsTd(a, c, dom, td, n, p) ==
  /\ Reaches(c, n, p)
  /\ \E e : /\ IsEnt(e)
            /\ Ent(c, n, p) = Typed(e, Content(dom, td))
            /\ Alone(dom, td) => e = Old(a, n, p)

(* The td of T that were read last at their places are there, and all other
   cells are what they were. *)
Filled(a, c, dom, T) ==
  /\ \A td \in T : IsLast(dom, T, td) =>
       \A n, p : Place(dom, td) = <<n, p>> => HoldsTd(a, c, dom, td, n, p)
  /\ \A n \in ToSet(c.order) : \A p :
       \/ Ent(c, n, p) = Old(a, n, p)
       \/ \E td \in T : Place(dom, td) = <<n, p>>

LEMMA FilledOpens ==
  ASSUME NEW a, NEW d, IsDoc(d), ToSet(a.order) \subseteq ToSet(d.order),
         NEW dom, NEW T, Filled(a, d, dom, T), NEW m
  PROVE  Filled(a, NewSheet(d, m), dom, T)
<1>1. PICK c : c = NewSheet(d, m)
  OBVIOUS
<1>2. /\ ToSet(c.order) = ToSet(d.order) \cup {m}
      /\ \A n \in ToSet(d.order) : c.max[n] = d.max[n] /\ \A q : Ent(c, n, q) = Ent(d, n, q)
      /\ \A n \in ToSet(c.order) \ ToSet(d.order) : \A q : Ent(c, n, q) = BlankEnt
  BY <1>1, NewSheetEffect
<1>3. ASSUME NEW td, NEW n, NEW p, HoldsTd(a, d, dom, td, n, p)
      PROVE  HoldsTd(a, c, dom, td, n, p)
  <2>1. Reaches(c, n, p) /\ n \in ToSet(d.order)
    BY <1>2, <1>3 DEF HoldsTd, Reaches
  <2>2. Ent(c, n, p) = Ent(d, n, p)
    BY <1>2, <2>1
  <2>. QED BY <1>3, <2>1, <2>2 DEF HoldsTd
<1>4. ASSUME NEW n \in ToSet(c.order), NEW p
      PROVE  Ent(c, n, p) = Old(a, n, p) \/ \E td \in T : Place(dom, td) = <<n, p>>
  <2>1. CASE n \in ToSet(d.order)
    BY <1>2, <2>1 DEF Filled
  <2>2. CASE n \notin ToSet(d.order)
    BY <1>2, <2>2 DEF Old
  <2>. QED BY <2>1, <2>2
<1>. QED BY <1>1, <1>3, <1>4 DEF Filled

LEMMA FilledStores ==
  ASSUME NEW a, IsDoc(a), NEW d, IsDoc(d), d.cur \in ToSet(d.order),
         NEW dom, IsPage(dom), NEW T, T \subseteq Tds(dom), Filled(a, d, dom, T),
         NEW td \in Tds(dom), NEW p \in Nat \X Nat, Place(dom, td) = <<d.cur, p>>,
         \A x \in T : x /= td /\ TableOf(dom, x) <= TableOf(dom, td),
         NEW U, \A x : x \in U <=> x \in T \/ x = td,
         NEW c, c = Stored(d, p, Typed(Ent(d, d.cur, p), Content(dom, td)))
  PROVE  Filled(a, c, dom, U)
<1>1. PICK n : n = d.cur
  OBVIOUS
<1>2. PICK old : old = Ent(d, n, p)
  OBVIOUS
<1>3. IsEnt(old)
  BY <1>1, <1>2 DEF IsDoc
<1>4. PICK e : e = Typed(old, Content(dom, td))
  OBVIOUS
<1>5. IsEnt(e)
  BY <1>3, <1>4, TypedEnt
<1>6. c = Stored(d, p, e)
  BY <1>1, <1>2, <1>4
<1>7. /\ IsDoc(c) /\ c.order = d.order
      /\ \A m \in ToSet(d.order) : \A q :
           Ent(c, m, q) = IF m = d.cur /\ q = p THEN e ELSE Ent(d, m, q)
      /\ \A m \in ToSet(d.order) : \A k \in 1..2 : d.max[m][k] <= c.max[m][k]
      /\ \A k \in 1..2 : p[k] <= c.max[d.cur][k]
  BY ONLY <1>5, <1>6, p \in Nat \X Nat, IsDoc(d), d.cur \in ToSet(d.order), StoredEffect
<1>8. Reaches(c, n, p)
  BY <1>1, <1>7 DEF Reaches
<1>9. Alone(dom, td) => old = Old(a, n, p)
  <2>1. ASSUME Alone(dom, td) PROVE ~\E x \in T : Place(dom, x) = <<n, p>>
    BY <1>1, <2>1 DEF Alone
  <2>2. n \in ToSet(d.order)
    BY <1>1
  <2>. QED BY <1>2, <2>1, <2>2 DEF Filled
<1>10. HoldsTd(a, c, dom, td, n, p)
  <2>1. Ent(c, n, p) = e
    BY <1>1, <1>7
  <2>. QED BY <1>3, <1>4, <1>8, <1>9, <2>1 DEF HoldsTd
<1>11. ASSUME NEW x \in U, IsLast(dom, U, x), NEW m, NEW q, Place(dom, x) = <<m, q>>
       PROVE  HoldsTd(a, c, dom, x, m, q)
  <2>1. CASE x = td
    <3>1. m = n /\ q = p
      BY <1>1, <1>11, <2>1
    <3>. QED BY <1>10, <2>1, <3>1
  <2>2. CASE x /= td
    <3>1. x \in T /\ IsLast(dom, T, x)
      BY <1>11, <2>2 DEF IsLast
    <3>2. HoldsTd(a, d, dom, x, m, q)
      BY <1>11, <3>1 DEF Filled
    <3>3. Place(dom, x) /= Place(dom, td)
      <4>1. SUFFICES ASSUME Place(dom, x) = Place(dom, td) PROVE FALSE
        OBVIOUS
      <4>2. TableOf(dom, td) <= TableOf(dom, x) /\ TableOf(dom, x) <= TableOf(dom, td)
        BY <1>11, <3>1, <4>1 DEF IsLast
      <4>3. TableOf(dom, td) \in 1..Len(dom) /\ TableOf(dom, x) \in 1..Len(dom) /\ Len(dom) \in Nat
        BY <3>1, TdStands
      <4>4. TableOf(dom, td) = TableOf(dom, x)
        BY <4>2, <4>3
      <4>. QED BY <2>2, <3>1, <4>1, <4>4, PlacesDiffer
    <3>4. ~(m = n /\ q = p)
      BY <1>1, <1>11, <3>3
    <3>5. Reaches(d, m, q)
      BY <3>2 DEF HoldsTd
    <3>6. m \in ToSet(d.order)
      BY <3>5 DEF Reaches
    <3>7. Ent(c, m, q) = Ent(d, m, q)
      BY <1>1, <1>7, <3>4, <3>6
    <3>8. Reaches(c, m, q)
      <4>1. q[1] \in Nat /\ q[2] \in Nat
        <5>1. PICK t : t = <<Count(TrsOf(dom, TableOf(dom, x)), dom[x].up - 1),
                             Count(TdsOf(dom, dom[x].up), x - 1)>>
          OBVIOUS
        <5>2. Place(dom, x) = <<Title(dom, TableOf(dom, x)), t>>
          BY <3>1, <5>1, TdStands
        <5>3. x - 1 \in Nat /\ dom[x].up - 1 \in Nat
          BY <3>1, TdStands
        <5>4. t[1] \in Nat /\ t[2] \in Nat
          BY <5>1, <5>3, Counting
        <5>5. q = t
          BY <1>11, <5>2
        <5>. QED BY <5>4, <5>5
      <4>2. \A k \in 1..2 : q[k] \in Nat /\ d.max[m][k] \in Nat /\ c.max[m][k] \in Nat
        BY <1>7, <3>6, <4>1, ExtentsAreNumbers
      <4>. QED BY <1>7, <3>5, <3>6, <4>2 DEF Reaches
    <3>. QED BY <3>2, <3>7, <3>8 DEF HoldsTd
  <2>. QED BY <2>1, <2>2
<1>12. ASSUME NEW m \in ToSet(c.order), NEW q
       PROVE  Ent(c, m, q) = Old(a, m, q) \/ \E x \in U : Place(dom, x) = <<m, q>>
  <2>1. CASE m = n /\ q = p
    BY <1>1, <2>1
  <2>2. CASE ~(m = n /\ q = p)
    <3>1. Ent(c, m, q) = Ent(d, m, q) /\ m \in ToSet(d.order)
      BY <1>1, <1>7, <2>2
    <3>. QED BY <3>1 DEF Filled
  <2>. QED BY <2>1, <2>2
<1>. QED BY <1>11, <1>12 DEF Filled

(* A td is stored where the counters are, and the column moves on. *)
LEMMA TdRead ==
  ASSUME NEW a, IsDoc(a), NEW W, NEW R, NEW F, NEW s, Reading(a, s.doc, W, R, F),
         s.doc.cur \in ToSet(s.doc.order),
         NEW i \in Nat, NEW j \in Nat, AtPlace(s, i, j),
         NEW dom, NEW td, HasChildren(dom, td) => <<s.doc.cur, <<i, j>>>> \in W
  PROVE  /\ Reading(a, html_read_td(dom, s, td).doc, W, R, F)
         /\ SameSheets(s.doc, html_read_td(dom, s, td).doc)
         /\ AtPlace(html_read_td(dom, s, td), i, j + 1)
<1>t. PICK t : t = html_read_td(dom, s, td)
  OBVIOUS
<1>. DEFINE e == Typed(Ent(s.doc, s.doc.cur, <<i, j>>), Content(dom, td))
<1>1. t = [doc |-> IF HasChildren(dom, td) THEN Stored(s.doc, <<i, j>>, e) ELSE s.doc,
           at |-> <<i, j + 1>>]
  BY <1>t DEF html_read_td, AtPlace
<1>2. IsDoc(s.doc)
  BY DEF Reading
<1>3. IsEnt(Ent(s.doc, s.doc.cur, <<i, j>>))
  BY <1>2 DEF IsDoc
<1>4. /\ IsEnt(e) /\ e.exp = Ent(s.doc, s.doc.cur, <<i, j>>).exp
      /\ e.formula = Ent(s.doc, s.doc.cur, <<i, j>>).formula
  BY <1>3, TypedEnt
<1>. HIDE DEF e
<1>5. AtPlace(t, i, j + 1)
  BY <1>1 DEF AtPlace
<1>6. CASE HasChildren(dom, td)
  <2>1. t.doc = Stored(s.doc, <<i, j>>, e) /\ <<s.doc.cur, <<i, j>>>> \in W
    BY <1>1, <1>6
  <2>2. Reading(a, t.doc, W, R, F)
    BY <1>4, <2>1, ReadingStores
  <2>3. t.doc.order = s.doc.order /\ t.doc.cur = s.doc.cur
    BY <1>2, <1>4, <2>1, StoredEffect
  <2>. QED BY <1>t, <1>5, <2>2, <2>3 DEF SameSheets
<1>7. CASE ~HasChildren(dom, td)
  <2>1. t.doc = s.doc
    BY <1>1, <1>7
  <2>. QED BY <1>t, <1>5, <2>1 DEF SameSheets
<1>. QED BY <1>6, <1>7

(* The td of a tr of a table, read where the counters are. *)
LEMMA TdFills ==
  ASSUME NEW a, IsDoc(a), NEW dom, IsPage(dom),
         NEW table, table \in DOMAIN dom, dom[table].tag = "table",
         NEW tr, tr \in TrsOf(dom, table), NEW k \in Nat, NEW td, td = k + 1, td \in TdsOf(dom, tr),
         NEW s, IsDoc(s.doc), s.doc.cur \in ToSet(s.doc.order), s.doc.cur = Title(dom, table),
         NEW i, i = Count(TrsOf(dom, table), tr - 1), NEW j, j = Count(TdsOf(dom, tr), k),
         AtPlace(s, i, j), Filled(a, s.doc, dom, OfRow(dom, table, tr, k))
  PROVE  Filled(a, html_read_td(dom, s, td).doc, dom, OfRow(dom, table, tr, td))
<1>t. PICK t : t = html_read_td(dom, s, td)
  OBVIOUS
<1>1. /\ tr \in DOMAIN dom /\ dom[tr].up = table /\ dom[tr].tag = "tr"
      /\ td \in DOMAIN dom /\ dom[td].up = tr /\ dom[td].tag = "td"
  BY DEF TrsOf, TdsOf, IsKid
<1>2. s.at = <<i, j>>
  BY DEF AtPlace
<1>3. CASE ~HasChildren(dom, td)
  <2>1. t.doc = s.doc
    BY <1>t, <1>3 DEF html_read_td
  <2>2. OfRow(dom, table, tr, td) = OfRow(dom, table, tr, k)
    BY <1>3, PartsOfRow
  <2>. QED BY <1>t, <2>1, <2>2
<1>4. CASE HasChildren(dom, td)
  <2>1. td \in Tds(dom) /\ TableOf(dom, td) = table
    BY <1>1, <1>4 DEF Tds, TableOf, IsKid
  <2>2. PICK p : p = <<i, j>>
    OBVIOUS
  <2>3. Place(dom, td) = <<s.doc.cur, p>>
    <3>1. Place(dom, td) = <<Title(dom, table), <<Count(TrsOf(dom, table), tr - 1),
                                                  Count(TdsOf(dom, tr), td - 1)>>>>
      BY <1>1, <2>1, TdStands
    <3>2. td - 1 = k
      OBVIOUS
    <3>. QED BY <2>2, <3>1, <3>2
  <2>4. p \in Nat \X Nat
    <3>1. tr - 1 \in Nat
      BY <1>1 DEF IsPage, IsSeq
    <3>2. i \in Nat /\ j \in Nat
      BY <3>1, Counting
    <3>. QED BY <2>2, <3>2
  <2>5. PICK T : T = OfRow(dom, table, tr, k)
    OBVIOUS
  <2>6. PICK U : U = OfRow(dom, table, tr, td)
    OBVIOUS
  <2>7. /\ T \subseteq Tds(dom)
        /\ \A x \in T : x /= td /\ TableOf(dom, x) <= TableOf(dom, td)
    <3>1. \A x \in Tds(dom) : TableOf(dom, x) \in 1..Len(dom) /\ Len(dom) \in Nat
      BY TdStands
    <3>2. T \subseteq Tds(dom)
      BY <2>5 DEF OfRow
    <3>3. \A x \in T : TableOf(dom, x) <= table
      BY <2>1, <2>5, <3>1 DEF OfRow
    <3>4. td \notin T
      <4>1. ~(table < table) /\ table \in Nat
        BY <2>1, <3>1
      <4>2. ~(tr < tr) /\ ~(td <= k)
        BY <1>1 DEF IsPage, IsSeq
      <4>. QED BY <1>1, <2>1, <2>5, <4>1, <4>2 DEF OfRow
    <3>. QED BY <2>1, <3>2, <3>3, <3>4
  <2>8. \A x : x \in U <=> x \in T \/ x = td
    BY <1>1, <2>1, <2>5, <2>6, PartsOfRow
  <2>9. PICK c : c = t.doc
    OBVIOUS
  <2>10. PICK d : d = s.doc
    OBVIOUS
  <2>11. c = Stored(d, p, Typed(Ent(d, d.cur, p), Content(dom, td)))
    BY <1>t, <1>2, <1>4, <2>2, <2>9, <2>10 DEF html_read_td
  <2>12. Filled(a, d, dom, T)
    BY <2>5, <2>10
  <2>13. IsDoc(d) /\ d.cur \in ToSet(d.order) /\ Place(dom, td) = <<d.cur, p>>
    BY <2>3, <2>10
  <2>14. Filled(a, c, dom, U)
    BY ONLY IsDoc(a), IsPage(dom), <2>1, <2>4, <2>7, <2>8, <2>11, <2>12, <2>13, FilledStores
  <2>. QED BY <1>t, <2>6, <2>9, <2>14
<1>. QED BY <1>3, <1>4

LEMMA RowRead ==
  ASSUME NEW a, IsDoc(a), NEW W, NEW R, NEW F, NEW s, Reading(a, s.doc, W, R, F),
         s.doc.cur \in ToSet(s.doc.order),
         NEW dom, IsPage(dom), NEW table, table \in DOMAIN dom, dom[table].tag = "table",
         s.doc.cur = Title(dom, table), NEW tr, tr \in TrsOf(dom, table),
         NEW i \in Nat, i = Count(TrsOf(dom, table), tr - 1), AtPlace(s, i, 0),
         Filled(a, s.doc, dom, OfRow(dom, table, tr, 0)),
         \A td \in TdsOf(dom, tr) :
           HasChildren(dom, td) => <<s.doc.cur, <<i, Count(TdsOf(dom, tr), td - 1)>>>> \in W
  PROVE  /\ Reading(a, html_read_row(dom, s, tr).doc, W, R, F)
         /\ SameSheets(s.doc, html_read_row(dom, s, tr).doc)
         /\ AtPlace(html_read_row(dom, s, tr), i + 1, 0)
         /\ Filled(a, html_read_row(dom, s, tr).doc, dom, OfRow(dom, table, tr, Len(dom)))
<1>. DEFINE n == Len(dom)
            t == html_read_row(dom, s, tr)
            S == TdsOf(dom, tr)
<1>1. IsSeq(dom) /\ n \in Nat /\ DOMAIN dom = 1..n
  BY DEF IsPage, IsSeq
<1>2. PICK r : /\ r[0] = s /\ (\A k \in 1..n : r[k] = InRow(dom, r[k-1], tr, k))
               /\ t.doc = r[n].doc /\ t.at = <<s.at[1] + 1, 0>>
  <2>1. PICK r : /\ r[0] = s
                 /\ \A k \in 1..Len(dom) : r[k] = InRow(dom, r[k-1], tr, k)
                 /\ html_read_row(dom, s, tr).doc = r[Len(dom)].doc
                 /\ html_read_row(dom, s, tr).at = <<s.at[1] + 1, 0>>
    <3>1. PICK u : u = html_read_row(dom, s, tr)
      OBVIOUS
    <3>. QED BY <1>1, <3>1, HtmlRowLoop
  <2>. QED BY <2>1
<1>3. /\ Count(S, 0) = 0 /\ \A k \in Nat : Count(S, k) \in Nat
      /\ \A k \in Nat : k + 1 \in S => Count(S, k + 1) = Count(S, k) + 1
      /\ \A k \in Nat : k + 1 \notin S => Count(S, k + 1) = Count(S, k)
  <2>. HIDE DEF S
  <2>. QED BY Counting
<1>4. \A k \in 0..n-1 : k + 1 \in S <=> IsKid(dom, k + 1, tr, "td")
  BY <1>1 DEF TdsOf
<1>s. S = TdsOf(dom, tr)
  OBVIOUS
<1>. HIDE DEF n, t, S
<1>. DEFINE I(b, k) == /\ Reading(a, b.doc, W, R, F)
                       /\ b.doc.cur = s.doc.cur /\ b.doc.order = s.doc.order
                       /\ AtPlace(b, i, Count(S, k))
                       /\ Filled(a, b.doc, dom, OfRow(dom, table, tr, k))
<1>5. ASSUME NEW k \in 0..n-1, NEW b, I(b, k) PROVE I(InRow(dom, b, tr, k + 1), k + 1)
  <2>0. k \in Nat /\ (k + 1) - 1 = k
    BY <1>1
  <2>1. CASE k + 1 \in S
    <3>1. PICK j : j = Count(S, k)
      OBVIOUS
    <3>2. j \in Nat /\ Count(S, k + 1) = j + 1
      BY <1>3, <2>0, <2>1, <3>1
    <3>3. PICK td : td = k + 1
      OBVIOUS
    <3>4. HasChildren(dom, td) => <<b.doc.cur, <<i, j>>>> \in W
      BY <1>5, <1>s, <2>0, <2>1, <3>1, <3>3
    <3>5. Reading(a, b.doc, W, R, F) /\ AtPlace(b, i, j) /\ b.doc.cur \in ToSet(b.doc.order)
      BY <1>5, <3>1
    <3>6. PICK c : c = html_read_td(dom, b, td)
      OBVIOUS
    <3>7. Reading(a, c.doc, W, R, F) /\ SameSheets(b.doc, c.doc) /\ AtPlace(c, i, j + 1)
      <4>. HIDE DEF I
      <4>. QED BY <3>2, <3>4, <3>5, <3>6, TdRead
    <3>10. Filled(a, c.doc, dom, OfRow(dom, table, tr, td))
      <4>1. /\ IsDoc(b.doc) /\ b.doc.cur = Title(dom, table) /\ td \in TdsOf(dom, tr)
            /\ j = Count(TdsOf(dom, tr), k) /\ Filled(a, b.doc, dom, OfRow(dom, table, tr, k))
        BY <1>5, <1>s, <2>1, <3>1, <3>3 DEF Reading
      <4>. HIDE DEF I
      <4>. QED BY <2>0, <3>3, <3>5, <3>6, <4>1, TdFills
    <3>8. InRow(dom, b, tr, k + 1) = c
      BY <1>4, <2>1, <3>3, <3>6 DEF InRow
    <3>9. I(c, k + 1)
      BY <1>5, <3>2, <3>3, <3>7, <3>10 DEF SameSheets
    <3>. HIDE DEF I
    <3>. QED BY <3>8, <3>9
  <2>2. CASE k + 1 \notin S
    <3>1. InRow(dom, b, tr, k + 1) = b
      BY <1>4, <2>2 DEF InRow
    <3>2. Count(S, k + 1) = Count(S, k)
      BY <1>3, <2>0, <2>2
    <3>4. OfRow(dom, table, tr, k + 1) = OfRow(dom, table, tr, k)
      BY <1>s, <2>0, <2>2, PartsOfRow
    <3>3. I(b, k + 1)
      BY <1>5, <3>2, <3>4
    <3>. HIDE DEF I
    <3>. QED BY <3>1, <3>3
  <2>. QED BY <2>1, <2>2
<1>6. 0..n \subseteq {k \in 0..n : I(r[k], k)}
  <2>. DEFINE D == {k \in 0..n : I(r[k], k)}
  <2>1. I(r[0], 0)
    BY <1>2, <1>3
  <2>2. ASSUME NEW k \in 0..n-1, I(r[k], k) PROVE I(r[k+1], k + 1)
    <3>1. r[k+1] = InRow(dom, r[k], tr, k + 1)
      BY <1>1, <1>2
    <3>. HIDE DEF I
    <3>. QED BY <1>5, <2>2, <3>1
  <2>3. 0 \in D /\ \A k \in 0..n-1 : k \in D => k + 1 \in D
    <3>. HIDE DEF I
    <3>. QED BY <1>1, <2>1, <2>2
  <2>4. 0..n \subseteq D
    <3>. HIDE DEF D
    <3>. QED BY <1>1, <2>3, BoundedInduction
  <2>. QED BY <2>4
<1>7. I(r[n], n)
  <2>. HIDE DEF I
  <2>. QED BY <1>1, <1>6
<1>8. t.doc = r[n].doc /\ AtPlace(t, i + 1, 0)
  BY <1>2 DEF AtPlace
<1>. QED BY <1>7, <1>8 DEF n, t, SameSheets

LEMMA RowsRead ==
  ASSUME NEW a, IsDoc(a), NEW W, NEW R, NEW F, NEW d, Reading(a, d, W, R, F),
         d.cur \in ToSet(d.order), NEW dom, IsPage(dom),
         NEW table, table \in DOMAIN dom, dom[table].tag = "table", d.cur = Title(dom, table),
         Filled(a, d, dom, OfTable(dom, table, 0)),
         \A tr \in TrsOf(dom, table) : \A td \in TdsOf(dom, tr) :
           HasChildren(dom, td) =>
             <<d.cur, <<Count(TrsOf(dom, table), tr - 1), Count(TdsOf(dom, tr), td - 1)>>>> \in W
  PROVE  /\ Reading(a, html_read_rows(d, dom, table), W, R, F)
         /\ Filled(a, html_read_rows(d, dom, table), dom, OfTable(dom, table, Len(dom)))
<1>. DEFINE n == Len(dom)
            S == TrsOf(dom, table)
<1>1. IsSeq(dom) /\ n \in Nat /\ DOMAIN dom = 1..n
  BY DEF IsPage, IsSeq
<1>2. PICK r : /\ r[0] = [doc |-> d, at |-> <<0, 0>>]
               /\ \A k \in 1..n : r[k] = InTable(dom, r[k-1], table, k)
               /\ html_read_rows(d, dom, table) = r[n].doc
  <2>1. PICK u : u = html_read_rows(d, dom, table)
    OBVIOUS
  <2>2. PICK r : /\ r[0] = [doc |-> d, at |-> <<0, 0>>]
                 /\ \A k \in 1..Len(dom) : r[k] = InTable(dom, r[k-1], table, k)
                 /\ html_read_rows(d, dom, table) = r[Len(dom)].doc
    BY <1>1, <2>1, HtmlRowsLoop
  <2>. QED BY <2>2
<1>3. /\ Count(S, 0) = 0 /\ \A k \in Nat : Count(S, k) \in Nat
      /\ \A k \in Nat : k + 1 \in S => Count(S, k + 1) = Count(S, k) + 1
      /\ \A k \in Nat : k + 1 \notin S => Count(S, k + 1) = Count(S, k)
  <2>. HIDE DEF S
  <2>. QED BY Counting
<1>4. \A k \in 0..n-1 : k + 1 \in S <=> IsKid(dom, k + 1, table, "tr")
  BY <1>1 DEF TrsOf
<1>s. S = TrsOf(dom, table)
  OBVIOUS
<1>. HIDE DEF n, S
<1>. DEFINE I(b, k) == /\ Reading(a, b.doc, W, R, F)
                       /\ b.doc.cur = d.cur /\ b.doc.order = d.order
                       /\ AtPlace(b, Count(S, k), 0)
                       /\ Filled(a, b.doc, dom, OfTable(dom, table, k))
<1>5. ASSUME NEW k \in 0..n-1, NEW b, I(b, k) PROVE I(InTable(dom, b, table, k + 1), k + 1)
  <2>0. k \in Nat /\ (k + 1) - 1 = k
    BY <1>1
  <2>1. CASE k + 1 \in S
    <3>1. PICK i : i = Count(S, k)
      OBVIOUS
    <3>2. i \in Nat /\ Count(S, k + 1) = i + 1
      BY <1>3, <2>0, <2>1, <3>1
    <3>3. PICK tr : tr = k + 1
      OBVIOUS
    <3>4. \A td \in TdsOf(dom, tr) :
            HasChildren(dom, td) => <<b.doc.cur, <<i, Count(TdsOf(dom, tr), td - 1)>>>> \in W
      BY <1>5, <1>s, <2>0, <2>1, <3>1, <3>3
    <3>5. Reading(a, b.doc, W, R, F) /\ AtPlace(b, i, 0) /\ b.doc.cur \in ToSet(b.doc.order)
      BY <1>5, <3>1
    <3>6. PICK c : c = html_read_row(dom, b, tr)
      OBVIOUS
    <3>10. /\ b.doc.cur = Title(dom, table) /\ tr \in TrsOf(dom, table)
           /\ i = Count(TrsOf(dom, table), tr - 1)
      BY <1>5, <1>s, <2>0, <2>1, <3>1, <3>3
    <3>11. Filled(a, b.doc, dom, OfRow(dom, table, tr, 0))
      <4>1. OfRow(dom, table, tr, 0) = OfTable(dom, table, k)
        BY <2>0, <3>3, PartsOfTable
      <4>. QED BY <1>5, <4>1
    <3>12. /\ Reading(a, c.doc, W, R, F) /\ SameSheets(b.doc, c.doc) /\ AtPlace(c, i + 1, 0)
           /\ Filled(a, c.doc, dom, OfRow(dom, table, tr, Len(dom)))
      <4>. HIDE DEF I
      <4>. QED BY <3>2, <3>4, <3>5, <3>6, <3>10, <3>11, RowRead
    <3>7. /\ Reading(a, c.doc, W, R, F) /\ SameSheets(b.doc, c.doc) /\ AtPlace(c, i + 1, 0)
          /\ Filled(a, c.doc, dom, OfTable(dom, table, k + 1))
      <4>1. OfRow(dom, table, tr, Len(dom)) = OfTable(dom, table, tr)
        BY <2>0, <3>3, PartsOfTable
      <4>. QED BY <3>3, <3>12, <4>1
    <3>8. InTable(dom, b, table, k + 1) = c
      BY <1>4, <2>1, <3>3, <3>6 DEF InTable
    <3>9. I(c, k + 1)
      BY <1>5, <3>2, <3>7 DEF SameSheets
    <3>. HIDE DEF I
    <3>. QED BY <3>8, <3>9
  <2>2. CASE k + 1 \notin S
    <3>1. InTable(dom, b, table, k + 1) = b
      BY <1>4, <2>2 DEF InTable
    <3>2. Count(S, k + 1) = Count(S, k)
      BY <1>3, <2>0, <2>2
    <3>4. OfTable(dom, table, k + 1) = OfTable(dom, table, k)
      BY <1>s, <2>0, <2>2, PartsOfTable
    <3>3. I(b, k + 1)
      BY <1>5, <3>2, <3>4
    <3>. HIDE DEF I
    <3>. QED BY <3>1, <3>3
  <2>. QED BY <2>1, <2>2
<1>6. 0..n \subseteq {k \in 0..n : I(r[k], k)}
  <2>. DEFINE D == {k \in 0..n : I(r[k], k)}
  <2>1. I(r[0], 0)
    BY <1>2, <1>3 DEF AtPlace
  <2>2. ASSUME NEW k \in 0..n-1, I(r[k], k) PROVE I(r[k+1], k + 1)
    <3>1. r[k+1] = InTable(dom, r[k], table, k + 1)
      BY <1>1, <1>2
    <3>. HIDE DEF I
    <3>. QED BY <1>5, <2>2, <3>1
  <2>3. 0 \in D /\ \A k \in 0..n-1 : k \in D => k + 1 \in D
    <3>. HIDE DEF I
    <3>. QED BY <1>1, <2>1, <2>2
  <2>4. 0..n \subseteq D
    <3>. HIDE DEF D
    <3>. QED BY <1>1, <2>3, BoundedInduction
  <2>. QED BY <2>4
<1>7. I(r[n], n)
  <2>. HIDE DEF I
  <2>. QED BY <1>1, <1>6
<1>. QED BY <1>2, <1>7 DEF n

(* Where the td of a page belong, and the counters that tell the rows and
   columns. *)
LEMMA Places ==
  ASSUME NEW dom, IsPage(dom), NEW W, \A td \in Tds(dom) : Place(dom, td) \in W,
         NEW table \in DOMAIN dom, dom[table].tag = "table"
  PROVE  \A tr \in TrsOf(dom, table) : \A td \in TdsOf(dom, tr) :
           HasChildren(dom, td) =>
             <<Title(dom, table),
               <<Count(TrsOf(dom, table), tr - 1), Count(TdsOf(dom, tr), td - 1)>>>> \in W
<1>. SUFFICES ASSUME NEW tr \in TrsOf(dom, table), NEW td \in TdsOf(dom, tr), HasChildren(dom, td)
              PROVE  <<Title(dom, table), <<Count(TrsOf(dom, table), tr - 1),
                                            Count(TdsOf(dom, tr), td - 1)>>>> \in W
  OBVIOUS
<1>1. /\ tr \in DOMAIN dom /\ dom[tr].up = table /\ dom[tr].tag = "tr"
      /\ td \in DOMAIN dom /\ dom[td].up = tr /\ dom[td].tag = "td"
  BY DEF TrsOf, TdsOf, IsKid
<1>2. td \in Tds(dom) /\ TableOf(dom, td) = table
  BY <1>1 DEF Tds, TableOf, IsKid
<1>3. Before(dom, td) = Count(TdsOf(dom, tr), td - 1)
  BY <1>1 DEF Before, Count, TdsOf
<1>4. Before(dom, tr) = Count(TrsOf(dom, table), tr - 1)
  BY <1>1 DEF Before, Count, TrsOf
<1>5. Place(dom, td) = <<Title(dom, table), <<Before(dom, tr), Before(dom, td)>>>>
  BY <1>1, <1>2 DEF Place
<1>. QED BY <1>2, <1>3, <1>4, <1>5

(* The counters of the tables without a caption, after k nodes of the page. *)
Numbered(dom, s, k) ==
  s.tbl_nr = [l \in 0..Len(dom) |-> 1 + Count(Untitled(dom, l), k)]

IsH(s) == s = [doc |-> s.doc, tbl_nr |-> s.tbl_nr]

(* A node visited: a table is read into the sheet of its title. *)
LEMMA NodeRead ==
  ASSUME NEW a, IsDoc(a), NEW W, NEW R, NEW F,
         NEW dom, IsPage(dom), \A td \in Tds(dom) : Place(dom, td) \in W,
         NEW k \in Nat, NEW i, i = k + 1, i \in DOMAIN dom,
         NEW s, Reading(a, s.doc, W, R, F), IsH(s),
         Numbered(dom, s, k), Filled(a, s.doc, dom, OfPage(dom, k))
  PROVE  LET t == Traverse(dom, s, i)
         IN /\ Reading(a, t.doc, W, R, F) /\ IsH(t) /\ Numbered(dom, t, i)
            /\ Filled(a, t.doc, dom, OfPage(dom, i))
<1>t. PICK t : t = Traverse(dom, s, i)
  OBVIOUS
<1>s. s = [doc |-> s.doc, tbl_nr |-> s.tbl_nr]
  BY DEF IsH
<1>1. IsSeq(dom) /\ dom[i].up \in 0..i-1
  BY DEF IsPage
<1>2. Len(dom) \in Nat /\ DOMAIN dom = 1..Len(dom)
  BY <1>1 DEF IsSeq
<1>. DEFINE list == dom[i].up
            C(l) == Untitled(dom, l)
<1>3. list \in 0..Len(dom)
  BY <1>1, <1>2
<1>4. \A l : /\ Count(C(l), k) \in Nat
             /\ i \in C(l) => Count(C(l), i) = Count(C(l), k) + 1
             /\ i \notin C(l) => Count(C(l), i) = Count(C(l), k)
  <2>. HIDE DEF C
  <2>. QED BY Counting
<1>5. \A l : i \in C(l) <=> /\ l = list /\ dom[i].tag = "table" /\ Captions(dom, i) = {}
  BY DEF Untitled, IsKid
<1>6. ASSUME i \notin C(list) PROVE \A l \in 0..Len(dom) : Count(C(l), i) = Count(C(l), k)
  BY <1>4, <1>5, <1>6
<1>7. CASE dom[i].tag /= "table"
  <2>1. t = s
    BY <1>t, <1>7 DEF Traverse
  <2>2. \A l \in 0..Len(dom) : Count(C(l), i) = Count(C(l), k)
    BY <1>5, <1>6, <1>7
  <2>3. Numbered(dom, t, i)
    <3>. HIDE DEF C
    <3>. QED BY <2>1, <2>2 DEF Numbered, C
  <2>4. OfPage(dom, i) = OfPage(dom, k)
    BY <1>7, PartsOfPage
  <2>. QED BY <1>t, <2>1, <2>3, <2>4
<1>8. CASE dom[i].tag = "table"
  <2>1. PICK c : c = NewSheet(s.doc, Title(dom, i))
    OBVIOUS
  <2>2. Reading(a, c, W, R, F) /\ c.cur = Title(dom, i) /\ c.cur \in ToSet(c.order)
    BY <2>1, ReadingOpens
  <2>3. \A tr \in TrsOf(dom, i) : \A td \in TdsOf(dom, tr) :
          HasChildren(dom, td) =>
            <<c.cur, <<Count(TrsOf(dom, i), tr - 1), Count(TdsOf(dom, tr), td - 1)>>>> \in W
    BY <1>8, <2>2, Places
  <2>7. Filled(a, c, dom, OfTable(dom, i, 0))
    <3>1. OfTable(dom, i, 0) = OfPage(dom, k)
      BY PartsOfPage
    <3>2. ToSet(a.order) \subseteq ToSet(s.doc.order) /\ IsDoc(s.doc)
      BY DEF Reading, Grown
    <3>3. PICK T : T = OfPage(dom, k)
      OBVIOUS
    <3>4. Filled(a, NewSheet(s.doc, Title(dom, i)), dom, T)
      BY <3>2, <3>3, FilledOpens
    <3>. QED BY <2>1, <3>1, <3>3, <3>4
  <2>8. /\ Reading(a, html_read_rows(c, dom, i), W, R, F)
        /\ Filled(a, html_read_rows(c, dom, i), dom, OfTable(dom, i, Len(dom)))
    BY <1>8, <2>2, <2>3, <2>7, RowsRead
  <2>4. /\ Reading(a, html_read_rows(c, dom, i), W, R, F)
        /\ Filled(a, html_read_rows(c, dom, i), dom, OfPage(dom, i))
    <3>1. OfTable(dom, i, Len(dom)) = OfPage(dom, i)
      BY PartsOfPage
    <3>. QED BY <2>8, <3>1
  <2>5. CASE Captions(dom, i) = {}
    <3>1. s.tbl_nr[list] = 1 + Count(C(list), k)
      BY <1>3 DEF Numbered
    <3>2. Title(dom, i) = html_table[s.tbl_nr[list]]
      <4>1. Title(dom, i) = html_table[Count(C(list), i)]
        BY <2>5 DEF Title, Count
      <4>. HIDE DEF C, list
      <4>. QED BY <1>4, <1>5, <1>8, <2>5, <3>1, <4>1
    <3>3. t = [doc |-> html_read_rows(c, dom, i), tbl_nr |-> [s.tbl_nr EXCEPT ![list] = @ + 1]]
      BY <1>t, <1>8, <2>1, <2>5, <3>2 DEF Traverse, ReadTable
    <3>4. \A l \in 0..Len(dom) :
            [s.tbl_nr EXCEPT ![list] = @ + 1][l] = 1 + Count(C(l), i)
      <4>1. \A l \in 0..Len(dom) : s.tbl_nr[l] = 1 + Count(C(l), k)
        BY DEF Numbered
      <4>2. DOMAIN s.tbl_nr = 0..Len(dom)
        BY DEF Numbered
      <4>. HIDE DEF C, list
      <4>. QED BY <1>3, <1>4, <1>5, <1>8, <2>5, <4>1, <4>2
    <3>5. Numbered(dom, t, i)
      <4>1. PICK g : g = [s.tbl_nr EXCEPT ![list] = @ + 1]
        OBVIOUS
      <4>2. g = [l \in 0..Len(dom) |-> g[l]]
        BY <4>1 DEF Numbered
      <4>. HIDE DEF C, list
      <4>3. g = [l \in 0..Len(dom) |-> 1 + Count(C(l), i)]
        BY <3>4, <4>1, <4>2
      <4>. QED BY <3>3, <4>1, <4>3 DEF Numbered, C
    <3>. QED BY <1>t, <2>4, <3>3, <3>5 DEF IsH
  <2>6. CASE Captions(dom, i) /= {}
    <3>1. t = [s EXCEPT !.doc = html_read_rows(c, dom, i)]
      BY <1>t, <1>8, <2>1, <2>6 DEF Traverse, ReadTable, Title
    <3>2. t = [doc |-> html_read_rows(c, dom, i), tbl_nr |-> s.tbl_nr]
      BY <1>s, <3>1
    <3>3. \A l \in 0..Len(dom) : Count(C(l), i) = Count(C(l), k)
      BY <1>5, <1>6, <2>6
    <3>4. Numbered(dom, t, i)
      <4>. HIDE DEF C
      <4>. QED BY <3>2, <3>3 DEF Numbered, C
    <3>. QED BY <1>t, <2>4, <3>2, <3>4 DEF IsH
  <2>. QED BY <2>5, <2>6
<1>. QED BY <1>7, <1>8

(* The td of a page fill their places. *)
LEMMA PageRead ==
  ASSUME NEW a, IsDoc(a), NEW W, NEW R, NEW F, Backed(a, F),
         NEW dom, IsPage(dom), \A td \in Tds(dom) : Place(dom, td) \in W
  PROVE  /\ Reading(a, traverse_dom_trees(a, dom), W, R, F)
         /\ Filled(a, traverse_dom_trees(a, dom), dom, Tds(dom))
<1>. DEFINE n == Len(dom)
<1>1. IsSeq(dom) /\ n \in Nat /\ DOMAIN dom = 1..n
  BY DEF IsPage, IsSeq
<1>2. PICK r : /\ r[0] = [doc |-> a, tbl_nr |-> [i \in 0..n |-> 1]]
               /\ \A k \in 1..n : r[k] = Traverse(dom, r[k-1], k)
               /\ traverse_dom_trees(a, dom) = r[n].doc
  <2>1. PICK u : u = traverse_dom_trees(a, dom)
    OBVIOUS
  <2>2. PICK r : /\ r[0] = [doc |-> a, tbl_nr |-> [i \in 0..Len(dom) |-> 1]]
                 /\ \A k \in 1..Len(dom) : r[k] = Traverse(dom, r[k-1], k)
                 /\ traverse_dom_trees(a, dom) = r[Len(dom)].doc
    BY <1>1, <2>1, TraverseLoop
  <2>. QED BY <2>2
<1>n. n = Len(dom)
  OBVIOUS
<1>. HIDE DEF n
<1>. DEFINE I(b, k) == /\ Reading(a, b.doc, W, R, F) /\ IsH(b) /\ Numbered(dom, b, k)
                       /\ Filled(a, b.doc, dom, OfPage(dom, k))
<1>3. ASSUME NEW k \in 0..n-1, NEW b, I(b, k) PROVE I(Traverse(dom, b, k + 1), k + 1)
  <2>1. PICK i : i = k + 1
    OBVIOUS
  <2>2. k \in Nat /\ i \in DOMAIN dom
    BY <1>1, <2>1
  <2>3. PICK c : c = Traverse(dom, b, i)
    OBVIOUS
  <2>4. I(c, i)
    BY <1>3, <2>1, <2>2, <2>3, NodeRead
  <2>. HIDE DEF I
  <2>. QED BY <2>1, <2>3, <2>4
<1>4. I(r[0], 0)
  <2>1. \A l : Count(Untitled(dom, l), 0) = 0
    BY Counting
  <2>2. [i \in 0..n |-> 1] = [l \in 0..Len(dom) |-> 1 + Count(Untitled(dom, l), 0)]
    BY <1>n, <2>1
  <2>3. Reading(a, a, W, R, F)
    BY ReadingStarts
  <2>4. Filled(a, a, dom, OfPage(dom, 0))
    <3>1. OfPage(dom, 0) = {}
      BY PartsOfPage
    <3>2. Filled(a, a, dom, {})
      BY DEF Filled, Old
    <3>. QED BY <3>1, <3>2
  <2>. QED BY <1>2, <2>2, <2>3, <2>4 DEF Numbered, IsH
<1>5. 0..n \subseteq {k \in 0..n : I(r[k], k)}
  <2>. DEFINE D == {k \in 0..n : I(r[k], k)}
  <2>1. ASSUME NEW k \in 0..n-1, I(r[k], k) PROVE I(r[k+1], k + 1)
    <3>1. r[k+1] = Traverse(dom, r[k], k + 1)
      BY <1>1, <1>2
    <3>. HIDE DEF I
    <3>. QED BY <1>3, <2>1, <3>1
  <2>2. 0 \in D /\ \A k \in 0..n-1 : k \in D => k + 1 \in D
    <3>. HIDE DEF I
    <3>. QED BY <1>1, <1>4, <2>1
  <2>3. 0..n \subseteq D
    <3>. HIDE DEF D
    <3>. QED BY <1>1, <2>2, BoundedInduction
  <2>. QED BY <2>3
<1>6. I(r[n], n)
  <2>. HIDE DEF I
  <2>. QED BY <1>1, <1>5
<1>7. OfPage(dom, n) = Tds(dom)
  <2>1. \A td \in Tds(dom) : TableOf(dom, td) \in 1..n
    BY <1>n, TdStands
  <2>. QED BY <1>1, <2>1 DEF OfPage
<1>. QED BY <1>2, <1>6, <1>7
-----------------------------------------------------------------------------
(* The files *)

(* What the files loaded so far bring along as formulas. *)
Known(fs) == UNION {Formulas[f] : f \in ToSet(fs)}

LEMMA PlaceWritten ==
  ASSUME NEW f \in DOMAIN Files, NEW x \in Held[f] \cup Formulas[f]
  PROVE  <<x.sheet, x.at>> \in Written[f]
BY DEF Written

LEMMA CsvAllowed ==
  ASSUME NEW f \in DOMAIN Files, Files[f].there, Files[f].kind = "csv"
  PROVE  /\ IsTable(Files[f].rows)
         /\ \A i \in DOMAIN Files[f].rows : \A j \in DOMAIN Files[f].rows[i] :
              <<CsvSheet, <<i - 1, j - 1>>>> \in Written[f]
<1>1. IsTable(Files[f].rows)
  BY DocumentsAssumption
<1>2. Held[f] = CsvHolds(Files[f])
  BY DEF Held
<1>3. ASSUME NEW i \in DOMAIN Files[f].rows, NEW j \in DOMAIN Files[f].rows[i]
      PROVE  <<CsvSheet, <<i - 1, j - 1>>>> \in Written[f]
  <2>. DEFINE x == Item(CsvSheet, <<i - 1, j - 1>>, [label |-> Files[f].rows[i][j]])
  <2>1. x \in Held[f]
    <3>. DEFINE Row(m) == {Item(CsvSheet, <<m - 1, k - 1>>, [label |-> Files[f].rows[m][k]]) :
                             k \in DOMAIN Files[f].rows[m]}
    <3>1. x \in Row(i)
      OBVIOUS
    <3>2. CsvHolds(Files[f]) = UNION {Row(m) : m \in DOMAIN Files[f].rows}
      BY DEF CsvHolds
    <3>. HIDE DEF x, Row
    <3>. QED BY <1>2, <3>1, <3>2
  <2>2. x.sheet = CsvSheet /\ x.at = <<i - 1, j - 1>>
    BY DEF Item
  <2>. HIDE DEF x
  <2>. QED BY <2>1, <2>2, PlaceWritten
<1>. QED BY <1>1, <1>3

(* Of the td of one place one is read last. *)
LEMMA LastTd ==
  ASSUME NEW dom, IsPage(dom), NEW td \in Tds(dom)
  PROVE  \E i \in Tds(dom) :
           /\ Place(dom, i) = Place(dom, td)
           /\ \A j \in Tds(dom) :
                Place(dom, j) = Place(dom, i) => TableOf(dom, j) <= TableOf(dom, i)
<1>. DEFINE Same == {j \in Tds(dom) : Place(dom, j) = Place(dom, td)}
            S == {TableOf(dom, j) : j \in Same}
<1>1. /\ DOMAIN dom = 1..Len(dom) /\ Len(dom) \in Nat
      /\ \A j \in DOMAIN dom : dom[j].up \in 0..j-1
  BY DEF IsPage, IsSeq
<1>2. ASSUME NEW j \in Tds(dom) PROVE TableOf(dom, j) \in 1..Len(dom)
  BY <1>1 DEF Tds, TableOf, IsKid
<1>3. S \in SUBSET (1..Len(dom)) /\ S \in SUBSET Nat /\ td \in Same
  BY <1>2
<1>4. IsFiniteSet(S)
  <2>1. IsFiniteSet(1..Len(dom))
    BY <1>1, FS_Interval
  <2>. QED BY <1>3, <2>1, FS_Subset
<1>5. PICK m : m \in S /\ \A y \in S : y <= m
  BY <1>3, <1>4, Greatest
<1>6. PICK i \in Same : TableOf(dom, i) = m
  BY <1>5
<1>. QED BY <1>5, <1>6

LEMMA HtmlAllowed ==
  ASSUME NEW f \in DOMAIN Files, Files[f].there, Files[f].kind = "html"
  PROVE  /\ IsPage(Files[f].dom)
         /\ \A td \in Tds(Files[f].dom) : Place(Files[f].dom, td) \in Written[f]
<1>. DEFINE dom == Files[f].dom
<1>1. IsPage(dom)
  BY DocumentsAssumption
<1>2. Held[f] = HtmlHolds(dom)
  BY DEF Held
<1>3. ASSUME NEW td \in Tds(dom) PROVE Place(dom, td) \in Written[f]
  <2>1. PICK i \in Tds(dom) :
           /\ Place(dom, i) = Place(dom, td)
           /\ \A j \in Tds(dom) :
                Place(dom, j) = Place(dom, i) => TableOf(dom, j) <= TableOf(dom, i)
    BY <1>1, LastTd
  <2>. DEFINE text == Content(dom, i)
              x == Item(Place(dom, i)[1], Place(dom, i)[2],
                        IF IsNumber(text) THEN [val |-> strtod[Head(text)]] ELSE [label |-> text])
  <2>2. x \in HtmlHolds(dom)
    BY <2>1 DEF HtmlHolds
  <2>3. x.sheet = Place(dom, i)[1] /\ x.at = Place(dom, i)[2]
    BY DEF Item
  <2>4. <<x.sheet, x.at>> = Place(dom, i)
    BY <2>3 DEF Place
  <2>. HIDE DEF x
  <2>. QED BY <1>2, <2>1, <2>2, <2>4, PlaceWritten
<1>. QED BY <1>1, <1>3

LEMMA XlsxAllowed ==
  ASSUME NEW f \in DOMAIN Files, Files[f].there, Files[f].kind = "xlsx", NEW F, Formulas[f] \subseteq F
  PROVE  /\ IsBook(Files[f].sheets)
         /\ \A i \in PartsThere(Files[f]) :
              MayTake({Files[f].sheets[j].name : j \in DOMAIN Files[f].sheets}, Files[f].sheets[i],
                      Written[f], Referenced[f], F)
<1>. DEFINE sheets == Files[f].sheets
            names == {sheets[j].name : j \in DOMAIN sheets}
<1>1. IsBook(sheets)
  BY DocumentsAssumption
<1>2. Held[f] = XlsxHolds(Files[f]) /\ Formulas[f] = XlsxFormulas(Files[f])
  BY DEF Held, Formulas
<1>3. ASSUME NEW i \in PartsThere(Files[f]), NEW c \in ToSet(sheets[i].cells)
      PROVE  Allowed(names, sheets[i].name, c, Written[f], Referenced[f], F)
  <2>1. i \in DOMAIN sheets
    BY DEF PartsThere
  <2>2. /\ c.at \in Nat \X Nat
        /\ Holds(c) = "formula" => RefersTo(c, names)
    BY <1>1, <2>1 DEF IsBook
  <2>. DEFINE n == sheets[i].name
  <2>3. ASSUME Holds(c) = "formula"
        PROVE  \E x \in Formulas[f] : x.sheet = n /\ x.at = c.at /\ x.f = c.f
    <3>. DEFINE x == [sheet |-> n, at |-> c.at, f |-> c.f]
    <3>1. x \in XlsxFormulas(Files[f])
      BY <2>3 DEF XlsxFormulas
    <3>2. x.sheet = n /\ x.at = c.at /\ x.f = c.f
      OBVIOUS
    <3>. HIDE DEF x
    <3>. QED BY <1>2, <3>1, <3>2
  <2>4. ASSUME Holds(c) \in {"label", "number", "date"}
        PROVE  <<n, c.at>> \in Written[f]
    <3>1. ASSUME NEW y, Item(n, c.at, y) \in XlsxItems(n, c) PROVE <<n, c.at>> \in Written[f]
      <4>1. Item(n, c.at, y).sheet = n /\ Item(n, c.at, y).at = c.at
        BY DEF Item
      <4>2. Item(n, c.at, y) \in XlsxHolds(Files[f])
        BY <3>1 DEF XlsxHolds
      <4>. QED BY <1>2, <4>1, <4>2, PlaceWritten
    <3>2. CASE Holds(c) = "label"
      <4>1. Item(n, c.at, [label |-> c.text]) \in XlsxItems(n, c)
        BY <3>2 DEF XlsxItems
      <4>. QED BY <3>1, <4>1
    <3>3. CASE Holds(c) = "number"
      <4>1. Item(n, c.at, [val |-> c.num]) \in XlsxItems(n, c)
        BY <3>3 DEF XlsxItems
      <4>. QED BY <3>1, <4>1
    <3>4. CASE Holds(c) = "date"
      <4>1. Item(n, c.at, [val |-> Date(c.num)]) \in XlsxItems(n, c)
        BY <3>4 DEF XlsxItems
      <4>. QED BY <3>1, <4>1
    <3>. QED BY <2>4, <3>2, <3>3, <3>4
  <2>5. ASSUME Holds(c) /= "nothing" PROVE <<n, c.at>> \in Written[f]
    <3>1. Holds(c) \in {"label", "number", "date", "formula"}
      BY <2>5 DEF Holds
    <3>2. CASE Holds(c) = "formula"
      <4>1. PICK x \in Formulas[f] : x.sheet = n /\ x.at = c.at
        BY <2>3, <3>2
      <4>. QED BY <4>1, PlaceWritten
    <3>. QED BY <2>4, <3>1, <3>2
  <2>6. ASSUME Holds(c) = "formula"
        PROVE  /\ IsSeq(c.f.refs)
               /\ \A j \in DOMAIN c.f.refs :
                    /\ c.f.refs[j].sheet \in names \cup {None}
                    /\ <<IF c.f.refs[j].sheet = None THEN n ELSE c.f.refs[j].sheet, c.f.refs[j].at>>
                         \in Referenced[f]
    <3>1. IsSeq(c.f.refs) /\ \A j \in DOMAIN c.f.refs : c.f.refs[j].sheet \in names \cup {None}
      BY <2>2, <2>6 DEF RefersTo
    <3>2. PICK x \in Formulas[f] : x.sheet = n /\ x.at = c.at /\ x.f = c.f
      BY <2>3, <2>6
    <3>3. \A r \in ToSet(x.f.refs) : <<Target(x, r).sheet, r.at>> \in Referenced[f]
      BY <3>2 DEF Referenced
    <3>4. \A r \in ToSet(c.f.refs) : Target(x, r).sheet = IF r.sheet = None THEN n ELSE r.sheet
      BY <3>2 DEF Target
    <3>5. \A j \in DOMAIN c.f.refs : c.f.refs[j] \in ToSet(c.f.refs)
      BY DEF ToSet
    <3>. QED BY <3>1, <3>2, <3>3, <3>4, <3>5
  <2>. HIDE DEF n, names, sheets
  <2>. QED BY <2>2, <2>3, <2>5, <2>6 DEF Allowed, n
<1>. QED BY <1>1, <1>3 DEF MayTake
-----------------------------------------------------------------------------
(* The steps *)

(* The inductive invariant: the document is one that new_sheet and lookat can
   make, and its formulas are those of the workbooks loaded. *)
DocInv ==
  /\ plug_ins \in Seq(Kinds)
  /\ csv \in [line : Nat, col : Nat]
  /\ status \in {"up", "no file", "no caption text", "no current sheet"}
  /\ loaded \in Seq(DOMAIN Files)
  /\ IsDoc(doc)
  /\ Backed(doc, Known(loaded))

LEMMA BackedMore ==
  ASSUME NEW d, NEW F, NEW G, F \subseteq G, Backed(d, F)
  PROVE  Backed(d, G)
BY Zenon DEF Backed

LEMMA DocInvInit == Init => DocInv
<1>. SUFFICES ASSUME Init PROVE DocInv
  OBVIOUS
<1>1. IsDoc(doc) /\ doc.order = <<>>
  BY EmptyIsDoc DEF Init, Empty
<1>2. ToSet(doc.order) = {}
  BY <1>1 DEF ToSet
<1>3. Backed(doc, Known(loaded))
  BY <1>2 DEF Backed
<1>. QED BY <1>1, <1>3 DEF Init, DocInv

(* What a file loaded into a leaves in d. *)
Left(a, d, file) ==
  /\ ~file.there => d = a
  /\ file.there /\ file.kind = "csv" => Labels(a, d, file.rows, Len(file.rows), 0)
  /\ file.there /\ file.kind = "html" => Filled(a, d, file.dom, Tds(file.dom))
  /\ file.there /\ file.kind = "xlsx" => BookLeft(a, d, file)

(* A file loaded: what the reader did to the document. *)
LEMMA LoadReads ==
  ASSUME DocInv, NEW f \in DOMAIN Files, Load(f)
  PROVE  /\ Reading(doc, doc', Written[f], Referenced[f], Known(loaded'))
         /\ csv' \in [line : Nat, col : Nat]
         /\ status' \in {"up", "no file", "no caption text"}
         /\ status' = "up" => Left(doc, doc', Files[f])
         /\ loaded' \in Seq(DOMAIN Files) /\ loaded' = Append(loaded, f)
         /\ plug_ins' = plug_ins
<1>. DEFINE W == Written[f]
            R == Referenced[f]
            F == Known(loaded')
            file == Files[f]
<1>1. loaded' = Append(loaded, f) /\ plug_ins' = plug_ins /\ status = "up"
  BY DEF Load
<1>2. loaded' \in Seq(DOMAIN Files) /\ ToSet(loaded') = ToSet(loaded) \cup {f}
  BY <1>1, AppendedProperties DEF DocInv
<1>3. Known(loaded) \subseteq F /\ Formulas[f] \subseteq F
  BY <1>2 DEF Known
<1>4. IsDoc(doc) /\ Backed(doc, F)
  BY <1>3, BackedMore DEF DocInv
<1>5. Reading(doc, doc, W, R, F)
  BY <1>4, ReadingStarts
<1>6. /\ file.kind \in Kinds
      /\ file.kind = "csv" => CallCsv(file)
      /\ file.kind = "html" => CallHtml(file)
      /\ file.kind = "xlsx" => CallXlsx(file)
  <2>1. file.kind \in {"csv", "html", "xlsx"}
    BY DocumentsAssumption DEF Kinds
  <2>. QED BY <2>1 DEF Load, Kinds
<1>. HIDE DEF W, R, F
<1>7. CASE file.kind = "csv"
  <2>1. CASE ~file.there
    <3>1. doc' = doc /\ csv' = csv /\ status' = "no file"
      BY <1>6, <1>7, <2>1 DEF CallCsv
    <3>. QED BY <1>1, <1>2, <1>5, <3>1 DEF DocInv, W, R, F
  <2>2. CASE file.there
    <3>1. PICK t : t = csv_read(doc, file)
      OBVIOUS
    <3>2. doc' = t.doc /\ csv' = [line |-> t.line, col |-> t.col] /\ status' = "up"
      BY <1>1, <1>6, <1>7, <2>2, <3>1 DEF CallCsv
    <3>3. /\ IsTable(file.rows)
          /\ \A i \in DOMAIN file.rows : \A j \in DOMAIN file.rows[i] :
               <<CsvSheet, <<i - 1, j - 1>>>> \in W
      BY <1>7, <2>2, CsvAllowed DEF W
    <3>4. /\ Reading(doc, t.doc, W, R, F) /\ t.line \in Nat /\ t.col \in Nat
          /\ Labels(doc, t.doc, file.rows, Len(file.rows), 0)
      <4>. HIDE DEF file
      <4>. QED BY <1>4, <3>1, <3>3, CsvRead
    <3>5. Left(doc, doc', file)
      <4>. HIDE DEF file
      <4>. QED BY <1>7, <2>2, <3>2, <3>4 DEF Left
    <3>. QED BY <1>1, <1>2, <3>2, <3>4, <3>5 DEF W, R, F
  <2>. QED BY <2>1, <2>2
<1>8. CASE file.kind = "html"
  <2>1. CASE file.there /\ CaptionWithoutText(file.dom)
    <3>1. doc' = doc /\ csv' = csv /\ status' = "no caption text"
      BY <1>6, <1>8, <2>1 DEF CallHtml
    <3>. QED BY <1>1, <1>2, <1>5, <3>1 DEF DocInv, W, R, F
  <2>2. CASE ~file.there
    <3>1. doc' = doc /\ csv' = csv /\ status' = "up"
      BY <1>1, <1>6, <1>8, <2>2 DEF CallHtml
    <3>2. Left(doc, doc', file)
      BY <2>2, <3>1 DEF Left
    <3>. QED BY <1>1, <1>2, <1>5, <2>2, <3>1, <3>2 DEF DocInv, W, R, F
  <2>3. CASE file.there /\ ~CaptionWithoutText(file.dom)
    <3>0. /\ doc' = traverse_dom_trees(doc, file.dom)
          /\ csv' = csv /\ status' = "up"
      BY <1>1, <1>6, <1>8, <2>3 DEF CallHtml
    <3>1. IsPage(file.dom) /\ \A td \in Tds(file.dom) : Place(file.dom, td) \in W
      BY <1>8, <2>3, HtmlAllowed DEF W
    <3>2. PICK dom : dom = file.dom
      OBVIOUS
    <3>3. /\ Reading(doc, traverse_dom_trees(doc, dom), W, R, F)
          /\ Filled(doc, traverse_dom_trees(doc, dom), dom, Tds(dom))
      BY <1>4, <3>1, <3>2, PageRead
    <3>4. Left(doc, doc', file)
      <4>. HIDE DEF file
      <4>. QED BY <1>8, <2>3, <3>0, <3>2, <3>3 DEF Left
    <3>. QED BY <1>1, <1>2, <2>3, <3>0, <3>2, <3>3, <3>4 DEF DocInv, W, R, F
  <2>. QED BY <2>1, <2>2, <2>3
<1>9. CASE file.kind = "xlsx"
  <2>1. PICK t : t = IF file.there THEN open_xlsx(doc, file)
                     ELSE [doc |-> doc, rc |-> -1, lost |-> FALSE]
    OBVIOUS
  <2>2. /\ doc' = t.doc /\ csv' = csv
        /\ status' = IF t.lost THEN "no such sheet" ELSE "up"
    BY <1>1, <1>6, <1>9, <2>1 DEF CallXlsx
  <2>3. CASE ~file.there
    <3>1. t.doc = doc /\ t.lost = FALSE
      BY <2>1, <2>3
    <3>2. Left(doc, doc', file)
      BY <2>2, <2>3, <3>1 DEF Left
    <3>. QED BY <1>1, <1>2, <1>5, <2>2, <3>1, <3>2 DEF DocInv, W, R, F
  <2>4. CASE file.there
    <3>1. /\ IsBook(file.sheets)
          /\ \A i \in PartsThere(file) :
               MayTake({file.sheets[j].name : j \in DOMAIN file.sheets}, file.sheets[i], W, R, F)
      BY <1>3, <1>9, <2>4, XlsxAllowed DEF W, R
    <3>2. Reading(doc, t.doc, W, R, F) /\ t.lost = FALSE /\ BookLeft(doc, t.doc, file)
      <4>1. t = open_xlsx(doc, file)
        BY <2>1, <2>4
      <4>. HIDE DEF file
      <4>. QED BY <1>4, <3>1, <4>1, BookRead
    <3>3. Left(doc, doc', file)
      <4>. HIDE DEF file
      <4>. QED BY <1>9, <2>2, <2>4, <3>2 DEF Left
    <3>. QED BY <1>1, <1>2, <2>2, <3>2, <3>3 DEF DocInv, W, R, F
  <2>. QED BY <2>3, <2>4
<1>. QED BY <1>6, <1>7, <1>8, <1>9 DEF Kinds

(* No current sheet. *)
LEMMA Unselected ==
  ASSUME NEW d, IsDoc(d), NEW F, Backed(d, F), NEW c, c = [d EXCEPT !.cur = None]
  PROVE  IsDoc(c) /\ Backed(c, F)
<1>1. c = [order |-> d.order, cells |-> d.cells, max |-> d.max, cur |-> None]
  BY DEF IsDoc
<1>2. /\ c.order = d.order /\ c.cells = d.cells /\ c.max = d.max /\ c.cur = None
      /\ c = [order |-> c.order, cells |-> c.cells, max |-> c.max, cur |-> c.cur]
  BY <1>1
<1>3. \A n, p : Ent(c, n, p) = Ent(d, n, p) /\ (Has(c, n, p) <=> Has(d, n, p))
  BY <1>2 DEF Ent, Has
<1>4. IsDoc(c)
  BY <1>2, <1>3 DEF IsDoc
<1>5. Backed(c, F)
  <2>1. /\ ToSet(c.order) = ToSet(d.order)
        /\ \A n, p : Has(d, n, p) => Has(c, n, p)
        /\ \A n \in ToSet(d.order) : \A p :
             Ent(c, n, p).exp = Ent(d, n, p).exp /\ Ent(c, n, p).formula = Ent(d, n, p).formula
    BY <1>2, <1>3
  <2>. QED BY ONLY IsDoc(d), Backed(d, F), <2>1, BackedKept
<1>. QED BY <1>4, <1>5

(* A cell of the current sheet given a value or a label by the program. *)
LEMMA CellSet ==
  ASSUME NEW d, IsDoc(d), NEW F, Backed(d, F), NEW n \in ToSet(d.order), NEW p,
         NEW e, IsEnt(e), e.exp = Ent(d, n, p).exp, e.formula = Ent(d, n, p).formula,
         NEW c, c = Changed(d, n, p, e)
  PROVE  IsDoc(c) /\ Backed(c, F)
<1>1. /\ IsDoc(c) /\ c.order = d.order
      /\ \A m, q : Has(c, m, q) <=> Has(d, m, q) \/ (m = n /\ q = p)
      /\ \A m \in ToSet(d.order) : \A q :
           Ent(c, m, q) = IF m = n /\ q = p THEN e ELSE Ent(d, m, q)
  <2>. DEFINE b == Changed(d, n, p, e)
  <2>1. b = Changed(d, n, p, e) /\ c = b
    OBVIOUS
  <2>. HIDE DEF b
  <2>2. /\ IsDoc(b) /\ b.order = d.order
        /\ \A m, q : Has(b, m, q) <=> Has(d, m, q) \/ (m = n /\ q = p)
        /\ \A m \in ToSet(d.order) : \A q :
             Ent(b, m, q) = IF m = n /\ q = p THEN e ELSE Ent(d, m, q)
    BY <2>1, ChangedEffect
  <2>. QED BY <2>1, <2>2
<1>2. ASSUME NEW m \in ToSet(d.order), NEW q
      PROVE  Ent(c, m, q).exp = Ent(d, m, q).exp /\ Ent(c, m, q).formula = Ent(d, m, q).formula
  BY <1>1
<1>3. Backed(c, F)
  BY <1>1, <1>2, BackedKept
<1>. QED BY <1>1, <1>3

LEMMA PluginsLoaded ==
  ASSUME NEW registry \in Seq(Kinds), NEW kind \in Kinds, NEW found
  PROVE  load_plugin(registry, kind, found) \in Seq(Kinds)
BY DEF load_plugin

LEMMA DocInvStep == DocInv /\ [Next]_vars => DocInv'
<1>. SUFFICES ASSUME DocInv, [Next]_vars PROVE DocInv'
  OBVIOUS
<1>1. IsDoc(doc) /\ Backed(doc, Known(loaded))
  BY DEF DocInv
<1>2. CASE luaopen_sc
  <2>1. plug_ins' \in Seq(Kinds)
    <3>1. <<>> \in Seq(Kinds) /\ "html" \in Kinds /\ "xlsx" \in Kinds /\ "csv" \in Kinds
      BY DEF Kinds
    <3>2. \A found : load_plugin(<<>>, "html", found) \in Seq(Kinds)
      BY <3>1, PluginsLoaded
    <3>3. \A found : load_plugin(load_plugin(<<>>, "html", found), "xlsx", found) \in Seq(Kinds)
      BY <3>1, <3>2, PluginsLoaded
    <3>4. \A found : load_plugin(load_plugin(load_plugin(<<>>, "html", found), "xlsx", found),
                                 "csv", found) \in Seq(Kinds)
      BY <3>1, <3>3, PluginsLoaded
    <3>. QED BY <1>2, <3>4 DEF luaopen_sc
  <2>. QED BY <1>1, <1>2, <2>1 DEF luaopen_sc, DocInv
<1>3. ASSUME NEW f \in DOMAIN Files, Load(f) PROVE DocInv'
  <2>1. /\ Reading(doc, doc', Written[f], Referenced[f], Known(loaded'))
        /\ csv' \in [line : Nat, col : Nat]
        /\ status' \in {"up", "no file", "no caption text"}
        /\ loaded' \in Seq(DOMAIN Files)
        /\ plug_ins' = plug_ins
    BY <1>3, LoadReads
  <2>. QED BY <2>1 DEF DocInv, Reading
<1>4. ASSUME NEW n \in Names, io_newsheet(n) PROVE DocInv'
  <2>1. doc' = NewSheet(doc, n) /\ UNCHANGED <<plug_ins, csv, status, loaded>>
    BY <1>4 DEF io_newsheet
  <2>2. Reading(doc, doc, {}, {}, Known(loaded))
    BY <1>1, ReadingStarts
  <2>3. Reading(doc, doc', {}, {}, Known(loaded))
    BY <1>1, <2>1, <2>2, ReadingOpens
  <2>. QED BY <2>1, <2>3 DEF DocInv, Reading
<1>5. ASSUME NEW n \in Names, io_sheet(n) PROVE DocInv'
  <2>1. /\ doc' = [doc EXCEPT !.cur = IF n \in DOMAIN doc.cells THEN n ELSE None]
        /\ UNCHANGED <<plug_ins, csv, status, loaded>>
    BY <1>5 DEF io_sheet
  <2>2. IsDoc(doc') /\ Backed(doc', Known(loaded))
    <3>1. CASE n \in DOMAIN doc.cells
      <4>1. n \in ToSet(doc.order)
        BY <1>1, <3>1 DEF IsDoc
      <4>2. doc' = [doc EXCEPT !.cur = n]
        BY <2>1, <3>1
      <4>3. Reading(doc, doc, {}, {}, Known(loaded))
        BY <1>1, ReadingStarts
      <4>4. Reading(doc, doc', {}, {}, Known(loaded))
        BY <4>1, <4>2, <4>3, ReadingSelects
      <4>. QED BY <4>4 DEF Reading
    <3>2. CASE n \notin DOMAIN doc.cells
      BY <1>1, <2>1, <3>2, Unselected
    <3>. QED BY <3>1, <3>2
  <2>. QED BY <2>1, <2>2 DEF DocInv
<1>6. ASSUME NEW p, NEW e, IsEnt(e),
             doc.cur /= None => /\ e.exp = Ent(doc, doc.cur, p).exp
                                /\ e.formula = Ent(doc, doc.cur, p).formula,
             IF doc.cur = None THEN status' = "no current sheet" /\ doc' = doc
             ELSE status' = status /\ doc' = Changed(doc, doc.cur, p, e),
             UNCHANGED <<plug_ins, csv, loaded>>
      PROVE  DocInv'
  <2>1. CASE doc.cur = None
    BY <1>6, <2>1 DEF DocInv
  <2>2. CASE doc.cur /= None
    <3>1. doc.cur \in ToSet(doc.order)
      BY <1>1, <2>2 DEF IsDoc
    <3>2. PICK n : n = doc.cur
      OBVIOUS
    <3>3. IsDoc(doc') /\ Backed(doc', Known(loaded))
      BY <1>1, <1>6, <2>2, <3>1, <3>2, CellSet
    <3>. QED BY <1>6, <2>2, <3>3 DEF DocInv
  <2>. QED BY <2>1, <2>2
<1>e. ASSUME NEW p, doc.cur /= None PROVE IsEnt(Ent(doc, doc.cur, p))
  BY <1>1, <1>e DEF IsDoc
<1>7. ASSUME NEW p \in Cells, NEW v \in Nums, l_setnum(p, v) PROVE DocInv'
  <2>1. /\ IF doc.cur = None THEN status' = "no current sheet" /\ doc' = doc
           ELSE status' = status /\ doc' = Changed(doc, doc.cur, p, Valued(Ent(doc, doc.cur, p), v))
        /\ UNCHANGED <<plug_ins, csv, loaded>>
    BY <1>7 DEF l_setnum, OnCurrent
  <2>2. CASE doc.cur = None
    BY <2>1, <2>2 DEF DocInv
  <2>3. CASE doc.cur /= None
    <3>1. IsEnt(Ent(doc, doc.cur, p))
      BY <1>e, <2>3
    <3>2. PICK e : e = Valued(Ent(doc, doc.cur, p), v)
      OBVIOUS
    <3>3. IsEnt(e) /\ e.exp = Ent(doc, doc.cur, p).exp /\ e.formula = Ent(doc, doc.cur, p).formula
      BY <3>1, <3>2, ValuedEnt
    <3>. QED BY <1>6, <2>1, <3>2, <3>3
  <2>. QED BY <2>2, <2>3
<1>8. ASSUME NEW p \in Cells, NEW t \in Texts, l_setstr(p, t) PROVE DocInv'
  <2>1. /\ IF doc.cur = None THEN status' = "no current sheet" /\ doc' = doc
           ELSE status' = status /\ doc' = Changed(doc, doc.cur, p, Labelled(Ent(doc, doc.cur, p), t))
        /\ UNCHANGED <<plug_ins, csv, loaded>>
    BY <1>8 DEF l_setstr, OnCurrent
  <2>2. CASE doc.cur = None
    BY <2>1, <2>2 DEF DocInv
  <2>3. CASE doc.cur /= None
    <3>1. IsEnt(Ent(doc, doc.cur, p))
      BY <1>e, <2>3
    <3>2. PICK e : e = Labelled(Ent(doc, doc.cur, p), t)
      OBVIOUS
    <3>3. IsEnt(e) /\ e.exp = Ent(doc, doc.cur, p).exp /\ e.formula = Ent(doc, doc.cur, p).formula
      BY <3>1, <3>2, LabelledEnt
    <3>. QED BY <1>6, <2>1, <3>2, <3>3
  <2>. QED BY <2>2, <2>3
<1>9. ASSUME NEW p \in Cells, l_getstr(p) PROVE DocInv'
  <2>1. /\ IF doc.cur = None THEN status' = "no current sheet" /\ doc' = doc
           ELSE status' = status /\ doc' = Changed(doc, doc.cur, p, Ent(doc, doc.cur, p))
        /\ UNCHANGED <<plug_ins, csv, loaded>>
    BY <1>9 DEF l_getstr, OnCurrent
  <2>2. CASE doc.cur = None
    BY <2>1, <2>2 DEF DocInv
  <2>3. CASE doc.cur /= None
    <3>1. PICK e : e = Ent(doc, doc.cur, p)
      OBVIOUS
    <3>2. IsEnt(e)
      BY <1>e, <2>3, <3>1
    <3>. QED BY <1>6, <2>1, <3>1, <3>2
  <2>. QED BY <2>2, <2>3
<1>10. CASE html_write
  <2>1. doc' = [doc EXCEPT !.cur = None] /\ UNCHANGED <<plug_ins, csv, status, loaded>>
    BY <1>10 DEF html_write
  <2>2. IsDoc(doc') /\ Backed(doc', Known(loaded))
    BY <1>1, <2>1, Unselected
  <2>. QED BY <2>1, <2>2 DEF DocInv
<1>11. CASE UNCHANGED vars
  BY <1>11 DEF vars, DocInv
<1>. QED BY <1>2, <1>3, <1>4, <1>5, <1>7, <1>8, <1>9, <1>10, <1>11 DEF Next

LEMMA DocInvAlways == Spec => []DocInv
BY DocInvInit, DocInvStep, PTL DEF Spec

(* Whatever the program loads and sets, and in whatever order: a sheet is on
   the document's list once and has its cells and extents, the current sheet
   is one of them or none, and every cell is an entry (new_sheet, lookat). *)
THEOREM TypeCorrect == Spec => []TypeOK
<1>1. DocInv => TypeOK
  <2>. SUFFICES ASSUME DocInv PROVE TypeOK
    OBVIOUS
  <2>1. IsDoc(doc)
    BY DEF DocInv
  <2>2. DOMAIN doc.cells = ToSet(doc.order) /\ DOMAIN doc.max = ToSet(doc.order)
    BY <2>1 DEF IsDoc
  <2>3. Cardinality(ToSet(doc.order)) = Len(doc.order)
    BY <2>1, InjectiveLen DEF IsDoc, IsSeq
  <2>4. doc.cur \in ToSet(doc.order) \cup {None}
    BY <2>1 DEF IsDoc
  <2>5. ASSUME NEW n \in DOMAIN doc.cells, NEW p \in DOMAIN doc.cells[n]
        PROVE  doc.cells[n][p].flag \subseteq {"VAL", "RP_LABEL", "RP_FORMULA"}
    <3>1. Ent(doc, n, p) = doc.cells[n][p]
      BY DEF Ent
    <3>2. IsEnt(Ent(doc, n, p))
      BY <2>1, <2>2 DEF IsDoc
    <3>. QED BY <3>1, <3>2 DEF IsEnt
  <2>6. ToSet(plug_ins) \subseteq Kinds
    BY ElementsOf DEF DocInv
  <2>. QED BY <2>2, <2>3, <2>4, <2>5, <2>6 DEF DocInv, TypeOK
<1>. QED BY <1>1, DocInvAlways, PTL

(* Whatever was loaded and set, in whatever order, also when a part of a
   workbook was missing: recalc finds every cell a formula refers to, each
   formula is the one of a workbook loaded, on its sheet and at its place, a
   reference without a sheet is to the sheet the formula is on, and the lexer
   never looked a cell up on a sheet that is not there (xlsx.c get_sheet_data,
   Lexer.l). *)
THEOREM FormulasAreBound == Spec => []FormulasBound
<1>1. DocInv => FormulasBound
  <2>. SUFFICES ASSUME DocInv PROVE FormulasBound
    OBVIOUS
  <2>1. IsDoc(doc) /\ Backed(doc, Known(loaded)) /\ status /= "no such sheet"
    BY DEF DocInv
  <2>2. ASSUME NEW n \in DOMAIN doc.cells, NEW p \in DOMAIN doc.cells[n],
               doc.cells[n][p].exp /= None
        PROVE  /\ \A b \in ToSet(doc.cells[n][p].exp) : Has(doc, b.sheet, b.at)
               /\ \E f \in ToSet(loaded) : \E x \in Formulas[f] :
                    /\ x.sheet = n /\ x.at = p /\ x.f.text = doc.cells[n][p].formula
                    /\ doc.cells[n][p].exp = [k \in DOMAIN x.f.refs |-> Target(x, x.f.refs[k])]
    <3>1. n \in ToSet(doc.order)
      BY <2>1 DEF IsDoc
    <3>2. PICK e : e = doc.cells[n][p]
      OBVIOUS
    <3>3. e = Ent(doc, n, p) /\ e.exp /= None
      BY <2>2, <3>2 DEF Ent
    <3>4. /\ \A r \in ToSet(Ent(doc, n, p).exp) : Has(doc, r.sheet, r.at)
          /\ \E x \in Known(loaded) : Backs(x, n, p, Ent(doc, n, p))
      BY <2>1, <3>1, <3>3, Zenon DEF Backed
    <3>5. PICK x \in Known(loaded) : Backs(x, n, p, e)
      BY <3>3, <3>4
    <3>6. PICK f \in ToSet(loaded) : x \in Formulas[f]
      BY DEF Known
    <3>7. /\ x.sheet = n /\ x.at = p /\ x.f.text = e.formula
          /\ e.exp = [k \in DOMAIN x.f.refs |-> Target(x, x.f.refs[k])]
      BY <3>5 DEF Backs
    <3>. QED BY <3>2, <3>3, <3>4, <3>6, <3>7
  <2>. QED BY <2>1, <2>2 DEF FormulasBound
<1>. QED BY <1>1, DocInvAlways, PTL

(* A load of any file into any document, complete or not: the sheets that were
   there stay in place and keep their cells, a cell that the file does not
   write and no formula of it refers to is what it was, a cell that a formula
   refers to is at most made and left blank, and no sheet's extents shrink. *)
THEOREM LoadsKeepTheRest == Spec => LoadKeepsRest
<1>1. ASSUME DocInv, [Next]_vars, Loads
      PROVE  LET f == Last(loaded')
             IN /\ IsPrefix(doc.order, doc'.order)
                /\ \A n \in DOMAIN doc'.cells : \A p \in DOMAIN doc'.cells[n] :
                     \/ <<n, p>> \in Written[f]
                     \/ Has(doc, n, p) /\ doc'.cells[n][p] = doc.cells[n][p]
                     \/ ~Has(doc, n, p) /\ <<n, p>> \in Referenced[f]
                                        /\ doc'.cells[n][p] = BlankEnt
                /\ \A n \in DOMAIN doc.cells :
                     /\ DOMAIN doc.cells[n] \subseteq DOMAIN doc'.cells[n]
                     /\ \A k \in 1..2 : doc.max[n][k] <= doc'.max[n][k]
  <2>1. loaded' /= loaded
    BY <1>1 DEF Loads
  <2>2. PICK f \in DOMAIN Files : Load(f)
    BY <1>1, <2>1 DEF Next, vars, luaopen_sc, io_newsheet, io_sheet, l_setnum, l_setstr, l_getstr,
                      OnCurrent, html_write
  <2>3. /\ Reading(doc, doc', Written[f], Referenced[f], Known(loaded'))
        /\ loaded' = Append(loaded, f)
    BY <1>1, <2>2, LoadReads
  <2>4. Last(loaded') = f
    <3>1. loaded \in Seq(DOMAIN Files)
      BY <1>1 DEF DocInv
    <3>. QED BY <2>3, <3>1 DEF Last
  <2>5. /\ IsDoc(doc) /\ IsDoc(doc') /\ Grown(doc, doc')
        /\ Within(doc, doc', Written[f], Referenced[f])
    BY <1>1, <2>3 DEF DocInv, Reading
  <2>6. DOMAIN doc.cells = ToSet(doc.order) /\ DOMAIN doc'.cells = ToSet(doc'.order)
    BY <2>5 DEF IsDoc
  <2>7. ASSUME NEW n \in DOMAIN doc'.cells, NEW p \in DOMAIN doc'.cells[n]
        PROVE  \/ <<n, p>> \in Written[f]
               \/ Has(doc, n, p) /\ doc'.cells[n][p] = doc.cells[n][p]
               \/ ~Has(doc, n, p) /\ <<n, p>> \in Referenced[f] /\ doc'.cells[n][p] = BlankEnt
    <3>1. Has(doc', n, p) /\ Ent(doc', n, p) = doc'.cells[n][p]
      BY DEF Has, Ent
    <3>2. Has(doc, n, p) => Ent(doc, n, p) = doc.cells[n][p]
      BY DEF Has, Ent
    <3>. QED BY <2>5, <3>1, <3>2 DEF Within
  <2>8. ASSUME NEW n \in DOMAIN doc.cells
        PROVE  /\ DOMAIN doc.cells[n] \subseteq DOMAIN doc'.cells[n]
               /\ \A k \in 1..2 : doc.max[n][k] <= doc'.max[n][k]
    BY <2>5, <2>6 DEF Grown, Has
  <2>. QED BY <2>4, <2>5, <2>7, <2>8 DEF Grown
<1>. QED BY <1>1, DocInvAlways, PTL DEF Spec, LoadKeepsRest
-----------------------------------------------------------------------------
(* The dump *)

LEMMA PrintedIs ==
  ASSUME NEW e, NEW y
  PROVE  y \in ToSet(Printed(e)) <=>
           \/ "RP_FORMULA" \in e.flag /\ y = [val |-> e.val]
           \/ "RP_LABEL" \in e.flag /\ y = [label |-> e.label]
           \/ "VAL" \in e.flag /\ y = [val |-> e.val]
<1>1. \A s, t, S : s \in Seq(S) /\ t \in Seq(S) => ToSet(s \o t) = ToSet(s) \cup ToSet(t)
  <2>. SUFFICES ASSUME NEW S, NEW s \in Seq(S), NEW t \in Seq(S)
                PROVE  ToSet(s \o t) = ToSet(s) \cup ToSet(t)
    OBVIOUS
  <2>1. /\ Len(s \o t) = Len(s) + Len(t) /\ Len(s) \in Nat /\ Len(t) \in Nat
        /\ \A i \in 1..Len(s) : (s \o t)[i] = s[i]
        /\ \A i \in 1..Len(t) : (s \o t)[Len(s) + i] = t[i]
        /\ DOMAIN (s \o t) = 1..Len(s) + Len(t) /\ DOMAIN s = 1..Len(s) /\ DOMAIN t = 1..Len(t)
    OBVIOUS
  <2>2. PICK u : u = s \o t
    OBVIOUS
  <2>3. \A i \in 1..Len(s) + Len(t) : i \in 1..Len(s) \/ i - Len(s) \in 1..Len(t)
    BY <2>1
  <2>4. ASSUME NEW i \in 1..Len(s) + Len(t) PROVE u[i] \in ToSet(s) \cup ToSet(t)
    <3>1. CASE i \in 1..Len(s)
      BY <2>1, <2>2, <3>1 DEF ToSet
    <3>2. CASE i - Len(s) \in 1..Len(t)
      <4>1. Len(s) + (i - Len(s)) = i
        BY <2>1
      <4>2. u[i] = t[i - Len(s)]
        BY <2>1, <2>2, <3>2, <4>1
      <4>. QED BY <2>1, <3>2, <4>2 DEF ToSet
    <3>. QED BY <2>3, <3>1, <3>2
  <2>5. \A i \in 1..Len(s) : s[i] \in ToSet(u)
    BY <2>1, <2>2 DEF ToSet
  <2>6. \A i \in 1..Len(t) : t[i] \in ToSet(u)
    <3>1. \A i \in 1..Len(t) : Len(s) + i \in 1..Len(s) + Len(t) /\ u[Len(s) + i] = t[i]
      BY <2>1, <2>2
    <3>. QED BY <2>1, <2>2, <3>1 DEF ToSet
  <2>7. \A x \in ToSet(u) : x \in ToSet(s) \cup ToSet(t)
    <3>1. \A x \in ToSet(u) : \E i \in 1..Len(s) + Len(t) : x = u[i]
      BY <2>1, <2>2 DEF ToSet
    <3>. QED BY <2>4, <3>1
  <2>8. \A x \in ToSet(s) \cup ToSet(t) : x \in ToSet(u)
    <3>1. \A x \in ToSet(s) : \E i \in 1..Len(s) : x = s[i]
      BY <2>1 DEF ToSet
    <3>2. \A x \in ToSet(t) : \E i \in 1..Len(t) : x = t[i]
      BY <2>1 DEF ToSet
    <3>. QED BY <2>5, <2>6, <3>1, <3>2
  <2>. QED BY <2>2, <2>7, <2>8
<1>. DEFINE v == [val |-> e.val]
            l == [label |-> e.label]
            S == {v, l}
            a == IF "RP_FORMULA" \in e.flag THEN <<v>> ELSE <<>>
            b == IF "RP_LABEL" \in e.flag THEN <<l>> ELSE <<>>
            c == IF "VAL" \in e.flag THEN <<v>> ELSE <<>>
<1>2. Printed(e) = (a \o b) \o c
  BY DEF Printed
<1>3. /\ \A x : ToSet(<<x>>) = {x}
      /\ ToSet(<<>>) = {}
  BY DEF ToSet
<1>4. a \in Seq(S) /\ b \in Seq(S) /\ c \in Seq(S)
  <2>1. v \in S /\ l \in S
    OBVIOUS
  <2>. HIDE DEF v, l, S
  <2>. QED BY <2>1
<1>5. /\ ToSet(a) = IF "RP_FORMULA" \in e.flag THEN {v} ELSE {}
      /\ ToSet(b) = IF "RP_LABEL" \in e.flag THEN {l} ELSE {}
      /\ ToSet(c) = IF "VAL" \in e.flag THEN {v} ELSE {}
  <2>. HIDE DEF v, l
  <2>. QED BY <1>3
<1>. HIDE DEF a, b, c, S
<1>6. a \o b \in Seq(S)
  BY <1>4
<1>7. ToSet(Printed(e)) = (ToSet(a) \cup ToSet(b)) \cup ToSet(c)
  BY <1>1, <1>2, <1>4, <1>6, Zenon
<1>. HIDE DEF v, l
<1>8. y \in ToSet(Printed(e)) <=>
        \/ "RP_FORMULA" \in e.flag /\ y = v
        \/ "RP_LABEL" \in e.flag /\ y = l
        \/ "VAL" \in e.flag /\ y = v
  BY <1>5, <1>7
<1>. QED BY <1>8 DEF v, l

(* The dump of the sheet n prints y at p. *)
Prints(d, n, p, y) ==
  /\ n \in ToSet(d.order)
  /\ p \in (0..d.max[n][1]) \X (0..d.max[n][2])
  /\ y \in ToSet(Printed(Ent(d, n, p)))

LEMMA ShownIs ==
  ASSUME NEW d, IsDoc(d)
  PROVE  /\ \A n, p, y : Prints(d, n, p, y) => Item(n, p, y) \in Shown(d)
         /\ \A x \in Shown(d) : \E n, p, y : x = Item(n, p, y) /\ Prints(d, n, p, y)
<1>. DEFINE Sheet(n) == UNION {{[sheet |-> n, at |-> p, is |-> x] : x \in ToSet(export(d, n)[p])} :
                                 p \in DOMAIN export(d, n)}
<1>1. DOMAIN d.cells = ToSet(d.order)
  BY DEF IsDoc
<1>2. Shown(d) = UNION {Sheet(n) : n \in ToSet(d.order)}
  BY <1>1 DEF Shown
<1>3. ASSUME NEW n
      PROVE  /\ DOMAIN export(d, n) = (0..d.max[n][1]) \X (0..d.max[n][2])
             /\ \A p \in DOMAIN export(d, n) : export(d, n)[p] = Printed(Ent(d, n, p))
  BY DEF export
<1>4. ASSUME NEW n, NEW x
      PROVE  x \in Sheet(n) <=> \E p \in DOMAIN export(d, n) : \E y \in ToSet(export(d, n)[p]) :
                                  x = [sheet |-> n, at |-> p, is |-> y]
  OBVIOUS
<1>. HIDE DEF Sheet
<1>5. ASSUME NEW n, NEW p, NEW y, Prints(d, n, p, y) PROVE Item(n, p, y) \in Shown(d)
  <2>1. p \in DOMAIN export(d, n) /\ y \in ToSet(export(d, n)[p]) /\ n \in ToSet(d.order)
    BY <1>3, <1>5 DEF Prints
  <2>2. Item(n, p, y) \in Sheet(n)
    BY <1>4, <2>1 DEF Item
  <2>. QED BY <1>2, <2>1, <2>2
<1>6. ASSUME NEW x \in Shown(d) PROVE \E n, p, y : x = Item(n, p, y) /\ Prints(d, n, p, y)
  <2>1. PICK n \in ToSet(d.order) : x \in Sheet(n)
    BY <1>2
  <2>2. PICK p \in DOMAIN export(d, n) : \E y \in ToSet(export(d, n)[p]) :
                                           x = [sheet |-> n, at |-> p, is |-> y]
    BY <1>4, <2>1
  <2>3. PICK y \in ToSet(export(d, n)[p]) : x = [sheet |-> n, at |-> p, is |-> y]
    BY <2>2
  <2>4. Prints(d, n, p, y)
    BY <1>3 DEF Prints
  <2>. QED BY <2>3, <2>4 DEF Item
<1>. QED BY <1>5, <1>6

(* A cell that the extents reach and that is flagged is printed. *)
LEMMA ReachedIsPrinted ==
  ASSUME NEW d, IsDoc(d), NEW n, NEW p, p \in Nat \X Nat, Reaches(d, n, p), NEW e, e = Ent(d, n, p)
  PROVE  /\ "VAL" \in e.flag => Item(n, p, [val |-> e.val]) \in Shown(d)
         /\ "RP_LABEL" \in e.flag => Item(n, p, [label |-> e.label]) \in Shown(d)
<1>1. n \in ToSet(d.order) /\ p[1] <= d.max[n][1] /\ p[2] <= d.max[n][2]
  BY DEF Reaches
<1>2. d.max[n][1] \in Nat /\ d.max[n][2] \in Nat
  BY <1>1, ExtentsAreNumbers
<1>3. p \in (0..d.max[n][1]) \X (0..d.max[n][2])
  BY <1>1, <1>2
<1>4. ASSUME NEW y, y \in ToSet(Printed(e)) PROVE Item(n, p, y) \in Shown(d)
  BY <1>1, <1>3, <1>4, ShownIs DEF Prints
<1>5. ASSUME "VAL" \in e.flag PROVE [val |-> e.val] \in ToSet(Printed(e))
  BY <1>5, PrintedIs
<1>6. ASSUME "RP_LABEL" \in e.flag PROVE [label |-> e.label] \in ToSet(Printed(e))
  BY <1>6, PrintedIs
<1>. QED BY <1>4, <1>5, <1>6

(* A number and a label, put into a cell that was blank, are all it prints. *)
LEMMA BlankPrints ==
  ASSUME NEW y
  PROVE  /\ y \notin ToSet(Printed(BlankEnt))
         /\ \A t : y \in ToSet(Printed(Labelled(BlankEnt, t))) => y = [label |-> t]
         /\ \A v : y \in ToSet(Printed(Valued(BlankEnt, v))) => y = [val |-> v]
<1>1. BlankEnt.flag = {}
  BY DEF BlankEnt
<1>2. ASSUME NEW t PROVE /\ Labelled(BlankEnt, t).flag = {"RP_LABEL"}
                         /\ Labelled(BlankEnt, t).label = t
  BY <1>1, BlankIsEnt, LabelledEnt
<1>3. ASSUME NEW v PROVE /\ Valued(BlankEnt, v).flag = {"VAL"}
                         /\ Valued(BlankEnt, v).val = v
  BY <1>1, BlankIsEnt, ValuedEnt
<1>4. y \notin ToSet(Printed(BlankEnt))
  BY <1>1, PrintedIs
<1>5. ASSUME NEW t, y \in ToSet(Printed(Labelled(BlankEnt, t))) PROVE y = [label |-> t]
  <2>1. PICK e : e = Labelled(BlankEnt, t)
    OBVIOUS
  <2>2. e.flag = {"RP_LABEL"} /\ e.label = t
    BY <1>2, <2>1
  <2>. QED BY <1>5, <2>1, <2>2, PrintedIs
<1>6. ASSUME NEW v, y \in ToSet(Printed(Valued(BlankEnt, v))) PROVE y = [val |-> v]
  <2>1. PICK e : e = Valued(BlankEnt, v)
    OBVIOUS
  <2>2. e.flag = {"VAL"} /\ e.val = v
    BY <1>3, <2>1
  <2>. QED BY <1>6, <2>1, <2>2, PrintedIs
<1>. QED BY <1>4, <1>5, <1>6

(* The number or the text that strtod leaves. *)
LEMMA TypedPrints ==
  ASSUME NEW e, IsEnt(e), NEW text, NEW t, t = Typed(e, text)
  PROVE  /\ IsNumber(text) => "VAL" \in t.flag /\ t.val = strtod[Head(text)]
         /\ ~IsNumber(text) => "RP_LABEL" \in t.flag /\ t.label = text
<1>1. CASE IsNumber(text)
  <2>1. t = Valued(e, strtod[Head(text)])
    BY <1>1 DEF Typed
  <2>. QED BY <1>1, <2>1, ValuedEnt
<1>2. CASE ~IsNumber(text)
  <2>. DEFINE g == [e EXCEPT !.val = 0]
  <2>1. g = [val |-> 0, label |-> e.label, formula |-> e.formula, exp |-> e.exp, flag |-> e.flag]
    BY DEF IsEnt
  <2>2. t = Labelled(g, text)
    BY <1>2 DEF Typed
  <2>. HIDE DEF g
  <2>3. IsEnt(g)
    BY <2>1 DEF IsEnt
  <2>. QED BY <1>2, <2>2, <2>3, LabelledEnt
<1>. QED BY <1>1, <1>2

LEMMA TypedBlankPrints ==
  ASSUME NEW text, NEW y, y \in ToSet(Printed(Typed(BlankEnt, text)))
  PROVE  y = IF IsNumber(text) THEN [val |-> strtod[Head(text)]] ELSE [label |-> text]
<1>1. CASE IsNumber(text)
  BY <1>1, BlankPrints DEF Typed
<1>2. CASE ~IsNumber(text)
  <2>1. [BlankEnt EXCEPT !.val = 0] = BlankEnt
    BY DEF BlankEnt
  <2>2. Typed(BlankEnt, text) = Labelled(BlankEnt, text)
    BY <1>2, <2>1 DEF Typed
  <2>. QED BY <1>2, <2>2, BlankPrints
<1>. QED BY <1>1, <1>2
(* What a file holds is printed when it has been read. *)
LEMMA CsvIsShown ==
  ASSUME NEW a, IsDoc(a), NEW d, IsDoc(d), NEW file, IsTable(file.rows),
         Labels(a, d, file.rows, Len(file.rows), 0)
  PROVE  /\ CsvHolds(file) \subseteq Shown(d)
         /\ \A x \in Shown(d) : x.sheet \in ToSet(a.order) \/ x \in CsvHolds(file)
<1>. DEFINE rows == file.rows
            Row(i) == {Item(CsvSheet, <<i - 1, j - 1>>, [label |-> rows[i][j]]) : j \in DOMAIN rows[i]}
<1>1. CsvHolds(file) = UNION {Row(i) : i \in DOMAIN rows}
  BY DEF CsvHolds
<1>2. \A x : x \in CsvHolds(file) <=>
        \E i \in DOMAIN rows : \E j \in DOMAIN rows[i] :
          x = Item(CsvSheet, <<i - 1, j - 1>>, [label |-> rows[i][j]])
  <2>1. \A i, x : x \in Row(i) <=>
          \E j \in DOMAIN rows[i] : x = Item(CsvSheet, <<i - 1, j - 1>>, [label |-> rows[i][j]])
    OBVIOUS
  <2>. HIDE DEF Row
  <2>2. \A x : x \in CsvHolds(file) <=> \E i \in DOMAIN rows : x \in Row(i)
    BY <1>1
  <2>3. ASSUME NEW x, x \in CsvHolds(file)
        PROVE  \E i \in DOMAIN rows : \E j \in DOMAIN rows[i] :
                 x = Item(CsvSheet, <<i - 1, j - 1>>, [label |-> rows[i][j]])
    <3>1. PICK i \in DOMAIN rows : x \in Row(i)
      BY <2>2, <2>3
    <3>2. PICK j \in DOMAIN rows[i] : x = Item(CsvSheet, <<i - 1, j - 1>>, [label |-> rows[i][j]])
      BY <2>1, <3>1
    <3>. QED BY <3>2
  <2>4. ASSUME NEW i \in DOMAIN rows, NEW j \in DOMAIN rows[i]
        PROVE  Item(CsvSheet, <<i - 1, j - 1>>, [label |-> rows[i][j]]) \in CsvHolds(file)
    BY <2>1, <2>2
  <2>. QED BY <2>3, <2>4
<1>3. /\ DOMAIN rows = 1..Len(rows) /\ Len(rows) \in Nat
      /\ \A i \in DOMAIN rows : DOMAIN rows[i] = 1..Len(rows[i]) /\ Len(rows[i]) \in Nat
  BY DEF IsTable, IsSeq
<1>. HIDE DEF Row, rows
<1>4. ASSUME NEW i \in DOMAIN rows, NEW j \in DOMAIN rows[i], NEW p, p = <<i - 1, j - 1>>
      PROVE  /\ p \in Nat \X Nat
             /\ Reaches(d, CsvSheet, p)
             /\ Ent(d, CsvSheet, p) = Labelled(Old(a, CsvSheet, p), rows[i][j])
  <2>1. p \in Nat \X Nat
    BY <1>3, <1>4
  <2>2. Passed(i, j, Len(rows), 0)
    BY <1>3 DEF Passed
  <2>. QED BY <1>4, <2>1, <2>2 DEF Labels, rows
<1>5. ASSUME NEW i \in DOMAIN rows, NEW j \in DOMAIN rows[i]
      PROVE  Item(CsvSheet, <<i - 1, j - 1>>, [label |-> rows[i][j]]) \in Shown(d)
  <2>1. PICK p : p = <<i - 1, j - 1>>
    OBVIOUS
  <2>2. /\ p \in Nat \X Nat /\ Reaches(d, CsvSheet, p)
        /\ Ent(d, CsvSheet, p) = Labelled(Old(a, CsvSheet, p), rows[i][j])
    BY <1>4, <2>1
  <2>3. PICK e : e = Ent(d, CsvSheet, p)
    OBVIOUS
  <2>4. "RP_LABEL" \in e.flag /\ e.label = rows[i][j]
    BY <2>2, <2>3, OldIsEnt, LabelledEnt
  <2>5. Item(CsvSheet, p, [label |-> e.label]) \in Shown(d)
    BY <2>2, <2>3, <2>4, ReachedIsPrinted
  <2>. QED BY <2>1, <2>4, <2>5
<1>6. ASSUME NEW x \in Shown(d), x.sheet \notin ToSet(a.order) PROVE x \in CsvHolds(file)
  <2>1. PICK n, p, y : x = Item(n, p, y) /\ Prints(d, n, p, y)
    BY ShownIs
  <2>2. n \notin ToSet(a.order) /\ n \in ToSet(d.order)
    BY <1>6, <2>1 DEF Item, Prints
  <2>3. Old(a, n, p) = BlankEnt
    BY <2>2 DEF Old
  <2>4. Ent(d, n, p) /= Old(a, n, p)
    BY <2>1, <2>3, BlankPrints DEF Prints
  <2>5. n = CsvSheet /\ \E i \in DOMAIN rows : \E j \in DOMAIN rows[i] : p = <<i - 1, j - 1>>
    BY <2>2, <2>4 DEF Labels, rows
  <2>6. PICK i \in DOMAIN rows : \E j \in DOMAIN rows[i] : p = <<i - 1, j - 1>>
    BY <2>5
  <2>7. PICK j \in DOMAIN rows[i] : p = <<i - 1, j - 1>>
    BY <2>6
  <2>8. Ent(d, n, p) = Labelled(BlankEnt, rows[i][j])
    BY <1>4, <2>3, <2>5, <2>7
  <2>9. y = [label |-> rows[i][j]]
    BY <2>1, <2>8, BlankPrints DEF Prints
  <2>. QED BY <1>2, <2>1, <2>5, <2>7, <2>9
<1>7. ASSUME NEW x \in CsvHolds(file) PROVE x \in Shown(d)
  <2>1. PICK i \in DOMAIN rows : \E j \in DOMAIN rows[i] :
          x = Item(CsvSheet, <<i - 1, j - 1>>, [label |-> rows[i][j]])
    BY <1>2
  <2>2. PICK j \in DOMAIN rows[i] :
          x = Item(CsvSheet, <<i - 1, j - 1>>, [label |-> rows[i][j]])
    BY <2>1
  <2>. QED BY <1>5, <2>2
<1>. QED BY <1>6, <1>7

LEMMA HtmlIsShown ==
  ASSUME NEW a, IsDoc(a), NEW d, IsDoc(d), NEW dom, IsPage(dom), Filled(a, d, dom, Tds(dom))
  PROVE  /\ HtmlHolds(dom) \subseteq Shown(d)
         /\ (\A td \in Tds(dom) : Alone(dom, td)) =>
              \A x \in Shown(d) : x.sheet \in ToSet(a.order) \/ x \in HtmlHolds(dom)
<1>. DEFINE is(td) == IF IsNumber(Content(dom, td)) THEN [val |-> strtod[Head(Content(dom, td))]]
                      ELSE [label |-> Content(dom, td)]
<1>1. \A x : x \in HtmlHolds(dom) <=>
        \E td \in Tds(dom) : /\ IsLast(dom, Tds(dom), td)
                             /\ x = Item(Place(dom, td)[1], Place(dom, td)[2], is(td))
  BY DEF HtmlHolds, IsLast
<1>2. ASSUME NEW td \in Tds(dom), NEW n, NEW p, Place(dom, td) = <<n, p>>
      PROVE  p \in Nat \X Nat
  <2>1. PICK t : t = <<Count(TrsOf(dom, TableOf(dom, td)), dom[td].up - 1),
                       Count(TdsOf(dom, dom[td].up), td - 1)>>
    OBVIOUS
  <2>2. Place(dom, td) = <<Title(dom, TableOf(dom, td)), t>>
    BY <2>1, TdStands
  <2>3. td - 1 \in Nat /\ dom[td].up - 1 \in Nat
    BY TdStands
  <2>4. t \in Nat \X Nat
    BY <2>1, <2>3, Counting
  <2>5. p = t
    BY <1>2, <2>2
  <2>. QED BY <2>4, <2>5
<1>3. ASSUME NEW td \in Tds(dom)
      PROVE  Place(dom, td) = <<Place(dom, td)[1], Place(dom, td)[2]>>
  BY DEF Place
<1>4. ASSUME NEW td \in Tds(dom), IsLast(dom, Tds(dom), td)
      PROVE  Item(Place(dom, td)[1], Place(dom, td)[2], is(td)) \in Shown(d)
  <2>1. PICK n : n = Place(dom, td)[1]
    OBVIOUS
  <2>2. PICK p : p = Place(dom, td)[2]
    OBVIOUS
  <2>3. Place(dom, td) = <<n, p>>
    BY <1>3, <2>1, <2>2
  <2>4. p \in Nat \X Nat /\ HoldsTd(a, d, dom, td, n, p)
    BY <1>2, <1>4, <2>3 DEF Filled
  <2>5. PICK e : IsEnt(e) /\ Ent(d, n, p) = Typed(e, Content(dom, td))
    BY <2>4 DEF HoldsTd
  <2>6. Reaches(d, n, p)
    BY <2>4 DEF HoldsTd
  <2>7. PICK t : t = Ent(d, n, p)
    OBVIOUS
  <2>8. /\ IsNumber(Content(dom, td)) =>
             "VAL" \in t.flag /\ t.val = strtod[Head(Content(dom, td))]
        /\ ~IsNumber(Content(dom, td)) => "RP_LABEL" \in t.flag /\ t.label = Content(dom, td)
    BY <2>5, <2>7, TypedPrints
  <2>9. /\ "VAL" \in t.flag => Item(n, p, [val |-> t.val]) \in Shown(d)
        /\ "RP_LABEL" \in t.flag => Item(n, p, [label |-> t.label]) \in Shown(d)
    BY <2>4, <2>6, <2>7, ReachedIsPrinted
  <2>10. Item(n, p, is(td)) \in Shown(d)
    <3>1. CASE IsNumber(Content(dom, td))
      BY <2>8, <2>9, <3>1
    <3>2. CASE ~IsNumber(Content(dom, td))
      BY <2>8, <2>9, <3>2
    <3>. QED BY <3>1, <3>2
  <2>. QED BY <2>1, <2>2, <2>10
<1>5. ASSUME \A td \in Tds(dom) : Alone(dom, td), NEW x \in Shown(d), x.sheet \notin ToSet(a.order)
      PROVE  x \in HtmlHolds(dom)
  <2>1. PICK n, p, y : x = Item(n, p, y) /\ Prints(d, n, p, y)
    BY ShownIs
  <2>2. n \notin ToSet(a.order) /\ n \in ToSet(d.order)
    BY <1>5, <2>1 DEF Item, Prints
  <2>3. Old(a, n, p) = BlankEnt
    BY <2>2 DEF Old
  <2>4. Ent(d, n, p) /= Old(a, n, p)
    BY <2>1, <2>3, BlankPrints DEF Prints
  <2>5. PICK td \in Tds(dom) : Place(dom, td) = <<n, p>>
    BY <2>2, <2>4 DEF Filled
  <2>6. Alone(dom, td)
    BY <1>5
  <2>7. IsLast(dom, Tds(dom), td)
    <3>1. TableOf(dom, td) <= TableOf(dom, td)
      BY TdStands
    <3>. QED BY <2>6, <3>1 DEF Alone, IsLast
  <2>8. Ent(d, n, p) = Typed(BlankEnt, Content(dom, td))
    BY <2>3, <2>5, <2>6, <2>7 DEF Filled, HoldsTd
  <2>9. y = is(td)
    BY <2>1, <2>8, TypedBlankPrints DEF Prints
  <2>10. n = Place(dom, td)[1] /\ p = Place(dom, td)[2]
    BY <2>5
  <2>. HIDE DEF is
  <2>. QED BY <1>1, <2>1, <2>7, <2>9, <2>10
<1>. HIDE DEF is
<1>6. HtmlHolds(dom) \subseteq Shown(d)
  BY <1>1, <1>4
<1>. QED BY <1>5, <1>6
(* What a cell of a workbook becomes is printed. *)
LEMMA ItemIsShown ==
  ASSUME NEW g, IsDoc(g), NEW d, IsDoc(d), NEW n, n \in ToSet(g.order), n \in ToSet(d.order),
         NEW c, c.at \in Nat \X Nat, Became(g, d, n, c), NEW x, x \in XlsxItems(n, c)
  PROVE  x \in Shown(d)
<1>1. PICK p : p = c.at
  OBVIOUS
<1>2. PICK old : old = Ent(g, n, p)
  OBVIOUS
<1>3. PICK e : e = Ent(d, n, p)
  OBVIOUS
<1>4. IsEnt(old)
  BY <1>2 DEF IsDoc
<1>5. /\ Holds(c) /= "nothing" => \A k \in 1..2 : p[k] <= d.max[n][k]
      /\ Holds(c) = "label" => e = Labelled(old, c.text)
      /\ Holds(c) = "number" => e = Valued(old, c.num)
      /\ Holds(c) = "date" => e = Valued(old, Date(c.num))
      /\ Holds(c) = "formula" /\ c.f.kind = "number" => e.val = c.f.num /\ "VAL" \in e.flag
  BY <1>1, <1>2, <1>3 DEF Became
<1>6. Holds(c) /= "nothing" => Reaches(d, n, p)
  BY <1>5 DEF Reaches
<1>7. Holds(c) \in {"label", "nothing", "date", "number", "formula"}
  BY DEF Holds
<1>8. /\ Holds(c) /= "nothing" /\ "VAL" \in e.flag => Item(n, p, [val |-> e.val]) \in Shown(d)
      /\ Holds(c) /= "nothing" /\ "RP_LABEL" \in e.flag => Item(n, p, [label |-> e.label]) \in Shown(d)
  BY <1>1, <1>3, <1>6, ReachedIsPrinted
<1>9. CASE Holds(c) = "label"
  <2>1. x = Item(n, p, [label |-> c.text])
    BY <1>1, <1>9 DEF XlsxItems
  <2>2. "RP_LABEL" \in e.flag /\ e.label = c.text
    BY <1>4, <1>5, <1>9, LabelledEnt
  <2>. QED BY <1>8, <1>9, <2>1, <2>2
<1>10. CASE Holds(c) = "number"
  <2>1. x = Item(n, p, [val |-> c.num])
    BY <1>1, <1>10 DEF XlsxItems
  <2>2. "VAL" \in e.flag /\ e.val = c.num
    BY <1>4, <1>5, <1>10, ValuedEnt
  <2>. QED BY <1>8, <1>10, <2>1, <2>2
<1>11. CASE Holds(c) = "date"
  <2>1. x = Item(n, p, [val |-> Date(c.num)])
    BY <1>1, <1>11 DEF XlsxItems
  <2>2. PICK v : v = Date(c.num)
    OBVIOUS
  <2>3. "VAL" \in e.flag /\ e.val = v
    BY <1>4, <1>5, <1>11, <2>2, ValuedEnt
  <2>. QED BY <1>8, <1>11, <2>1, <2>2, <2>3
<1>12. CASE Holds(c) = "formula"
  <2>1. c.f.kind = "number" /\ x = Item(n, p, [val |-> c.f.num])
    BY <1>1, <1>12 DEF XlsxItems
  <2>. QED BY <1>5, <1>8, <1>12, <2>1
<1>13. CASE Holds(c) = "nothing"
  BY <1>13 DEF XlsxItems
<1>. QED BY <1>7, <1>9, <1>10, <1>11, <1>12, <1>13

(* A cell that was blank prints what the workbook holds for it, unless that
   is a formula. *)
LEMMA BlankBecame ==
  ASSUME NEW g, NEW d, NEW n, NEW c, Became(g, d, n, c), NEW p, p = c.at, Ent(g, n, p) = BlankEnt,
         NEW y, y \in ToSet(Printed(Ent(d, n, p))), Holds(c) /= "formula"
  PROVE  Item(n, p, y) \in XlsxItems(n, c)
<1>1. Holds(c) \in {"label", "nothing", "date", "number"}
  BY DEF Holds
<1>2. PICK e : e = Ent(d, n, p)
  OBVIOUS
<1>3. /\ Holds(c) = "nothing" => e = BlankEnt
      /\ Holds(c) = "label" => e = Labelled(BlankEnt, c.text)
      /\ Holds(c) = "number" => e = Valued(BlankEnt, c.num)
      /\ Holds(c) = "date" => e = Valued(BlankEnt, Date(c.num))
  BY <1>2 DEF Became
<1>4. CASE Holds(c) = "nothing"
  BY <1>2, <1>3, <1>4, BlankPrints
<1>5. CASE Holds(c) = "label"
  <2>1. y = [label |-> c.text]
    BY <1>2, <1>3, <1>5, BlankPrints
  <2>. QED BY <1>5, <2>1 DEF XlsxItems
<1>6. CASE Holds(c) = "number"
  <2>1. y = [val |-> c.num]
    BY <1>2, <1>3, <1>6, BlankPrints
  <2>. QED BY <1>6, <2>1 DEF XlsxItems
<1>7. CASE Holds(c) = "date"
  <2>1. y = [val |-> Date(c.num)]
    BY <1>2, <1>3, <1>7, BlankPrints
  <2>. QED BY <1>7, <2>1 DEF XlsxItems
<1>. QED BY <1>1, <1>4, <1>5, <1>6, <1>7

LEMMA XlsxIsShown ==
  ASSUME NEW a, IsDoc(a), NEW d, IsDoc(d), NEW file, IsBook(file.sheets), BookLeft(a, d, file)
  PROVE  /\ XlsxHolds(file) \subseteq Shown(d)
         /\ \A x \in Shown(d) :
              \/ x.sheet \in ToSet(a.order)
              \/ x \in XlsxHolds(file)
              \/ \E y \in XlsxFormulas(file) : y.sheet = x.sheet /\ y.at = x.at
<1>. DEFINE sheets == file.sheets
            There == PartsThere(file)
            In(k) == UNION {XlsxItems(sheets[k].name, c) : c \in ToSet(sheets[k].cells)}
<1>1. PICK g : /\ Unread(a, g)
               /\ ReadSheets(g, d, sheets, There, Len(sheets))
               /\ file.styles => HasSheets(g, sheets)
  BY DEF BookLeft
<1>2. ASSUME NEW k \in There
      PROVE  /\ k \in DOMAIN sheets /\ k <= Len(sheets)
             /\ HasSheets(g, sheets) /\ sheets[k].name \in ToSet(g.order)
             /\ sheets[k].name \in ToSet(d.order)
             /\ \A c \in ToSet(sheets[k].cells) : c.at \in Nat \X Nat
  <2>1. k \in DOMAIN sheets /\ file.styles
    BY DEF PartsThere
  <2>2. DOMAIN sheets = 1..Len(sheets) /\ Len(sheets) \in Nat
    BY DEF IsBook, IsSeq
  <2>3. HasSheets(g, sheets)
    BY <1>1, <2>1
  <2>4. sheets[k].name \in ToSet(g.order)
    BY <2>1, <2>3 DEF HasSheets
  <2>5. d.order = g.order
    BY <1>1 DEF ReadSheets
  <2>6. \A c \in ToSet(sheets[k].cells) : c.at \in Nat \X Nat
    BY <2>1 DEF IsBook
  <2>. QED BY <2>1, <2>2, <2>3, <2>4, <2>5, <2>6
<1>3. ASSUME NEW k \in There, NEW c \in ToSet(sheets[k].cells)
      PROVE  Became(g, d, sheets[k].name, c)
  BY <1>1, <1>2 DEF ReadSheets
<1>4. \A x : x \in XlsxHolds(file) <=> \E k \in There : x \in In(k)
  BY DEF XlsxHolds
<1>5. \A k, x : x \in In(k) <=> \E c \in ToSet(sheets[k].cells) : x \in XlsxItems(sheets[k].name, c)
  OBVIOUS
<1>. HIDE DEF In, There, sheets
<1>6. ASSUME NEW x \in XlsxHolds(file) PROVE x \in Shown(d)
  <2>1. PICK k \in There : x \in In(k)
    BY <1>4
  <2>2. PICK c \in ToSet(sheets[k].cells) : x \in XlsxItems(sheets[k].name, c)
    BY <1>5, <2>1
  <2>3. IsDoc(g)
    BY <1>2 DEF HasSheets
  <2>4. /\ sheets[k].name \in ToSet(g.order) /\ sheets[k].name \in ToSet(d.order)
        /\ c.at \in Nat \X Nat
    BY <1>2
  <2>5. Became(g, d, sheets[k].name, c)
    BY <1>3
  <2>. QED BY <2>2, <2>3, <2>4, <2>5, ItemIsShown
<1>7. ASSUME NEW x \in Shown(d), x.sheet \notin ToSet(a.order)
      PROVE  \/ x \in XlsxHolds(file)
             \/ \E y \in XlsxFormulas(file) : y.sheet = x.sheet /\ y.at = x.at
  <2>1. PICK n, p, y : x = Item(n, p, y) /\ Prints(d, n, p, y)
    BY ShownIs
  <2>2. n \notin ToSet(a.order) /\ n \in ToSet(d.order) /\ x.sheet = n /\ x.at = p
    BY <1>7, <2>1 DEF Item, Prints
  <2>3. n \in ToSet(g.order)
    BY <1>1, <2>2 DEF ReadSheets
  <2>4. Ent(g, n, p) = BlankEnt
    BY <1>1, <2>2, <2>3 DEF Old, Unread
  <2>5. Ent(d, n, p) /= Ent(g, n, p)
    BY <2>1, <2>4, BlankPrints DEF Prints
  <2>6. PICK k \in There : n = sheets[k].name /\ p \in {c.at : c \in ToSet(sheets[k].cells)}
    BY <1>1, <2>3, <2>5 DEF ReadSheets
  <2>7. PICK c \in ToSet(sheets[k].cells) : p = c.at
    BY <2>6
  <2>8. Became(g, d, n, c)
    BY <1>3, <2>6
  <2>9. CASE Holds(c) = "formula"
    <3>. DEFINE fs == {[sheet |-> sheets[k].name, at |-> z.at, f |-> z.f] :
                         z \in {z \in ToSet(sheets[k].cells) : Holds(z) = "formula"}}
    <3>1. [sheet |-> n, at |-> p, f |-> c.f] \in fs
      BY <2>6, <2>7, <2>9
    <3>2. fs \subseteq XlsxFormulas(file)
      BY DEF XlsxFormulas, There, sheets
    <3>3. PICK z : z = [sheet |-> n, at |-> p, f |-> c.f]
      OBVIOUS
    <3>4. z \in XlsxFormulas(file) /\ z.sheet = n /\ z.at = p
      BY <3>1, <3>2, <3>3
    <3>. QED BY <2>2, <3>4
  <2>10. CASE Holds(c) /= "formula"
    <3>1. x \in XlsxItems(n, c)
      BY <2>1, <2>4, <2>7, <2>8, <2>10, BlankBecame DEF Prints
    <3>. QED BY <1>4, <1>5, <2>6, <3>1
  <2>. QED BY <2>9, <2>10
<1>8. XlsxHolds(file) \subseteq Shown(d)
  BY <1>6
<1>. QED BY <1>7, <1>8
(* A load that leaves the process alive. *)
LEMMA LoadLeaves ==
  ASSUME DocInv, [Next]_vars, Loads, NEW f, f = Last(loaded')
  PROVE  /\ f \in DOMAIN Files /\ IsDoc(doc) /\ IsDoc(doc')
         /\ Left(doc, doc', Files[f])
<1>1. loaded' /= loaded /\ status' = "up"
  BY DEF Loads
<1>2. PICK h \in DOMAIN Files : Load(h)
  BY <1>1 DEF Next, vars, luaopen_sc, io_newsheet, io_sheet, l_setnum, l_setstr, l_getstr,
              OnCurrent, html_write
<1>3. /\ Reading(doc, doc', Written[h], Referenced[h], Known(loaded'))
      /\ loaded' = Append(loaded, h) /\ Left(doc, doc', Files[h])
  BY <1>1, <1>2, LoadReads
<1>4. h = f
  <2>1. loaded \in Seq(DOMAIN Files)
    BY DEF DocInv
  <2>. QED BY <1>3, <2>1 DEF Last
<1>. QED BY <1>3, <1>4 DEF DocInv, Reading

(* What a load brought is what the dump shows: after any sequence of calls,
   every label and number of the file stands at its row and column of its
   sheet and within the extents, whatever the document held before, and also
   when the read ended half way at a missing part (then: of the parts before
   it).  csv.c cb1 and cb2, html.c traverse_dom_trees, xlsx.c open_xlsx and
   util.c export agree on places, types and extents. *)
THEOREM LoadsAreShown == Spec => LoadedIsShown
<1>1. ASSUME DocInv, [Next]_vars, Loads PROVE Held[Last(loaded')] \subseteq Shown(doc')
  <2>1. PICK f : f = Last(loaded')
    OBVIOUS
  <2>2. /\ f \in DOMAIN Files /\ IsDoc(doc) /\ IsDoc(doc')
        /\ Left(doc, doc', Files[f])
    BY <1>1, <2>1, LoadLeaves
  <2>3. PICK file : file = Files[f]
    OBVIOUS
  <2>4. PICK d : d = doc'
    OBVIOUS
  <2>5. IsDoc(d) /\ Left(doc, d, file)
    BY <2>2, <2>3, <2>4
  <2>6. file.kind \in {"csv", "html", "xlsx"}
    BY <2>2, <2>3, DocumentsAssumption DEF Kinds
  <2>7. CASE ~file.there
    <3>1. Held[f] = {}
      BY <2>2, <2>3, <2>7 DEF Held
    <3>. QED BY <2>1, <3>1
  <2>8. CASE file.there /\ file.kind = "csv"
    <3>1. IsTable(file.rows) /\ Held[f] = CsvHolds(file)
      BY <2>2, <2>3, <2>8, CsvAllowed DEF Held
    <3>2. CsvHolds(file) \subseteq Shown(d)
      BY <2>2, <2>5, <2>8, <3>1, CsvIsShown DEF Left
    <3>. QED BY <2>1, <2>4, <3>1, <3>2
  <2>9. CASE file.there /\ file.kind = "html"
    <3>1. IsPage(file.dom) /\ Held[f] = HtmlHolds(file.dom)
      BY <2>2, <2>3, <2>9, HtmlAllowed DEF Held
    <3>2. HtmlHolds(file.dom) \subseteq Shown(d)
      BY <2>2, <2>5, <2>9, <3>1, HtmlIsShown DEF Left
    <3>. QED BY <2>1, <2>4, <3>1, <3>2
  <2>10. CASE file.there /\ file.kind = "xlsx"
    <3>1. IsBook(file.sheets) /\ Held[f] = XlsxHolds(file)
      BY <2>2, <2>3, <2>10, XlsxAllowed DEF Held
    <3>2. XlsxHolds(file) \subseteq Shown(d)
      BY <2>2, <2>5, <2>10, <3>1, XlsxIsShown DEF Left
    <3>. QED BY <2>1, <2>4, <3>1, <3>2
  <2>. QED BY <2>6, <2>7, <2>8, <2>9, <2>10
<1>. QED BY <1>1, DocInvAlways, PTL DEF Spec, LoadedIsShown

(* A sheet that a load creates shows the labels and numbers of the file and
   nothing else, apart from its formulas, whose values recalc computes; of an
   HTML page this is said where no two tables meet on one sheet, as there the
   cells of both are shown (html.c html_read_rows starts at the first row of
   whatever sheet it finds). *)
THEOREM FreshSheetsAreExact == Spec => FreshIsExact
<1>1. ASSUME DocInv, [Next]_vars, Loads, OneTablePerSheet[Last(loaded')]
      PROVE  \A x \in Shown(doc') :
               \/ x.sheet \in DOMAIN doc.cells
               \/ x \in Held[Last(loaded')]
               \/ \E y \in Formulas[Last(loaded')] : y.sheet = x.sheet /\ y.at = x.at
  <2>1. PICK f : f = Last(loaded')
    OBVIOUS
  <2>2. /\ f \in DOMAIN Files /\ IsDoc(doc) /\ IsDoc(doc')
        /\ Left(doc, doc', Files[f])
    BY <1>1, <2>1, LoadLeaves
  <2>3. PICK file : file = Files[f]
    OBVIOUS
  <2>4. PICK d : d = doc'
    OBVIOUS
  <2>5. IsDoc(d) /\ Left(doc, d, file)
    BY <2>2, <2>3, <2>4
  <2>6. file.kind \in {"csv", "html", "xlsx"}
    BY <2>2, <2>3, DocumentsAssumption DEF Kinds
  <2>s. DOMAIN doc.cells = ToSet(doc.order)
    BY <2>2 DEF IsDoc
  <2>g. SUFFICES ASSUME NEW x \in Shown(d), x.sheet \notin ToSet(doc.order)
                 PROVE  \/ x \in Held[f]
                        \/ \E y \in Formulas[f] : y.sheet = x.sheet /\ y.at = x.at
    BY <2>1, <2>4, <2>s
  <2>7. CASE ~file.there
    <3>1. d = doc
      BY <2>5, <2>7 DEF Left
    <3>2. PICK n, p, y : x = Item(n, p, y) /\ Prints(doc, n, p, y)
      BY <2>2, <3>1, ShownIs
    <3>. QED BY <2>g, <3>2 DEF Item, Prints
  <2>8. CASE file.there /\ file.kind = "csv"
    <3>1. IsTable(file.rows) /\ Held[f] = CsvHolds(file)
      BY <2>2, <2>3, <2>8, CsvAllowed DEF Held
    <3>2. x \in CsvHolds(file)
      BY <2>2, <2>5, <2>8, <2>g, <3>1, CsvIsShown DEF Left
    <3>. QED BY <3>1, <3>2
  <2>9. CASE file.there /\ file.kind = "html"
    <3>1. IsPage(file.dom) /\ Held[f] = HtmlHolds(file.dom)
      BY <2>2, <2>3, <2>9, HtmlAllowed DEF Held
    <3>2. \A td \in Tds(file.dom) : Alone(file.dom, td)
      BY <1>1, <2>1, <2>2, <2>3, <2>9 DEF OneTablePerSheet, Alone
    <3>3. x \in HtmlHolds(file.dom)
      BY <2>2, <2>5, <2>9, <2>g, <3>1, <3>2, HtmlIsShown DEF Left
    <3>. QED BY <3>1, <3>3
  <2>10. CASE file.there /\ file.kind = "xlsx"
    <3>1. /\ IsBook(file.sheets) /\ Held[f] = XlsxHolds(file)
          /\ Formulas[f] = XlsxFormulas(file)
      BY <2>2, <2>3, <2>10, XlsxAllowed DEF Held, Formulas
    <3>2. \/ x \in XlsxHolds(file)
          \/ \E y \in XlsxFormulas(file) : y.sheet = x.sheet /\ y.at = x.at
      BY <2>2, <2>5, <2>10, <2>g, <3>1, XlsxIsShown DEF Left
    <3>. QED BY <3>1, <3>2
  <2>. QED BY <2>6, <2>7, <2>8, <2>9, <2>10
<1>. QED BY <1>1, DocInvAlways, PTL DEF Spec, FreshIsExact
================================================================================
