--------------------------- MODULE WorkbookProofs ---------------------------
(***************************************************************************)
(* For any number of sheets, any table size and any widths: the list of    *)
(* sheets stays one list that ends, whatever is deleted, and the record    *)
(* types hold.  As long as the coordinates of the calls fit the fields     *)
(* they are stored in, no cell is ever lost, whatever sheet is current and *)
(* whatever the list is, and the workbook implements a map from sheets and *)
(* coordinates to cells.                                                   *)
(***************************************************************************)
EXTENDS Workbook, Lemmas

(* The coordinates of the calls survive being stored in a cell. *)
CoordinatesFit ==
  \A p \in Places : /\ p[1] \in Int /\ p[2] \in Int
                    /\ Short(p[1]) = p[1] /\ Short(p[2]) = p[2]

Ents == [row : Int, col : Int, flag : SUBSET {"VAL", "RP_LABEL"},
         val : Vals \cup {NULL}, label : Labels \cup {NULL}]

Chain(sh, r, c) == sh.hash[HASH(r, c)]

(* A struct Sheet. *)
Record(sh) ==
  sh = [name |-> sh.name, next |-> sh.next, prev |-> sh.prev, row |-> sh.row,
        col |-> sh.col, hash |-> sh.hash, ents |-> sh.ents]

Shaped(sh) ==
  /\ Record(sh)
  /\ sh.row \in Int /\ sh.col \in Int
  /\ sh.ents \in Seq(Ents)
  /\ sh.hash \in [0..HashNr-1 -> Seq(Nat)]

OnChain(sh, k) ==
  LET e == sh.ents[k]
  IN /\ HASH(e.row, e.col) \in 0..HashNr-1
     /\ \E i \in DOMAIN Chain(sh, e.row, e.col) : Chain(sh, e.row, e.col)[i] = k

(* A sheet whose cells can all be found: each is on the chain of its
   coordinates, which no other cell has. *)
Sound(sh) ==
  /\ Shaped(sh)
  /\ \A h \in 0..HashNr-1 : \A i \in DOMAIN sh.hash[h] : sh.hash[h][i] \in DOMAIN sh.ents
  /\ \A k \in DOMAIN sh.ents :
       /\ OnChain(sh, k)
       /\ sh.ents[k].row <= sh.row /\ sh.ents[k].col <= sh.col
  /\ \A j, k \in DOMAIN sh.ents :
       sh.ents[j].row = sh.ents[k].row /\ sh.ents[j].col = sh.ents[k].col => j = k

(* The memory that holds the sheets. *)
SoundMemory(mem) ==
  /\ mem = [s \in DOMAIN mem |-> mem[s]]
  /\ \A s \in DOMAIN mem : Sound(mem[s])

IInv == SoundMemory(sheet)

-----------------------------------------------------------------------------
(* Looking up *)

LEMMA Fields ==
  ASSUME NEW sh, Sound(sh)
  PROVE  /\ Shaped(sh) /\ sh.row \in Int /\ sh.col \in Int
         /\ sh.ents \in Seq(Ents) /\ Len(sh.ents) \in Nat /\ DOMAIN sh.ents = 1..Len(sh.ents)
         /\ \A k \in DOMAIN sh.ents : sh.ents[k].row \in Int /\ sh.ents[k].col \in Int
         /\ sh.hash \in [0..HashNr-1 -> Seq(Nat)]
<1>1. Shaped(sh)
  BY DEF Sound
<1>2. /\ sh.row \in Int /\ sh.col \in Int /\ sh.ents \in Seq(Ents)
      /\ sh.hash \in [0..HashNr-1 -> Seq(Nat)]
  BY <1>1, Zenon DEF Shaped, Record
<1>3. \A k \in DOMAIN sh.ents : sh.ents[k] \in Ents
  BY <1>2
<1>4. \A e \in Ents : e.row \in Int /\ e.col \in Int
  BY DEF Ents
<1>. QED BY <1>1, <1>2, <1>3, <1>4

LEMMA MinIsLeast ==
  ASSUME NEW T \in SUBSET Nat, T /= {}
  PROVE  Min(T) \in T
<1>1. \E x \in T : \A y \in T : x <= y
  BY Least
<1>. QED BY <1>1 DEF Min

(* atbl finds the cell with the coordinates, if there is one. *)
LEMMA Found ==
  ASSUME NEW sh, Sound(sh), NEW k \in DOMAIN sh.ents
  PROVE  atbl(sh, sh.ents[k].row, sh.ents[k].col) = k /\ k /= 0
<1>. DEFINE r == sh.ents[k].row
            c == sh.ents[k].col
            chain == Chain(sh, r, c)
            hits == {i \in DOMAIN chain : sh.ents[chain[i]].row = r /\ sh.ents[chain[i]].col = c}
<1>1. HASH(r, c) \in 0..HashNr-1 /\ \E i \in DOMAIN chain : chain[i] = k
  BY DEF Sound, OnChain
<1>2. chain \in Seq(Nat) /\ \A i \in DOMAIN chain : chain[i] \in DOMAIN sh.ents
  BY <1>1 DEF Sound, Shaped, Record, Chain
<1>3. hits \in SUBSET Nat /\ hits /= {}
  <2>1. PICK i \in DOMAIN chain : chain[i] = k
    BY <1>1
  <2>2. i \in hits
    BY <2>1
  <2>3. DOMAIN chain \subseteq Nat
    BY <1>2
  <2>. QED BY <2>2, <2>3
<1>4. Min(hits) \in hits
  <2>. HIDE DEF hits
  <2>. QED BY <1>3, MinIsLeast
<1>5. chain[Min(hits)] = k
  BY <1>2, <1>4 DEF Sound
<1>6. k \in Nat \ {0}
  BY DEF Sound, Shaped, Record
<1>7. atbl(sh, r, c) = IF hits = {} THEN 0 ELSE chain[Min(hits)]
  BY DEF atbl, Chain
<1>. HIDE DEF hits, chain
<1>. QED BY <1>3, <1>5, <1>6, <1>7

(* What it finds has the coordinates. *)
LEMMA FoundThere ==
  ASSUME NEW sh, Sound(sh), NEW r, NEW c, HASH(r, c) \in 0..HashNr-1, atbl(sh, r, c) /= 0
  PROVE  /\ atbl(sh, r, c) \in DOMAIN sh.ents
         /\ sh.ents[atbl(sh, r, c)].row = r /\ sh.ents[atbl(sh, r, c)].col = c
<1>. DEFINE chain == Chain(sh, r, c)
            hits == {i \in DOMAIN chain : sh.ents[chain[i]].row = r /\ sh.ents[chain[i]].col = c}
<1>1. chain \in Seq(Nat) /\ \A i \in DOMAIN chain : chain[i] \in DOMAIN sh.ents
  BY DEF Sound, Shaped, Record, Chain
<1>2. atbl(sh, r, c) = IF hits = {} THEN 0 ELSE chain[Min(hits)]
  BY DEF atbl, Chain
<1>3. hits \in SUBSET Nat
  BY <1>1
<1>4. hits /= {} => Min(hits) \in hits
  <2>. HIDE DEF hits
  <2>. QED BY <1>3, MinIsLeast
<1>. HIDE DEF chain
<1>. QED BY <1>1, <1>2, <1>4

-----------------------------------------------------------------------------
(* lookat *)

LEMMA NewCellShape ==
  ASSUME NEW sh, Record(sh), NEW r, NEW c
  PROVE  WithEnt(sh, r, c) =
           [name |-> sh.name, next |-> sh.next, prev |-> sh.prev,
            row |-> Larger(sh.row, r), col |-> Larger(sh.col, c),
            hash |-> [sh.hash EXCEPT ![HASH(r, c)] = <<Len(sh.ents) + 1>> \o sh.hash[HASH(r, c)]],
            ents |-> Append(sh.ents, BlankEnt(r, c))]
<1>. DEFINE chain == <<Len(sh.ents) + 1>> \o sh.hash[HASH(r, c)]
            pushed == Pushed(sh, r, c)
<1>1. pushed = [sh EXCEPT !.ents = Append(@, BlankEnt(r, c)), !.hash[HASH(r, c)] = chain]
  BY DEF Pushed, Linked
<1>. HIDE DEF chain
<1>2. pushed = [name |-> sh.name, next |-> sh.next, prev |-> sh.prev,
                row |-> sh.row, col |-> sh.col,
                hash |-> [sh.hash EXCEPT ![HASH(r, c)] = chain],
                ents |-> Append(sh.ents, BlankEnt(r, c))]
  BY <1>1 DEF Record
<1>3. WithEnt(sh, r, c) = [pushed EXCEPT !.row = Larger(@, r), !.col = Larger(@, c)]
  BY DEF WithEnt
<1>. HIDE DEF pushed
<1>. QED BY <1>2, <1>3 DEF chain

LEMMA NewCellEnts ==
  ASSUME NEW sh, Record(sh), NEW r, NEW c
  PROVE  WithEnt(sh, r, c).ents = Append(sh.ents, BlankEnt(r, c))
<1>. DEFINE hash == [sh.hash EXCEPT ![HASH(r, c)] = <<Len(sh.ents) + 1>> \o sh.hash[HASH(r, c)]]
            ents == Append(sh.ents, BlankEnt(r, c))
<1>1. WithEnt(sh, r, c) =
        [name |-> sh.name, next |-> sh.next, prev |-> sh.prev,
         row |-> Larger(sh.row, r), col |-> Larger(sh.col, c), hash |-> hash, ents |-> ents]
  BY NewCellShape
<1>. HIDE DEF hash, ents
<1>2. WithEnt(sh, r, c).ents = ents
  BY <1>1
<1>. QED BY <1>2 DEF ents

LEMMA NewCell ==
  ASSUME NEW sh, Sound(sh), NEW r \in Int, NEW c \in Int,
         Short(r) = r, Short(c) = c, HASH(r, c) \in 0..HashNr-1, atbl(sh, r, c) = 0
  PROVE  Sound(WithEnt(sh, r, c)) /\ Len(sh.ents) + 1 \in DOMAIN WithEnt(sh, r, c).ents
<1>. DEFINE new == WithEnt(sh, r, c)
            k == Len(sh.ents) + 1
            h == HASH(r, c)
            chain == <<k>> \o sh.hash[h]
<1>1. /\ Shaped(sh) /\ Len(sh.ents) \in Nat /\ DOMAIN sh.ents = 1..Len(sh.ents)
      /\ sh.ents \in Seq(Ents) /\ sh.hash[h] \in Seq(Nat)
      /\ sh.hash \in [0..HashNr-1 -> Seq(Nat)] /\ sh.row \in Int /\ sh.col \in Int
  <2>. HIDE DEF new, chain
  <2>. QED BY Fields
<1>2. BlankEnt(r, c) \in Ents /\ BlankEnt(r, c).row = r /\ BlankEnt(r, c).col = c
  BY DEF BlankEnt, Ents
<1>3. /\ chain \in Seq(Nat) /\ 1 \in DOMAIN chain /\ chain[1] = k
      /\ \A i \in DOMAIN sh.hash[h] : i + 1 \in DOMAIN chain /\ chain[i+1] = sh.hash[h][i]
      /\ \A i \in DOMAIN chain : i /= 1 => i - 1 \in DOMAIN sh.hash[h] /\ chain[i] = sh.hash[h][i-1]
  <2>1. ASSUME NEW old \in Seq(Nat), NEW m \in Nat
        PROVE  /\ <<m>> \o old \in Seq(Nat) /\ 1 \in DOMAIN (<<m>> \o old) /\ (<<m>> \o old)[1] = m
               /\ \A i \in DOMAIN old : i + 1 \in DOMAIN (<<m>> \o old) /\ (<<m>> \o old)[i+1] = old[i]
               /\ \A i \in DOMAIN (<<m>> \o old) :
                    i /= 1 => i - 1 \in DOMAIN old /\ (<<m>> \o old)[i] = old[i-1]
    OBVIOUS
  <2>2. k \in Nat
    BY <1>1
  <2>. HIDE DEF new, h, k
  <2>. QED BY <2>1, <2>2, <1>1
<1>4. /\ new = [name |-> sh.name, next |-> sh.next, prev |-> sh.prev,
                row |-> Larger(sh.row, r), col |-> Larger(sh.col, c),
                hash |-> [sh.hash EXCEPT ![h] = chain],
                ents |-> Append(sh.ents, BlankEnt(r, c))]
  BY <1>1, NewCellShape DEF Shaped
<1>. HIDE DEF new, chain
<1>5. /\ new.ents \in Seq(Ents) /\ DOMAIN new.ents = 1..k /\ k \in Nat \ {0}
      /\ new.ents[k] = BlankEnt(r, c)
      /\ \A j \in DOMAIN sh.ents : new.ents[j] = sh.ents[j]
  BY <1>1, <1>2, <1>4
<1>6. /\ new.hash \in [0..HashNr-1 -> Seq(Nat)] /\ new.hash[h] = chain
      /\ \A g \in 0..HashNr-1 : g /= h => new.hash[g] = sh.hash[g]
  BY <1>1, <1>3, <1>4 DEF Shaped, Record
<1>7. /\ new.row \in Int /\ new.col \in Int /\ new.row >= sh.row /\ new.row >= r
      /\ new.col >= sh.col /\ new.col >= c
  BY <1>1, <1>4 DEF Larger, Shaped, Record
<1>8. Shaped(new)
  <2>1. new = [name |-> new.name, next |-> new.next, prev |-> new.prev, row |-> new.row,
               col |-> new.col, hash |-> new.hash, ents |-> new.ents]
    BY <1>4
  <2>. QED BY <2>1, <1>5, <1>6, <1>7 DEF Shaped, Record
<1>9a. \A g \in 0..HashNr-1 : \A i \in DOMAIN sh.hash[g] : sh.hash[g][i] \in DOMAIN new.ents
  <2>1. \A j \in DOMAIN sh.ents : j \in DOMAIN new.ents
    BY <1>1, <1>5
  <2>. QED BY <2>1 DEF Sound
<1>9. ASSUME NEW g \in 0..HashNr-1, NEW i \in DOMAIN new.hash[g]
      PROVE  new.hash[g][i] \in DOMAIN new.ents
  <2>1. CASE g = h /\ i = 1
    BY <2>1, <1>3, <1>5, <1>6
  <2>2. CASE g = h /\ i /= 1
    BY <2>2, <1>3, <1>6, <1>9a, SMTT(20)
  <2>3. CASE g /= h
    BY <2>3, <1>6, <1>9a
  <2>. QED BY <2>1, <2>2, <2>3
<1>10. OnChain(new, k)
  <2>. QED BY <1>2, <1>3, <1>5, <1>6 DEF OnChain, Chain
<1>11. ASSUME NEW j \in DOMAIN sh.ents
       PROVE  OnChain(new, j)
  <2>. DEFINE g == HASH(sh.ents[j].row, sh.ents[j].col)
  <2>1. g \in 0..HashNr-1 /\ \E i \in DOMAIN sh.hash[g] : sh.hash[g][i] = j
    BY DEF Sound, OnChain, Chain
  <2>2. PICK i \in DOMAIN sh.hash[g] : sh.hash[g][i] = j
    BY <2>1
  <2>3. \E l \in DOMAIN new.hash[g] : new.hash[g][l] = j
    <3>1. CASE g = h
      <4>1. i + 1 \in DOMAIN chain /\ chain[i+1] = j
        BY <3>1, <2>2, <1>3
      <4>. QED BY <4>1, <3>1, <1>6
    <3>2. CASE g /= h
      BY <3>2, <2>1, <2>2, <1>6
    <3>. QED BY <3>1, <3>2
  <2>. QED BY <2>1, <2>3, <1>5 DEF OnChain, Chain
<1>12. ASSUME NEW j \in DOMAIN sh.ents
       PROVE  sh.ents[j].row /= r \/ sh.ents[j].col /= c
  BY Found
<1>13. \A j \in DOMAIN new.ents : j = k \/ j \in DOMAIN sh.ents
  BY <1>1, <1>5
<1>14. \A j \in DOMAIN sh.ents : sh.ents[j].row \in Int /\ sh.ents[j].col \in Int
  BY Fields
<1>15. ASSUME NEW j \in DOMAIN new.ents
       PROVE  new.ents[j].row <= new.row /\ new.ents[j].col <= new.col
  <2>1. CASE j = k
    BY <2>1, <1>2, <1>5, <1>7
  <2>2. CASE j \in DOMAIN sh.ents
    <3>1. sh.ents[j].row <= sh.row /\ sh.ents[j].col <= sh.col
      BY <2>2 DEF Sound
    <3>2. new.ents[j] = sh.ents[j] /\ sh.ents[j].row \in Int /\ sh.ents[j].col \in Int
      BY <2>2, <1>5, <1>14
    <3>3. sh.row \in Int /\ sh.col \in Int
      BY <1>1
    <3>. QED BY <3>1, <3>2, <3>3, <1>7
  <2>. QED BY <2>1, <2>2, <1>13
<1>16. ASSUME NEW i \in DOMAIN new.ents, NEW j \in DOMAIN new.ents,
              new.ents[i].row = new.ents[j].row, new.ents[i].col = new.ents[j].col
       PROVE  i = j
  <2>1. CASE i \in DOMAIN sh.ents /\ j \in DOMAIN sh.ents
    BY <2>1, <1>5, <1>16 DEF Sound
  <2>2. CASE i = k \/ j = k
    BY <2>2, <1>2, <1>5, <1>12, <1>13, <1>16
  <2>. QED BY <2>1, <2>2, <1>13
<1>17. Sound(new)
  BY <1>8, <1>9, <1>10, <1>11, <1>13, <1>15, <1>16 DEF Sound
<1>. QED BY <1>5, <1>17 DEF new

LEMMA LookatSound ==
  ASSUME NEW sh, Sound(sh), NEW r \in Int, NEW c \in Int,
         Short(r) = r, Short(c) = c, HASH(r, c) \in 0..HashNr-1
  PROVE  Sound(lookat(sh, r, c)) /\ Returned(sh, r, c) \in DOMAIN lookat(sh, r, c).ents
<1>1. CASE atbl(sh, r, c) = 0
  BY <1>1, NewCell DEF lookat, Returned
<1>2. CASE atbl(sh, r, c) /= 0
  BY <1>2, FoundThere DEF lookat, Returned
<1>. QED BY <1>1, <1>2

(* A write to the fields that hold a cell's contents. *)
LEMMA WriteSound ==
  ASSUME NEW sh, Sound(sh), NEW k \in DOMAIN sh.ents, NEW e \in Ents,
         e.row = sh.ents[k].row, e.col = sh.ents[k].col
  PROVE  Sound([sh EXCEPT !.ents = [@ EXCEPT ![k] = e]])
<1>. DEFINE new == [sh EXCEPT !.ents = [@ EXCEPT ![k] = e]]
<1>1. /\ sh.ents \in Seq(Ents) /\ sh.row \in Int /\ sh.col \in Int
      /\ sh.hash \in [0..HashNr-1 -> Seq(Nat)]
  BY Fields
<1>2. /\ new = [name |-> new.name, next |-> new.next, prev |-> new.prev, row |-> new.row,
                col |-> new.col, hash |-> new.hash, ents |-> new.ents]
      /\ new.row = sh.row /\ new.col = sh.col /\ new.hash = sh.hash
      /\ new.ents = [sh.ents EXCEPT ![k] = e]
  <2>1. sh = [name |-> sh.name, next |-> sh.next, prev |-> sh.prev, row |-> sh.row,
              col |-> sh.col, hash |-> sh.hash, ents |-> sh.ents]
    BY Fields DEF Shaped, Record
  <2>. QED BY <2>1
<1>. HIDE DEF new
<1>3. /\ new.ents \in Seq(Ents) /\ DOMAIN new.ents = DOMAIN sh.ents
      /\ \A j \in DOMAIN sh.ents : new.ents[j].row = sh.ents[j].row /\ new.ents[j].col = sh.ents[j].col
  BY <1>1, <1>2
<1>4. Shaped(new)
  BY <1>1, <1>2, <1>3 DEF Shaped, Record
<1>5. \A j \in DOMAIN sh.ents : OnChain(new, j)
  <2>. SUFFICES ASSUME NEW j \in DOMAIN sh.ents PROVE OnChain(new, j)
    OBVIOUS
  <2>1. OnChain(sh, j)
    BY DEF Sound
  <2>2. new.ents[j].row = sh.ents[j].row /\ new.ents[j].col = sh.ents[j].col
    BY <1>3
  <2>. QED BY <1>2, <2>1, <2>2 DEF OnChain, Chain
<1>6. Sound(new)
  BY <1>2, <1>3, <1>4, <1>5 DEF Sound
<1>. QED BY <1>6 DEF new

(* A write to the links of the list of sheets. *)
LEMMA LinkSound ==
  ASSUME NEW sh, Sound(sh), NEW v
  PROVE  Sound([sh EXCEPT !.next = v]) /\ Sound([sh EXCEPT !.prev = v])
<1>1. ASSUME NEW new, Shaped(new), new.row = sh.row, new.col = sh.col,
             new.hash = sh.hash, new.ents = sh.ents
      PROVE  Sound(new)
  BY <1>1 DEF Sound, OnChain, Chain
<1>2. Shaped(sh)
  BY DEF Sound
<1>3. /\ Shaped([sh EXCEPT !.next = v]) /\ [sh EXCEPT !.next = v].row = sh.row
      /\ [sh EXCEPT !.next = v].col = sh.col /\ [sh EXCEPT !.next = v].hash = sh.hash
      /\ [sh EXCEPT !.next = v].ents = sh.ents
  BY <1>2 DEF Shaped, Record
<1>4. /\ Shaped([sh EXCEPT !.prev = v]) /\ [sh EXCEPT !.prev = v].row = sh.row
      /\ [sh EXCEPT !.prev = v].col = sh.col /\ [sh EXCEPT !.prev = v].hash = sh.hash
      /\ [sh EXCEPT !.prev = v].ents = sh.ents
  BY <1>2 DEF Shaped, Record
<1>. QED BY <1>1, <1>3, <1>4

-----------------------------------------------------------------------------
(* What the calls do to the memory *)

LEMMA Updated ==
  ASSUME NEW mem, SoundMemory(mem), NEW s, NEW sh, s \in DOMAIN mem => Sound(sh)
  PROVE  SoundMemory([mem EXCEPT ![s] = sh])
BY DEF SoundMemory

LEMMA PointersSound ==
  ASSUME NEW mem, SoundMemory(mem), NEW s, NEW v
  PROVE  SoundMemory([mem EXCEPT ![s].next = v]) /\ SoundMemory([mem EXCEPT ![s].prev = v])
<1>1. /\ s \in DOMAIN mem => Sound([mem[s] EXCEPT !.next = v])
      /\ s \in DOMAIN mem => Sound([mem[s] EXCEPT !.prev = v])
  BY LinkSound DEF SoundMemory
<1>2. /\ [mem EXCEPT ![s].next = v] = [mem EXCEPT ![s] = [mem[s] EXCEPT !.next = v]]
      /\ [mem EXCEPT ![s].prev = v] = [mem EXCEPT ![s] = [mem[s] EXCEPT !.prev = v]]
  BY DEF SoundMemory
<1>3. SoundMemory([mem EXCEPT ![s] = [mem[s] EXCEPT !.next = v]])
  BY <1>1, Updated
<1>4. SoundMemory([mem EXCEPT ![s] = [mem[s] EXCEPT !.prev = v]])
  BY <1>1, Updated
<1>. QED BY <1>2, <1>3, <1>4

LEMMA INSERTSound ==
  ASSUME NEW mem, SoundMemory(mem), NEW new
  PROVE  SoundMemory(INSERT(mem, new))
<1>. DEFINE one == [mem EXCEPT ![new].prev = last_sh]
            two == [one EXCEPT ![new].next = mem[last_sh].next]
            three == [two EXCEPT ![last_sh].next = new]
<1>1. SoundMemory(one)
  BY PointersSound
<1>2. SoundMemory(two)
  <2>. HIDE DEF one
  <2>. QED BY <1>1, PointersSound
<1>3. SoundMemory(three)
  <2>. HIDE DEF two
  <2>. QED BY <1>2, PointersSound
<1>4. INSERT(mem, new) = IF first_sh = NULL THEN mem ELSE three
  BY DEF INSERT
<1>. HIDE DEF three
<1>. QED BY <1>3, <1>4

LEMMA REMOVESound ==
  ASSUME NEW mem, SoundMemory(mem), NEW elem
  PROVE  SoundMemory(REMOVE(mem, elem))
<1>. DEFINE after == mem[elem].next
            before == mem[elem].prev
            ahead == IF elem = first_sh THEN mem ELSE [mem EXCEPT ![before].next = after]
<1>1. SoundMemory(ahead)
  BY PointersSound
<1>2. REMOVE(mem, elem) =
        IF after = NULL THEN ahead
        ELSE [ahead EXCEPT ![after].prev = IF elem = first_sh THEN NULL ELSE before]
  BY DEF REMOVE
<1>. HIDE DEF ahead, after, before
<1>3. \A v : SoundMemory([ahead EXCEPT ![after].prev = v])
  BY <1>1, PointersSound
<1>. QED BY <1>1, <1>2, <1>3

LEMMA CreateSound ==
  ASSUME WorkbookAssumption, IInv, NEW n, CreateSheet(n)
  PROVE  IInv'
<1>1. ASSUME NEW sh
      PROVE  SoundMemory(Calloced(sh, n))
  <2>1. Sound(Blank(n))
    <3>1. Shaped(Blank(n))
      BY WorkbookAssumption DEF Shaped, Record, Blank
    <3>. QED BY <3>1 DEF Sound, Blank
  <2>. QED BY <2>1 DEF Calloced, SoundMemory, IInv
<1>. QED BY <1>1, INSERTSound DEF CreateSheet, IInv

LEMMA DeleteSound ==
  ASSUME IInv, NEW n, DeleteSheet(n)
  PROVE  IInv'
<1>. DEFINE sh == Search_sheet(n)
            rest == REMOVE(sheet, sh)
<1>1. SoundMemory(rest) /\ DOMAIN rest = DOMAIN sheet
  <2>1. DOMAIN rest = DOMAIN sheet
    BY DEF REMOVE, IInv, SoundMemory
  <2>. QED BY <2>1, REMOVESound DEF IInv
<1>2. sheet' = [s \in DOMAIN sheet \ {sh} |-> rest[s]]
  BY DEF DeleteSheet, Restrict
<1>. HIDE DEF sh, rest
<1>. QED BY <1>1, <1>2 DEF IInv, SoundMemory

LEMMA CallerFits ==
  ASSUME CoordinatesFit, IInv, NEW p \in Places, Usable(p)
  PROVE  LET sh == lookat(sheet[cur_sh], p[1], p[2])
         IN /\ cur_sh \in DOMAIN sheet /\ Sound(sheet[cur_sh]) /\ Sound(sh)
            /\ Returned(sheet[cur_sh], p[1], p[2]) \in DOMAIN sh.ents
BY LookatSound DEF CoordinatesFit, IInv, SoundMemory, Usable, Indexable

LEMMA SetNumSound ==
  ASSUME CoordinatesFit, IInv, NEW p \in Places, NEW v \in Vals, SetNum(p, v)
  PROVE  IInv'
<1>. DEFINE sh == lookat(sheet[cur_sh], p[1], p[2])
            k == Returned(sheet[cur_sh], p[1], p[2])
            e == NumberedEnt(sh.ents[k], v)
            new == [sh EXCEPT !.ents = [@ EXCEPT ![k] = e]]
<1>1. cur_sh \in DOMAIN sheet /\ Sound(sh) /\ k \in DOMAIN sh.ents
  BY CallerFits DEF SetNum
<1>2. sheet' = [sheet EXCEPT ![cur_sh] = Numbered(sh, k, v)]
  BY DEF SetNum
<1>. HIDE DEF sh, k
<1>3. sh.ents[k] \in Ents
  BY <1>1, Fields
<1>4. e \in Ents /\ e.row = sh.ents[k].row /\ e.col = sh.ents[k].col
  BY <1>3 DEF Ents, NumberedEnt
<1>5. Numbered(sh, k, v) = new
  BY Zenon DEF Numbered
<1>6. Sound(new)
  <2>. HIDE DEF e
  <2>. QED BY <1>1, <1>4, WriteSound
<1>. HIDE DEF new
<1>. QED BY <1>2, <1>5, <1>6, Updated DEF IInv

LEMMA SetLabelSound ==
  ASSUME CoordinatesFit, IInv, NEW p \in Places, NEW text \in Labels, SetLabel(p, text)
  PROVE  IInv'
<1>. DEFINE sh == lookat(sheet[cur_sh], p[1], p[2])
            k == Returned(sheet[cur_sh], p[1], p[2])
            e == LabelledEnt(sh.ents[k], text)
            new == [sh EXCEPT !.ents = [@ EXCEPT ![k] = e]]
<1>1. cur_sh \in DOMAIN sheet /\ Sound(sh) /\ k \in DOMAIN sh.ents
  BY CallerFits DEF SetLabel
<1>2. sheet' = [sheet EXCEPT ![cur_sh] = Labelled(sh, k, text)]
  BY DEF SetLabel
<1>. HIDE DEF sh, k
<1>3. sh.ents[k] \in Ents
  BY <1>1, Fields
<1>4. e \in Ents /\ e.row = sh.ents[k].row /\ e.col = sh.ents[k].col
  BY <1>3 DEF Ents, LabelledEnt
<1>5. Labelled(sh, k, text) = new
  BY Zenon DEF Labelled
<1>6. Sound(new)
  <2>. HIDE DEF e
  <2>. QED BY <1>1, <1>4, WriteSound
<1>. HIDE DEF new
<1>. QED BY <1>2, <1>5, <1>6, Updated DEF IInv

LEMMA ReadSound ==
  ASSUME CoordinatesFit, IInv, NEW p \in Places, Read(p)
  PROVE  IInv'
<1>1. Sound(lookat(sheet[cur_sh], p[1], p[2]))
  BY CallerFits DEF Read
<1>2. sheet' = [sheet EXCEPT ![cur_sh] = lookat(sheet[cur_sh], p[1], p[2])]
  BY DEF Read
<1>. QED BY <1>1, <1>2, Updated DEF IInv

-----------------------------------------------------------------------------
(* The invariant holds in every reachable state. *)
LEMMA Invariance ==
  ASSUME CoordinatesFit
  PROVE  Spec => []IInv
<1>1. Init => IInv
  BY DEF Init, IInv, SoundMemory
<1>2. IInv /\ [Next]_vars => IInv'
  <2>. SUFFICES ASSUME IInv, [Next]_vars PROVE IInv'
    OBVIOUS
  <2>1. CASE UNCHANGED vars
    BY <2>1 DEF vars, IInv, SoundMemory
  <2>2. ASSUME NEW n \in Names, CreateSheet(n) PROVE IInv'
    BY <2>2, CreateSound, WorkbookAssumption
  <2>3. ASSUME NEW n \in Names, DeleteSheet(n) PROVE IInv'
    BY <2>3, DeleteSound
  <2>4. ASSUME NEW n \in Names, SelectSheet(n) PROVE IInv'
    BY <2>4 DEF SelectSheet, IInv, SoundMemory
  <2>5. ASSUME NEW p \in Places, NEW v \in Vals, SetNum(p, v) PROVE IInv'
    BY <2>5, SetNumSound
  <2>6. ASSUME NEW p \in Places, NEW text \in Labels, SetLabel(p, text) PROVE IInv'
    BY <2>6, SetLabelSound
  <2>7. ASSUME NEW p \in Places, Read(p) PROVE IInv'
    BY <2>7, ReadSound
  <2>. QED BY <2>1, <2>2, <2>3, <2>4, <2>5, <2>6, <2>7 DEF Next
<1>. QED BY <1>1, <1>2, PTL DEF Spec

(* Every cell is found again at its coordinates by the address it was given,
   and lies inside the extents of its sheet: no chain ever loses a cell and no
   place gets a second one, whatever sheets are created, selected and deleted
   in between. *)
THEOREM NoCellLost ==
  ASSUME CoordinatesFit
  PROVE  Spec => []CellsFindable
<1>1. IInv => CellsFindable
  <2>. SUFFICES ASSUME IInv, NEW s \in DOMAIN sheet, NEW k \in DOMAIN sheet[s].ents
                PROVE  /\ atbl(sheet[s], sheet[s].ents[k].row, sheet[s].ents[k].col) = k
                       /\ sheet[s].ents[k].row <= sheet[s].row
                       /\ sheet[s].ents[k].col <= sheet[s].col
    BY DEF CellsFindable
  <2>1. Sound(sheet[s])
    BY DEF IInv, SoundMemory
  <2>. QED BY <2>1, Found DEF Sound
<1>. QED BY <1>1, Invariance, PTL

-----------------------------------------------------------------------------
(* The list of sheets *)

(* Allocated sheets, each of another name. *)
Nodes(mem) ==
  /\ mem = [s \in DOMAIN mem |-> mem[s]]
  /\ \A s \in DOMAIN mem : Record(mem[s]) /\ mem[s].name \in Names
  /\ \A s, t \in DOMAIN mem : mem[s].name = mem[t].name => s = t

(* l spells the list: next leads from each sheet to the following one and
   prev back. *)
Spells(l, mem, first, last) ==
  /\ l \in Seq(Sheets) /\ IsInjective(l) /\ ToSet(l) = DOMAIN mem
  /\ first = IF Len(l) = 0 THEN NULL ELSE l[1]
  /\ last = IF Len(l) = 0 THEN NULL ELSE l[Len(l)]
  /\ \A i \in 1..Len(l) : mem[l[i]].next = IF i = Len(l) THEN NULL ELSE l[i+1]
  /\ \A i \in 1..Len(l) : mem[l[i]].prev = IF i = 1 THEN NULL ELSE l[i-1]

ListInv ==
  /\ Nodes(sheet)
  /\ \E l : Spells(l, sheet, first_sh, last_sh)
  /\ cur_sh \in Sheets \cup {NULL}

(* A walk meets the sheets of the list, in order. *)
LEMMA AtNext ==
  ASSUME WorkbookAssumption, NEW l, Spells(l, sheet, first_sh, last_sh)
  PROVE  At[0] = first_sh /\ \A n \in Nat : At[n+1] = After(At[n])
<1>. DEFINE D == DOMAIN sheet \cup {NULL}
            F == [s \in D |-> After(s)]
            W(w) == [i \in Nat |-> IF i = 0 THEN first_sh ELSE After(w[i-1])]
<1>1. first_sh \in D /\ F \in [D -> D]
  <2>1. \A i \in 1..Len(l) : l[i] \in DOMAIN sheet
    BY DEF Spells, ToSet
  <2>2. \A s \in DOMAIN sheet : \E i \in 1..Len(l) : l[i] = s
    BY DEF Spells, ToSet
  <2>3. Len(l) \in Nat
    BY DEF Spells
  <2>4. \A i \in 1..Len(l) : sheet[l[i]].next \in D
    BY <2>1, <2>3 DEF Spells
  <2>5. \A s \in DOMAIN sheet : sheet[s].next \in D
    BY <2>2, <2>4
  <2>6. first_sh \in D
    BY <2>1, <2>3 DEF Spells
  <2>. QED BY <2>5, <2>6 DEF After
<1>2. PICK g : g \in [Nat -> D] /\ g[0] = first_sh /\ \A n \in Nat : g[n+1] = F[g[n]]
  <2>. HIDE DEF D, F
  <2>1. \E g : Iterates(g, D, first_sh, F)
    BY <1>1, Iteration
  <2>. QED BY <2>1 DEF Iterates
<1>3. \A n \in Nat : g[n+1] = After(g[n])
  BY <1>2
<1>4. g = W(g)
  <2>1. \A i \in Nat : g[i] = IF i = 0 THEN first_sh ELSE After(g[i-1])
    <3>. SUFFICES ASSUME NEW i \in Nat, i /= 0 PROVE g[i] = After(g[i-1])
      BY <1>2
    <3>1. i - 1 \in Nat /\ (i - 1) + 1 = i
      OBVIOUS
    <3>. QED BY <1>3, <3>1
  <2>. QED BY <1>2, <2>1
<1>5. At = W(At)
  BY <1>4 DEF At
<1>6. \A n \in Nat : n + 1 \in Nat /\ n + 1 /= 0 /\ (n + 1) - 1 = n
  OBVIOUS
<1>. QED BY <1>5, <1>6

LEMMA WalkSpells ==
  ASSUME WorkbookAssumption, NEW l, Spells(l, sheet, first_sh, last_sh)
  PROVE  Walk = l
<1>. DEFINE n == Len(l)
            met == {i \in 0..Cardinality(Sheets) : At[i] /= NULL}
<1>1. At[0] = first_sh /\ \A i \in Nat : At[i+1] = After(At[i])
  BY AtNext
<1>2. /\ n \in Nat /\ l = [i \in 1..n |-> l[i]]
      /\ \A i \in 1..n : l[i] \in Sheets /\ l[i] /= NULL
  BY WorkbookAssumption DEF Spells
<1>. HIDE DEF n
<1>3. \A i \in 0..n : At[i] = IF i = n THEN NULL ELSE l[i+1]
  <2>. DEFINE S == {i \in 0..n : At[i] = IF i = n THEN NULL ELSE l[i+1]}
  <2>1. 0 \in S
    BY <1>1, <1>2 DEF Spells, n
  <2>2. ASSUME NEW i \in 0..n-1, i \in S PROVE i + 1 \in S
    <3>1. At[i] = l[i+1] /\ i + 1 \in 1..n /\ l[i+1] /= NULL /\ i \in Nat
      BY <2>2, <1>2
    <3>2. At[i+1] = sheet[l[i+1]].next
      BY <3>1, <1>1 DEF After
    <3>3. At[i+1] = IF i + 1 = n THEN NULL ELSE l[(i+1)+1]
      BY <3>1, <3>2 DEF Spells, n
    <3>. QED BY <3>1, <3>3, <1>2
  <2>3. 0..n \subseteq S
    <3>. HIDE DEF S
    <3>. QED BY <2>1, <2>2, <1>2, BoundedInduction
  <2>. QED BY <2>3
<1>4. \A i \in Nat : i >= n => At[i] = NULL
  <2>. DEFINE S == {j \in Nat : At[n+j] = NULL}
  <2>1. 0 \in S
    BY <1>2, <1>3
  <2>2. ASSUME NEW j \in Nat, j \in S PROVE j + 1 \in S
    <3>1. At[n+j] = NULL /\ n + j \in Nat /\ (n + j) + 1 = n + (j + 1)
      BY <2>2, <1>2
    <3>2. At[n+(j+1)] = NULL
      BY <3>1, <1>1 DEF After
    <3>. QED BY <3>2
  <2>3. Nat \subseteq S
    <3>. HIDE DEF S
    <3>. QED BY <2>1, <2>2, SetInduction
  <2>4. \A i \in Nat : i >= n => i - n \in Nat /\ n + (i - n) = i
    BY <1>2
  <2>. QED BY <2>3, <2>4
<1>5. n <= Cardinality(Sheets) /\ Cardinality(Sheets) \in Nat
  <2>1. Cardinality(ToSet(l)) = n /\ ToSet(l) \subseteq Sheets
    BY InjectiveLen, ElementsOf DEF Spells, n
  <2>. QED BY <2>1, FS_Subset, FS_CardinalityType, WorkbookAssumption
<1>6. met = 0..n-1
  <2>1. ASSUME NEW i \in met PROVE i \in 0..n-1
    BY <1>2, <1>4
  <2>2. ASSUME NEW i \in 0..n-1 PROVE i \in met
    <3>1. i \in 0..Cardinality(Sheets) /\ i \in 0..n /\ i /= n /\ i + 1 \in 1..n
      BY <1>2, <1>5
    <3>2. At[i] = l[i+1] /\ l[i+1] /= NULL
      BY <3>1, <1>2, <1>3
    <3>. QED BY <3>1, <3>2
  <2>. HIDE DEF met
  <2>. QED BY <2>1, <2>2
<1>7. Cardinality(met) = n
  <2>1. 0 \in Int /\ n - 1 \in Int
    BY <1>2
  <2>2. Cardinality(0..n-1) = IF 0 > n - 1 THEN 0 ELSE (n - 1) - 0 + 1
    BY <2>1, FS_Interval
  <2>3. (IF 0 > n - 1 THEN 0 ELSE (n - 1) - 0 + 1) = n
    BY <1>2
  <2>. HIDE DEF met
  <2>. QED BY <2>2, <2>3, <1>6
<1>8. Walk = [i \in 1..n |-> At[i-1]]
  BY <1>7 DEF Walk
<1>9. \A i \in 1..n : At[i-1] = l[i]
  <2>1. \A i \in 1..n : i - 1 \in 0..n /\ i - 1 /= n /\ (i - 1) + 1 = i
    BY <1>2
  <2>. QED BY <1>3, <2>1
<1>. QED BY <1>2, <1>8, <1>9

LEMMA Searched ==
  ASSUME WorkbookAssumption, NEW l, Spells(l, sheet, first_sh, last_sh), NEW n
  PROVE  /\ Search_sheet(n) = NULL => \A s \in DOMAIN sheet : sheet[s].name /= n
         /\ Search_sheet(n) /= NULL =>
              Search_sheet(n) \in DOMAIN sheet /\ sheet[Search_sheet(n)].name = n
<1>. DEFINE hits == {i \in DOMAIN l : sheet[l[i]].name = n}
<1>1. Search_sheet(n) = IF hits = {} THEN NULL ELSE l[Min(hits)]
  BY WalkSpells DEF Search_sheet
<1>2. DOMAIN l = 1..Len(l) /\ ToSet(l) = DOMAIN sheet /\ DOMAIN sheet \subseteq Sheets
  BY ElementsOf DEF Spells
<1>3. hits /= {} => Min(hits) \in hits
  <2>1. hits \in SUBSET Nat
    BY <1>2
  <2>. HIDE DEF hits
  <2>. QED BY <2>1, MinIsLeast
<1>4. \A i \in DOMAIN l : l[i] \in DOMAIN sheet /\ l[i] /= NULL
  BY <1>2, WorkbookAssumption DEF ToSet
<1>5. \A s \in DOMAIN sheet : \E i \in DOMAIN l : l[i] = s
  BY <1>2 DEF ToSet
<1>6. CASE hits = {}
  BY <1>1, <1>5, <1>6
<1>7. CASE hits /= {}
  <2>1. Min(hits) \in DOMAIN l /\ sheet[l[Min(hits)]].name = n
    BY <1>3, <1>7
  <2>. HIDE DEF hits
  <2>. QED BY <2>1, <1>1, <1>4, <1>7
<1>. QED BY <1>6, <1>7

(* What a write to a link leaves alone. *)
SameCells(new, old) ==
  /\ new.name = old.name /\ new.row = old.row /\ new.col = old.col
  /\ new.hash = old.hash /\ new.ents = old.ents

Kept(mem, old) ==
  /\ Nodes(mem) /\ DOMAIN mem = DOMAIN old
  /\ \A s \in DOMAIN old : SameCells(mem[s], old[s])

WithNext(mem, s, v) == [mem EXCEPT ![s].next = v]
WithPrev(mem, s, v) == [mem EXCEPT ![s].prev = v]

LEMMA NextWritten ==
  ASSUME NEW mem, Nodes(mem), NEW s, NEW v
  PROVE  /\ Kept(WithNext(mem, s, v), mem)
         /\ \A t \in DOMAIN mem :
              /\ WithNext(mem, s, v)[t].next = IF t = s THEN v ELSE mem[t].next
              /\ WithNext(mem, s, v)[t].prev = mem[t].prev
<1>. DEFINE new == WithNext(mem, s, v)
<1>1. new = [t \in DOMAIN mem |-> IF t = s THEN [mem[s] EXCEPT !.next = v] ELSE mem[t]]
  BY DEF Nodes, WithNext
<1>2. \A t \in DOMAIN mem : Record(mem[t])
  BY DEF Nodes
<1>3. \A t \in DOMAIN mem :
        /\ Record([mem[t] EXCEPT !.next = v]) /\ [mem[t] EXCEPT !.next = v].next = v
        /\ [mem[t] EXCEPT !.next = v].prev = mem[t].prev
        /\ SameCells([mem[t] EXCEPT !.next = v], mem[t])
  BY <1>2 DEF Record, SameCells
<1>. HIDE DEF new
<1>4. \A t \in DOMAIN mem :
        /\ Record(new[t]) /\ SameCells(new[t], mem[t]) /\ new[t].prev = mem[t].prev
        /\ new[t].next = IF t = s THEN v ELSE mem[t].next
  BY <1>1, <1>2, <1>3 DEF SameCells
<1>5. DOMAIN new = DOMAIN mem /\ new = [t \in DOMAIN new |-> new[t]]
  BY <1>1
<1>6. \A t \in DOMAIN mem : new[t].name = mem[t].name
  BY <1>4 DEF SameCells
<1>. QED BY <1>4, <1>5, <1>6 DEF Kept, Nodes, new

LEMMA PrevWritten ==
  ASSUME NEW mem, Nodes(mem), NEW s, NEW v
  PROVE  /\ Kept(WithPrev(mem, s, v), mem)
         /\ \A t \in DOMAIN mem :
              /\ WithPrev(mem, s, v)[t].prev = IF t = s THEN v ELSE mem[t].prev
              /\ WithPrev(mem, s, v)[t].next = mem[t].next
<1>. DEFINE new == WithPrev(mem, s, v)
<1>1. new = [t \in DOMAIN mem |-> IF t = s THEN [mem[s] EXCEPT !.prev = v] ELSE mem[t]]
  BY DEF Nodes, WithPrev
<1>2. \A t \in DOMAIN mem : Record(mem[t])
  BY DEF Nodes
<1>3. \A t \in DOMAIN mem :
        /\ Record([mem[t] EXCEPT !.prev = v]) /\ [mem[t] EXCEPT !.prev = v].prev = v
        /\ [mem[t] EXCEPT !.prev = v].next = mem[t].next
        /\ SameCells([mem[t] EXCEPT !.prev = v], mem[t])
  BY <1>2 DEF Record, SameCells
<1>. HIDE DEF new
<1>4. \A t \in DOMAIN mem :
        /\ Record(new[t]) /\ SameCells(new[t], mem[t]) /\ new[t].next = mem[t].next
        /\ new[t].prev = IF t = s THEN v ELSE mem[t].prev
  BY <1>1, <1>2, <1>3 DEF SameCells
<1>5. DOMAIN new = DOMAIN mem /\ new = [t \in DOMAIN new |-> new[t]]
  BY <1>1
<1>6. \A t \in DOMAIN mem : new[t].name = mem[t].name
  BY <1>4 DEF SameCells
<1>. QED BY <1>4, <1>5, <1>6 DEF Kept, Nodes, new

(* INSERT appends. *)
LEMMA INSERTAppends ==
  ASSUME WorkbookAssumption, Nodes(sheet), NEW l, Spells(l, sheet, first_sh, last_sh),
         NEW n \in Names, \A s \in DOMAIN sheet : sheet[s].name /= n,
         NEW sh \in Sheets \ DOMAIN sheet
  PROVE  LET mem == INSERT(Calloced(sh, n), sh)
         IN /\ Nodes(mem) /\ DOMAIN mem = DOMAIN sheet \cup {sh} /\ SameCells(mem[sh], Blank(n))
            /\ \A s \in DOMAIN sheet : SameCells(mem[s], sheet[s])
            /\ Spells(Append(l, sh), mem, IF first_sh = NULL THEN sh ELSE first_sh, sh)
<1>. DEFINE old == Calloced(sh, n)
            one == WithPrev(old, sh, last_sh)
            two == WithNext(one, sh, old[last_sh].next)
            three == WithNext(two, last_sh, sh)
            mem == INSERT(old, sh)
            m == Append(l, sh)
            k == Len(l)
<1>1. /\ l \in Seq(Sheets) /\ k \in Nat /\ ToSet(l) = DOMAIN sheet /\ DOMAIN sheet \subseteq Sheets
      /\ IsInjective(l) /\ sh \notin ToSet(l) /\ DOMAIN l = 1..k
      /\ \A i \in 1..k : l[i] \in DOMAIN sheet /\ l[i] /= NULL /\ l[i] /= sh
      /\ \A i, j \in 1..k : l[i] = l[j] => i = j
      /\ \A s \in DOMAIN sheet : \E i \in 1..k : l[i] = s
  BY ElementsOf, WorkbookAssumption DEF Spells, ToSet, IsInjective
<1>2. /\ m \in Seq(Sheets) /\ Len(m) = k + 1 /\ ToSet(m) = DOMAIN sheet \cup {sh} /\ IsInjective(m)
      /\ m[k+1] = sh /\ \A i \in 1..k : m[i] = l[i]
  <2>1. m[k+1] = sh /\ \A i \in 1..k : m[i] = l[i]
    BY <1>1
  <2>. QED BY <2>1, <1>1, AppendedProperties
<1>3. /\ Nodes(old) /\ DOMAIN old = DOMAIN sheet \cup {sh} /\ old[sh] = Blank(n)
      /\ \A s \in DOMAIN sheet : old[s] = sheet[s]
  <2>1. /\ old = [s \in DOMAIN sheet \cup {sh} |-> IF s = sh THEN Blank(n) ELSE sheet[s]]
        /\ Record(Blank(n)) /\ Blank(n).name = n
    BY DEF Calloced, Record, Blank
  <2>. QED BY <2>1 DEF Nodes
<1>3a. old[sh].next = NULL /\ old[sh].prev = NULL /\ old[sh].name = n
  BY <1>3 DEF Blank
<1>3b. \A x : SameCells(x, x)
  BY DEF SameCells
<1>4. mem = IF first_sh = NULL THEN old ELSE three
  BY DEF INSERT, WithNext, WithPrev
<1>4a. /\ first_sh = IF k = 0 THEN NULL ELSE l[1]
       /\ last_sh = IF k = 0 THEN NULL ELSE l[k]
       /\ \A i \in 1..k : /\ sheet[l[i]].next = IF i = k THEN NULL ELSE l[i+1]
                         /\ sheet[l[i]].prev = IF i = 1 THEN NULL ELSE l[i-1]
  BY DEF Spells
<1>. HIDE DEF m, old, mem, k
<1>5. first_sh = NULL <=> k = 0
  <2>1. k /= 0 => 1 \in 1..k
    BY <1>1
  <2>. QED BY <2>1, <1>1, <1>4a
<1>6. CASE k = 0
  <2>1. DOMAIN sheet = {} /\ mem = old
    <3>1. 1..k = {}
      BY <1>6
    <3>. QED BY <3>1, <1>1, <1>4, <1>5, <1>6
  <2>2. Len(m) = 1 /\ m[1] = sh
    BY <1>2, <1>6
  <2>3. Spells(m, mem, sh, sh)
    <3>1. \A i \in 1..Len(m) : /\ mem[m[i]].next = IF i = Len(m) THEN NULL ELSE m[i+1]
                              /\ mem[m[i]].prev = IF i = 1 THEN NULL ELSE m[i-1]
      BY <1>3a, <2>1, <2>2
    <3>2. /\ sh = IF Len(m) = 0 THEN NULL ELSE m[1]
          /\ sh = IF Len(m) = 0 THEN NULL ELSE m[Len(m)]
          /\ m \in Seq(Sheets) /\ IsInjective(m) /\ ToSet(m) = DOMAIN mem
      BY <1>2, <1>3, <2>1, <2>2
    <3>. QED BY <3>1, <3>2 DEF Spells
  <2>. QED BY <1>3, <1>3b, <1>5, <1>6, <2>1, <2>3 DEF m, old, mem
<1>7. CASE k /= 0
  <2>1. /\ last_sh = l[k] /\ k \in 1..k /\ last_sh \in DOMAIN sheet /\ first_sh = l[1] /\ last_sh /= sh
        /\ old[last_sh].next = NULL
    <3>1. k \in 1..k
      BY <1>1, <1>7
    <3>. QED BY <3>1, <1>1, <1>3, <1>4a, <1>7
  <2>2. /\ Kept(one, old)
        /\ \A s \in DOMAIN old : /\ one[s].next = old[s].next
                                 /\ one[s].prev = IF s = sh THEN last_sh ELSE old[s].prev
    <3>1. Nodes(old)
      BY <1>3
    <3>. QED BY <3>1, PrevWritten
  <2>. HIDE DEF one
  <2>3. /\ Kept(two, one)
        /\ \A s \in DOMAIN one : /\ two[s].next = IF s = sh THEN NULL ELSE one[s].next
                                 /\ two[s].prev = one[s].prev
    <3>1. Nodes(one) /\ two = WithNext(one, sh, NULL)
      BY <2>1, <2>2 DEF Kept
    <3>. HIDE DEF two
    <3>. QED BY <3>1, NextWritten
  <2>. HIDE DEF two
  <2>4. /\ Kept(three, two)
        /\ \A s \in DOMAIN two : /\ three[s].next = IF s = last_sh THEN sh ELSE two[s].next
                                 /\ three[s].prev = two[s].prev
    <3>1. Nodes(two)
      BY <2>3 DEF Kept
    <3>. QED BY <3>1, NextWritten
  <2>. HIDE DEF three
  <2>5. /\ Nodes(mem) /\ DOMAIN mem = DOMAIN sheet \cup {sh}
        /\ SameCells(mem[sh], Blank(n)) /\ mem[sh].next = NULL /\ mem[sh].prev = last_sh
        /\ \A s \in DOMAIN sheet :
             /\ SameCells(mem[s], sheet[s]) /\ mem[s].prev = sheet[s].prev
             /\ mem[s].next = IF s = last_sh THEN sh ELSE sheet[s].next
    <3>1. mem = three
      BY <1>4, <1>5, <1>7
    <3>2. \A s \in DOMAIN old : SameCells(three[s], old[s])
      BY <2>2, <2>3, <2>4 DEF Kept, SameCells
    <3>. QED BY <3>1, <3>2, <1>3, <1>3a, <2>1, <2>2, <2>3, <2>4 DEF Kept
  <2>6. ASSUME NEW i \in 1..k+1
        PROVE  /\ mem[m[i]].next = IF i = k + 1 THEN NULL ELSE m[i+1]
               /\ mem[m[i]].prev = IF i = 1 THEN NULL ELSE m[i-1]
    <3>1. CASE i = k + 1
      <4>1. m[i] = sh /\ i /= 1 /\ m[i-1] = l[k]
        BY <3>1, <1>1, <1>2, <1>7
      <4>. QED BY <4>1, <3>1, <2>1, <2>5
    <3>2. CASE i = k
      <4>1. i \in 1..k /\ m[i] = last_sh /\ m[i+1] = sh /\ i /= k + 1 /\ (i /= 1 => m[i-1] = l[i-1])
        BY <3>2, <1>1, <1>2, <1>7, <2>1
      <4>2. sheet[l[i]].prev = IF i = 1 THEN NULL ELSE l[i-1]
        BY <4>1 DEF Spells, k
      <4>. QED BY <4>1, <4>2, <3>2, <2>1, <2>5
    <3>3. CASE i \in 1..k /\ i /= k
      <4>1. m[i] = l[i] /\ l[i] \in DOMAIN sheet /\ l[i] /= last_sh
        BY <3>3, <1>1, <1>2, <2>1
      <4>2. i /= k + 1 /\ i + 1 \in 1..k /\ m[i+1] = l[i+1] /\ (i /= 1 => m[i-1] = l[i-1])
        BY <3>3, <1>1, <1>2
      <4>3. sheet[l[i]].prev = (IF i = 1 THEN NULL ELSE l[i-1]) /\ sheet[l[i]].next = l[i+1]
        BY <3>3 DEF Spells, k
      <4>. QED BY <4>1, <4>2, <4>3, <2>5
    <3>. QED BY <1>1, <3>1, <3>2, <3>3
  <2>7. m[1] = first_sh /\ Len(m) /= 0 /\ m[Len(m)] = sh
    BY <1>1, <1>2, <1>7, <2>1
  <2>8. Spells(m, mem, first_sh, sh)
    BY <1>2, <2>5, <2>6, <2>7 DEF Spells
  <2>. QED BY <1>5, <1>7, <2>5, <2>8 DEF m, old, mem
<1>. QED BY <1>6, <1>7

(* The sequence without its k-th element. *)
Without(l, k) == [i \in 1..Len(l)-1 |-> IF i < k THEN l[i] ELSE l[i+1]]

LEMMA WithoutProperties ==
  ASSUME NEW S, NEW l \in Seq(S), IsInjective(l), NEW k \in 1..Len(l)
  PROVE  /\ Without(l, k) \in Seq(S) /\ Len(Without(l, k)) = Len(l) - 1
         /\ IsInjective(Without(l, k)) /\ ToSet(Without(l, k)) = ToSet(l) \ {l[k]}
<1>. DEFINE m == Without(l, k)
            n == Len(l)
<1>1. /\ n \in Nat /\ k \in Nat /\ DOMAIN l = 1..n /\ \A i \in 1..n : l[i] \in S
      /\ \A i, j \in 1..n : l[i] = l[j] => i = j
  BY DEF IsInjective
<1>. HIDE DEF n
<1>2. m = [i \in 1..n-1 |-> IF i < k THEN l[i] ELSE l[i+1]]
  BY DEF Without, n
<1>. HIDE DEF m
<1>3. m \in Seq(S) /\ Len(m) = n - 1 /\ DOMAIN m = 1..n-1
  <2>1. \A i \in 1..n-1 : i \in 1..n /\ i + 1 \in 1..n
    BY <1>1
  <2>2. \A i \in 1..n-1 : m[i] \in S
    BY <1>1, <1>2, <2>1
  <2>3. n - 1 \in Nat
    BY <1>1, k \in 1..n DEF n
  <2>4. m \in [1..n-1 -> S]
    BY <1>2, <2>2
  <2>. QED BY <2>3, <2>4
<1>4. \A i \in 1..n-1 : i \in 1..n /\ i + 1 \in 1..n /\ m[i] = l[IF i < k THEN i ELSE i + 1]
  BY <1>1, <1>2
<1>5. IsInjective(m)
  <2>1. ASSUME NEW i \in 1..n-1, NEW j \in 1..n-1, m[i] = m[j] PROVE i = j
    <3>1. (IF i < k THEN i ELSE i + 1) = (IF j < k THEN j ELSE j + 1)
      BY <2>1, <1>1, <1>4
    <3>. QED BY <3>1, <1>1
  <2>. QED BY <2>1, <1>3 DEF IsInjective
<1>6. ToSet(m) = ToSet(l) \ {l[k]}
  <2>1. ASSUME NEW x \in ToSet(m) PROVE x \in ToSet(l) \ {l[k]}
    <3>1. PICK i \in 1..n-1 : x = m[i]
      BY <2>1, <1>3 DEF ToSet
    <3>2. PICK j \in 1..n : x = l[j] /\ j /= k
      BY <3>1, <1>1, <1>4
    <3>. QED BY <3>2, <1>1 DEF ToSet, n
  <2>2. ASSUME NEW x \in ToSet(l), x /= l[k] PROVE x \in ToSet(m)
    <3>1. PICK j \in 1..n : x = l[j]
      BY <2>2, <1>1 DEF ToSet
    <3>2. j /= k
      BY <2>2, <3>1
    <3>3. CASE j < k
      <4>1. j \in 1..n-1 /\ m[j] = x
        BY <3>1, <3>3, <1>1, <1>4, k \in 1..n DEF n
      <4>. QED BY <4>1, <1>3 DEF ToSet
    <3>4. CASE j > k
      <4>1. j - 1 \in 1..n-1 /\ ~(j - 1 < k) /\ (j - 1) + 1 = j
        BY <3>1, <3>4, <1>1, k \in 1..n DEF n
      <4>2. m[j-1] = x
        BY <4>1, <3>1, <1>4
      <4>. QED BY <4>1, <4>2, <1>3 DEF ToSet
    <3>. QED BY <3>2, <3>3, <3>4, <1>1
  <2>. QED BY <2>1, <2>2
<1>. QED BY <1>3, <1>5, <1>6 DEF m, n

(* REMOVE cuts the sheet out. *)
LEMMA REMOVECuts ==
  ASSUME WorkbookAssumption, Nodes(sheet), NEW l, Spells(l, sheet, first_sh, last_sh),
         NEW k \in 1..Len(l)
  PROVE  LET sh == l[k]
             mem == Restrict(REMOVE(sheet, sh), DOMAIN sheet \ {sh})
         IN /\ Nodes(mem) /\ DOMAIN mem = DOMAIN sheet \ {sh}
            /\ \A s \in DOMAIN mem : SameCells(mem[s], sheet[s])
            /\ Spells(Without(l, k), mem, IF sh = first_sh THEN sheet[sh].next ELSE first_sh,
                      LastAfterREMOVE(sh))
<1>. DEFINE n == Len(l)
            sh == l[k]
            after == IF k = n THEN NULL ELSE l[k+1]
            before == IF k = 1 THEN NULL ELSE l[k-1]
            ahead == IF k = 1 THEN sheet ELSE WithNext(sheet, before, after)
            cut == IF k = n THEN ahead ELSE WithPrev(ahead, after, before)
            mem == Restrict(REMOVE(sheet, sh), DOMAIN sheet \ {sh})
            m == Without(l, k)
<1>0. k \in 1..n /\ n \in Nat /\ l \in Seq(Sheets)
  BY DEF Spells
<1>1. /\ ToSet(l) = DOMAIN sheet /\ DOMAIN sheet \subseteq Sheets /\ DOMAIN l = 1..n
      /\ \A i \in 1..n : l[i] \in DOMAIN sheet /\ l[i] /= NULL
      /\ \A i, j \in 1..n : l[i] = l[j] => i = j
  BY ElementsOf, WorkbookAssumption DEF Spells, ToSet, IsInjective
<1>2. /\ first_sh = IF n = 0 THEN NULL ELSE l[1]
      /\ last_sh = IF n = 0 THEN NULL ELSE l[n]
      /\ \A i \in 1..n : /\ sheet[l[i]].next = IF i = n THEN NULL ELSE l[i+1]
                         /\ sheet[l[i]].prev = IF i = 1 THEN NULL ELSE l[i-1]
  BY DEF Spells
<1>3. /\ m \in Seq(Sheets) /\ Len(m) = n - 1 /\ IsInjective(m) /\ ToSet(m) = DOMAIN sheet \ {sh}
      /\ \A i \in 1..n-1 : m[i] = IF i < k THEN l[i] ELSE l[i+1]
  <2>1. \A i \in 1..n-1 : m[i] = IF i < k THEN l[i] ELSE l[i+1]
    BY DEF Without
  <2>2. IsInjective(l)
    BY DEF Spells
  <2>3. /\ m \in Seq(Sheets) /\ Len(m) = Len(l) - 1
        /\ IsInjective(m) /\ ToSet(m) = ToSet(l) \ {l[k]}
    <3>. HIDE DEF m
    <3>. QED BY <2>2, <1>0, WithoutProperties DEF m
  <2>. HIDE DEF m
  <2>. QED BY <2>1, <2>3, <1>1
<1>. HIDE DEF n
<1>4. sh \in DOMAIN sheet /\ sheet[sh].next = after /\ sheet[sh].prev = before
  BY <1>0, <1>1, <1>2
<1>5. (sh = first_sh <=> k = 1) /\ (after = NULL <=> k = n)
  <2>1. 1 \in 1..n /\ first_sh = l[1] /\ (k /= n => k + 1 \in 1..n)
    BY <1>0, <1>2
  <2>. QED BY <2>1, <1>0, <1>1
<1>6. REMOVE(sheet, sh) = cut
  BY <1>4, <1>5 DEF REMOVE, WithNext, WithPrev
<1>6a. \A x : SameCells(x, x)
  BY DEF SameCells
<1>7. /\ Kept(ahead, sheet)
      /\ \A s \in DOMAIN sheet : /\ ahead[s].next = IF k /= 1 /\ s = before THEN after ELSE sheet[s].next
                                 /\ ahead[s].prev = sheet[s].prev
  BY <1>6a, NextWritten DEF Kept
<1>. HIDE DEF ahead
<1>8. /\ Kept(cut, ahead)
      /\ \A s \in DOMAIN ahead : /\ cut[s].prev = IF k /= n /\ s = after THEN before ELSE ahead[s].prev
                                 /\ cut[s].next = ahead[s].next
  <2>1. Nodes(ahead)
    BY <1>7 DEF Kept
  <2>. QED BY <2>1, <1>6a, PrevWritten DEF Kept
<1>9. mem = [s \in DOMAIN sheet \ {sh} |-> cut[s]]
  BY <1>6 DEF Restrict
<1>. HIDE DEF cut, mem, m
<1>10. /\ Nodes(mem) /\ DOMAIN mem = DOMAIN sheet \ {sh}
       /\ \A s \in DOMAIN mem :
            /\ SameCells(mem[s], sheet[s])
            /\ mem[s].next = IF k /= 1 /\ s = before THEN after ELSE sheet[s].next
            /\ mem[s].prev = IF k /= n /\ s = after THEN before ELSE sheet[s].prev
  <2>. HIDE DEF sh, before, after
  <2>1. /\ DOMAIN cut = DOMAIN sheet /\ Nodes(cut)
        /\ \A s \in DOMAIN sheet :
            /\ SameCells(cut[s], sheet[s])
            /\ cut[s].next = IF k /= 1 /\ s = before THEN after ELSE sheet[s].next
            /\ cut[s].prev = IF k /= n /\ s = after THEN before ELSE sheet[s].prev
    <3>1. \A s \in DOMAIN sheet : SameCells(cut[s], sheet[s])
      BY <1>7, <1>8 DEF Kept, SameCells
    <3>. QED BY <3>1, <1>7, <1>8 DEF Kept
  <2>2. Nodes(mem)
    BY <2>1, <1>9 DEF Nodes
  <2>. QED BY <2>1, <2>2, <1>9
<1>11. ASSUME NEW i \in 1..n-1
       PROVE  /\ mem[m[i]].next = IF i = n - 1 THEN NULL ELSE m[i+1]
              /\ mem[m[i]].prev = IF i = 1 THEN NULL ELSE m[i-1]
  <2>. DEFINE j == IF i < k THEN i ELSE i + 1
  <2>1. j \in 1..n /\ j /= k /\ m[i] = l[j] /\ l[j] \in DOMAIN mem
    BY <1>0, <1>1, <1>3, <1>10
  <2>2. /\ sheet[l[j]].next = IF j = n THEN NULL ELSE l[j+1]
        /\ sheet[l[j]].prev = IF j = 1 THEN NULL ELSE l[j-1]
    BY <2>1, <1>2
  <2>3. (k /= 1 /\ l[j] = before <=> k /= 1 /\ j = k - 1) /\ (k /= n /\ l[j] = after <=> k /= n /\ j = k + 1)
    <3>1. (k /= 1 => k - 1 \in 1..n) /\ (k /= n => k + 1 \in 1..n)
      BY <1>0
    <3>. QED BY <3>1, <2>1, <1>1
  <2>4. /\ mem[m[i]].next = IF k /= 1 /\ j = k - 1 THEN after ELSE IF j = n THEN NULL ELSE l[j+1]
        /\ mem[m[i]].prev = IF k /= n /\ j = k + 1 THEN before ELSE IF j = 1 THEN NULL ELSE l[j-1]
    <3>. HIDE DEF before, after, j
    <3>. QED BY <2>1, <2>2, <2>3, <1>10
  <2>5. i /= n - 1 => i + 1 \in 1..n-1 /\ m[i+1] = l[IF i + 1 < k THEN i + 1 ELSE i + 2]
    BY <1>0, <1>3
  <2>6. i /= 1 => i - 1 \in 1..n-1 /\ m[i-1] = l[IF i - 1 < k THEN i - 1 ELSE i]
    BY <1>0, <1>3
  <2>7. mem[m[i]].next = IF i = n - 1 THEN NULL ELSE m[i+1]
    BY <2>4, <2>5, <1>0
  <2>8. mem[m[i]].prev = IF i = 1 THEN NULL ELSE m[i-1]
    BY <2>4, <2>6, <1>0
  <2>. QED BY <2>7, <2>8
<1>12. (IF sh = first_sh THEN sheet[sh].next ELSE first_sh) = IF Len(m) = 0 THEN NULL ELSE m[1]
  <2>1. n - 1 /= 0 => 1 \in 1..n-1 /\ m[1] = IF 1 < k THEN l[1] ELSE l[1+1]
    BY <1>0, <1>3
  <2>2. first_sh = l[1]
    BY <1>0, <1>2
  <2>. QED BY <2>1, <2>2, <1>0, <1>3, <1>4, <1>5
<1>13. LastAfterREMOVE(sh) = IF Len(m) = 0 THEN NULL ELSE m[Len(m)]
  <2>1. n - 1 /= 0 => n - 1 \in 1..n-1 /\ m[n-1] = IF n - 1 < k THEN l[n-1] ELSE l[n]
    BY <1>0, <1>3
  <2>2. last_sh = l[n]
    BY <1>0, <1>2
  <2>3. LastAfterREMOVE(sh) = IF k /= n THEN last_sh ELSE IF k = 1 THEN NULL ELSE before
    BY <1>4, <1>5 DEF LastAfterREMOVE
  <2>. QED BY <2>1, <2>2, <2>3, <1>0, <1>3
<1>14. Spells(m, mem, IF sh = first_sh THEN sheet[sh].next ELSE first_sh, LastAfterREMOVE(sh))
  <2>1. \A i \in 1..Len(m) : /\ mem[m[i]].next = IF i = Len(m) THEN NULL ELSE m[i+1]
                             /\ mem[m[i]].prev = IF i = 1 THEN NULL ELSE m[i-1]
    BY <1>3, <1>11
  <2>. HIDE DEF sh
  <2>. QED BY <2>1, <1>3, <1>10, <1>12, <1>13 DEF Spells
<1>. QED BY <1>10, <1>14 DEF m, mem

-----------------------------------------------------------------------------
(* The calls on cells leave the list alone. *)
SameNode(new, old) ==
  Record(new) /\ new.name = old.name /\ new.next = old.next /\ new.prev = old.prev

LEMMA LookatKeepsNode ==
  ASSUME NEW sh, Record(sh), NEW r, NEW c
  PROVE  SameNode(lookat(sh, r, c), sh)
<1>1. SameNode(WithEnt(sh, r, c), sh)
  <2>1. ASSUME NEW row, NEW col, NEW hash, NEW ents, NEW new,
               new = [name |-> sh.name, next |-> sh.next, prev |-> sh.prev, row |-> row,
                      col |-> col, hash |-> hash, ents |-> ents]
        PROVE  SameNode(new, sh)
    BY <2>1 DEF SameNode, Record
  <2>. DEFINE hash == [sh.hash EXCEPT ![HASH(r, c)] = <<Len(sh.ents) + 1>> \o sh.hash[HASH(r, c)]]
  <2>2. WithEnt(sh, r, c) =
          [name |-> sh.name, next |-> sh.next, prev |-> sh.prev,
           row |-> Larger(sh.row, r), col |-> Larger(sh.col, c),
           hash |-> hash, ents |-> Append(sh.ents, BlankEnt(r, c))]
    BY NewCellShape
  <2>. HIDE DEF hash
  <2>. QED BY <2>1, <2>2, Zenon
<1>2. SameNode(sh, sh)
  BY DEF SameNode
<1>. QED BY <1>1, <1>2 DEF lookat

LEMMA WriteKeepsNode ==
  ASSUME NEW sh, Record(sh), NEW k, NEW v
  PROVE  SameNode(Numbered(sh, k, v), sh) /\ SameNode(Labelled(sh, k, v), sh)
<1>1. ASSUME NEW ents PROVE SameNode([sh EXCEPT !.ents = ents], sh)
  BY DEF SameNode, Record
<1>2. \E ents : Numbered(sh, k, v) = [sh EXCEPT !.ents = ents]
  BY DEF Numbered
<1>3. \E ents : Labelled(sh, k, v) = [sh EXCEPT !.ents = ents]
  BY DEF Labelled
<1>. QED BY <1>1, <1>2, <1>3

LEMMA SpellsKept ==
  ASSUME NEW l, NEW mem, NEW new, NEW first, NEW last, Spells(l, mem, first, last),
         DOMAIN new = DOMAIN mem, \A t \in DOMAIN mem : SameNode(new[t], mem[t])
  PROVE  Spells(l, new, first, last)
<1>1. \A i \in 1..Len(l) : l[i] \in DOMAIN mem
  BY DEF Spells, ToSet
<1>. QED BY <1>1 DEF Spells, SameNode

LEMMA NodeKept ==
  ASSUME ListInv, NEW s \in DOMAIN sheet, NEW sh, SameNode(sh, sheet[s]),
         sheet' = [sheet EXCEPT ![s] = sh], UNCHANGED <<first_sh, last_sh, cur_sh>>
  PROVE  ListInv'
<1>1. PICK l : Spells(l, sheet, first_sh, last_sh)
  BY DEF ListInv
<1>2. /\ sheet' = [t \in DOMAIN sheet |-> IF t = s THEN sh ELSE sheet[t]]
      /\ \A t \in DOMAIN sheet : Record(sheet[t])
  BY DEF ListInv, Nodes
<1>3. /\ DOMAIN sheet' = DOMAIN sheet
      /\ \A t \in DOMAIN sheet : SameNode(sheet'[t], sheet[t])
  BY <1>2 DEF SameNode
<1>4. Nodes(sheet')
  <2>1. \A t \in DOMAIN sheet : Record(sheet'[t]) /\ sheet'[t].name = sheet[t].name
    BY <1>3 DEF SameNode
  <2>2. sheet' = [t \in DOMAIN sheet' |-> sheet'[t]]
    BY <1>2
  <2>. QED BY <2>1, <2>2, <1>3 DEF Nodes, ListInv
<1>5. Spells(l, sheet', first_sh', last_sh')
  BY <1>1, <1>3, SpellsKept
<1>. QED BY <1>4, <1>5 DEF ListInv

LEMMA CallKeepsList ==
  ASSUME ListInv, NEW p \in Places,
         \/ \E v \in Vals : SetNum(p, v)
         \/ \E text \in Labels : SetLabel(p, text)
         \/ Read(p)
  PROVE  ListInv'
<1>. DEFINE old == sheet[cur_sh]
            sh == lookat(old, p[1], p[2])
            k == Returned(old, p[1], p[2])
<1>1. cur_sh \in DOMAIN sheet /\ UNCHANGED <<first_sh, last_sh, cur_sh>>
  BY DEF SetNum, SetLabel, Read, Usable
<1>2. Record(old)
  BY <1>1 DEF ListInv, Nodes
<1>3. SameNode(sh, old)
  BY <1>2, LookatKeepsNode
<1>4. ASSUME NEW v
      PROVE  SameNode(Numbered(sh, k, v), old) /\ SameNode(Labelled(sh, k, v), old)
  <2>. HIDE DEF sh, k
  <2>1. SameNode(Numbered(sh, k, v), sh) /\ SameNode(Labelled(sh, k, v), sh)
    BY <1>3, WriteKeepsNode DEF SameNode
  <2>. QED BY <2>1, <1>3 DEF SameNode
<1>5. \E new : SameNode(new, old) /\ sheet' = [sheet EXCEPT ![cur_sh] = new]
  <2>1. \/ \E v \in Vals : sheet' = [sheet EXCEPT ![cur_sh] = Numbered(sh, k, v)]
        \/ \E text \in Labels : sheet' = [sheet EXCEPT ![cur_sh] = Labelled(sh, k, text)]
        \/ sheet' = [sheet EXCEPT ![cur_sh] = sh]
    BY DEF SetNum, SetLabel, Read
  <2>. HIDE DEF sh, k, old
  <2>. QED BY <2>1, <1>3, <1>4
<1>. QED BY <1>1, <1>5, NodeKept

LEMMA CreateKeepsList ==
  ASSUME ListInv, NEW n \in Names, CreateSheet(n)
  PROVE  ListInv'
<1>1. PICK l : Spells(l, sheet, first_sh, last_sh)
  BY DEF ListInv
<1>2. /\ Search_sheet(n) = NULL => \A s \in DOMAIN sheet : sheet[s].name /= n
      /\ Search_sheet(n) /= NULL => Search_sheet(n) \in DOMAIN sheet
      /\ DOMAIN sheet \subseteq Sheets
  BY <1>1, Searched, ElementsOf, WorkbookAssumption DEF Spells
<1>3. CASE Search_sheet(n) /= NULL
  <2>1. cur_sh' \in Sheets /\ UNCHANGED <<first_sh, last_sh, sheet>>
    BY <1>2, <1>3 DEF CreateSheet
  <2>. QED BY <2>1 DEF ListInv, Nodes, Spells
<1>4. CASE Search_sheet(n) = NULL
  <2>1. PICK sh \in Sheets \ DOMAIN sheet :
          /\ sheet' = INSERT(Calloced(sh, n), sh)
          /\ first_sh' = IF first_sh = NULL THEN sh ELSE first_sh
          /\ last_sh' = sh
          /\ cur_sh' = sh
    BY <1>4 DEF CreateSheet
  <2>2. Nodes(sheet') /\ Spells(Append(l, sh), sheet', first_sh', last_sh')
    BY <1>1, <1>2, <1>4, <2>1, INSERTAppends, WorkbookAssumption DEF ListInv
  <2>. QED BY <2>1, <2>2 DEF ListInv
<1>. QED BY <1>3, <1>4

LEMMA DeleteKeepsList ==
  ASSUME ListInv, NEW n, DeleteSheet(n)
  PROVE  ListInv'
<1>1. PICK l : Spells(l, sheet, first_sh, last_sh)
  BY DEF ListInv
<1>2. Search_sheet(n) \in DOMAIN sheet
  BY <1>1, Searched, WorkbookAssumption DEF DeleteSheet
<1>3. PICK k \in 1..Len(l) : l[k] = Search_sheet(n)
  BY <1>1, <1>2 DEF Spells, ToSet
<1>4. /\ sheet' = Restrict(REMOVE(sheet, l[k]), DOMAIN sheet \ {l[k]})
      /\ first_sh' = IF l[k] = first_sh THEN sheet[l[k]].next ELSE first_sh
      /\ last_sh' = LastAfterREMOVE(l[k])
      /\ UNCHANGED cur_sh
  BY <1>3 DEF DeleteSheet
<1>5. Nodes(sheet') /\ Spells(Without(l, k), sheet', first_sh', last_sh')
  BY <1>1, <1>4, REMOVECuts, WorkbookAssumption DEF ListInv
<1>. QED BY <1>4, <1>5 DEF ListInv

LEMMA ListInvariance == Spec => []ListInv
<1>1. Init => ListInv
  <2>1. Init => Spells(<<>>, sheet, first_sh, last_sh)
    BY DEF Init, Spells, IsInjective, ToSet
  <2>. QED BY <2>1 DEF Init, ListInv, Nodes
<1>2. ListInv /\ [Next]_vars => ListInv'
  <2>. SUFFICES ASSUME ListInv, [Next]_vars PROVE ListInv'
    OBVIOUS
  <2>1. CASE UNCHANGED vars
    BY <2>1 DEF vars, ListInv, Nodes, Spells
  <2>2. ASSUME NEW n \in Names, CreateSheet(n) PROVE ListInv'
    BY <2>2, CreateKeepsList
  <2>3. ASSUME NEW n \in Names, DeleteSheet(n) PROVE ListInv'
    BY <2>3, DeleteKeepsList
  <2>4. ASSUME NEW n \in Names, SelectSheet(n) PROVE ListInv'
    <3>1. PICK l : Spells(l, sheet, first_sh, last_sh)
      BY DEF ListInv
    <3>2. Search_sheet(n) \in Sheets \cup {NULL}
      BY <3>1, Searched, ElementsOf, WorkbookAssumption DEF Spells
    <3>. QED BY <2>4, <3>2 DEF SelectSheet, ListInv, Nodes, Spells
  <2>5. ASSUME NEW p \in Places,
               \/ \E v \in Vals : SetNum(p, v)
               \/ \E text \in Labels : SetLabel(p, text)
               \/ Read(p)
        PROVE  ListInv'
    BY <2>5, CallKeepsList
  <2>. QED BY <2>1, <2>2, <2>3, <2>4, <2>5 DEF Next
<1>. QED BY <1>1, <1>2, PTL DEF Spec

(* new_sheet and delete_sheet keep the list whole, from the first sheet to the
   last and back, whatever is done to the cells. *)
THEOREM ListWhole == Spec => []ListSound
<1>1. ListInv => ListSound
  <2>. SUFFICES ASSUME ListInv PROVE ListSound
    OBVIOUS
  <2>1. PICK l : Spells(l, sheet, first_sh, last_sh)
    BY DEF ListInv
  <2>2. Walk = l
    BY <2>1, WalkSpells, WorkbookAssumption
  <2>3. last_sh = IF l = <<>> THEN NULL ELSE Last(l)
    BY <2>1 DEF Spells, Last
  <2>4. DOMAIN l = 1..Len(l)
    BY <2>1 DEF Spells
  <2>. QED BY <2>1, <2>2, <2>3, <2>4 DEF ListSound, Spells, ListInv, Nodes
<1>. QED BY <1>1, ListInvariance, PTL

(* A sheet whose chains name its cells. *)
Chained(sh) ==
  /\ Record(sh)
  /\ \E S : sh.ents \in Seq(S)
  /\ sh.hash \in [0..HashNr-1 -> Seq(DOMAIN sh.ents)]

ChainInv == \A s \in DOMAIN sheet : Chained(sheet[s])

LEMMA LookatChained ==
  ASSUME NEW sh, Chained(sh), NEW r, NEW c
  PROVE  Chained(lookat(sh, r, c))
<1>. DEFINE new == WithEnt(sh, r, c)
            k == Len(sh.ents) + 1
            e == BlankEnt(r, c)
            h == HASH(r, c)
<1>1. PICK S : sh.ents \in Seq(S)
  BY DEF Chained
<1>2. /\ new.hash = [sh.hash EXCEPT ![h] = <<k>> \o sh.hash[h]]
      /\ new.ents = Append(sh.ents, e) /\ Record(new)
  <2>1. \E row, col :
          new = [name |-> sh.name, next |-> sh.next, prev |-> sh.prev, row |-> row, col |-> col,
                 hash |-> [sh.hash EXCEPT ![h] = <<k>> \o sh.hash[h]],
                 ents |-> Append(sh.ents, e)]
    <3>1. Record(sh)
      BY DEF Chained
    <3>. QED BY <3>1, NewCellShape, Zenon
  <2>. HIDE DEF new, h, k, e
  <2>. QED BY <2>1 DEF Record
<1>. HIDE DEF new, e, h
<1>3. new.ents \in Seq(S \cup {e}) /\ DOMAIN new.ents = 1..k /\ DOMAIN sh.ents = 1..k-1 /\ k \in Nat \ {0}
  <2>1. sh.ents \in Seq(S \cup {e}) /\ Len(sh.ents) \in Nat
    BY <1>1
  <2>. QED BY <2>1, <1>2
<1>. HIDE DEF k
<1>4. \A g \in 0..HashNr-1 : sh.hash[g] \in Seq(1..k)
  <2>1. \A g \in 0..HashNr-1 : sh.hash[g] \in Seq(1..k-1)
    BY <1>3 DEF Chained
  <2>2. Seq(1..k-1) \subseteq Seq(1..k)
    BY <1>3
  <2>. QED BY <2>1, <2>2
<1>5. h \in 0..HashNr-1 => <<k>> \o sh.hash[h] \in Seq(1..k)
  <2>1. k \in 1..k
    BY <1>3
  <2>. QED BY <2>1, <1>4, ConsProperties
<1>6. new.hash \in [0..HashNr-1 -> Seq(1..k)]
  <2>. DEFINE chain == <<k>> \o sh.hash[h]
  <2>1. h \in 0..HashNr-1 => chain \in Seq(1..k)
    BY <1>5
  <2>2. new.hash = [sh.hash EXCEPT ![h] = chain] /\ sh.hash = [g \in 0..HashNr-1 |-> sh.hash[g]]
    BY <1>2 DEF Chained
  <2>. HIDE DEF chain
  <2>. QED BY <2>1, <2>2, <1>4
<1>7. Chained(new)
  BY <1>2, <1>3, <1>6 DEF Chained
<1>. QED BY <1>7 DEF lookat, new

LEMMA WriteChained ==
  ASSUME NEW sh, Chained(sh), NEW k, NEW v
  PROVE  Chained(Numbered(sh, k, v)) /\ Chained(Labelled(sh, k, v))
<1>1. ASSUME NEW e PROVE Chained([sh EXCEPT !.ents = [sh.ents EXCEPT ![k] = e]])
  <2>. DEFINE ents == [sh.ents EXCEPT ![k] = e]
              new == [sh EXCEPT !.ents = ents]
  <2>1. PICK S : sh.ents \in Seq(S)
    BY DEF Chained
  <2>2. ents \in Seq(S \cup {e}) /\ DOMAIN ents = DOMAIN sh.ents
    <3>1. sh.ents \in [1..Len(sh.ents) -> S] /\ Len(sh.ents) \in Nat
      BY <2>1
    <3>2. ents \in [1..Len(sh.ents) -> S \cup {e}]
      BY <3>1
    <3>. QED BY <3>1, <3>2
  <2>. HIDE DEF ents
  <2>3. Record(new) /\ new.ents = ents /\ new.hash = sh.hash
    BY DEF Chained, Record
  <2>. HIDE DEF new
  <2>4. Chained(new)
    BY <2>2, <2>3 DEF Chained
  <2>. QED BY <2>4 DEF new, ents
<1>2. Numbered(sh, k, v) = [sh EXCEPT !.ents = [sh.ents EXCEPT ![k] = NumberedEnt(sh.ents[k], v)]]
  BY Zenon DEF Numbered
<1>3. Labelled(sh, k, v) = [sh EXCEPT !.ents = [sh.ents EXCEPT ![k] = LabelledEnt(sh.ents[k], v)]]
  BY Zenon DEF Labelled
<1>4. ASSUME NEW e, NEW new, new = [sh EXCEPT !.ents = [sh.ents EXCEPT ![k] = e]] PROVE Chained(new)
  BY <1>1, <1>4
<1>. QED BY <1>2, <1>3, <1>4

LEMMA ChainsKept ==
  ASSUME ListInv, ChainInv, [Next]_vars
  PROVE  ChainInv'
<1>0. PICK l : Spells(l, sheet, first_sh, last_sh)
  BY DEF ListInv
<1>1. ASSUME NEW new, NEW old, Record(new), SameCells(new, old), Chained(old) PROVE Chained(new)
  BY <1>1 DEF Chained, SameCells
<1>2. CASE UNCHANGED vars
  BY <1>2 DEF vars, ChainInv
<1>3. ASSUME NEW n \in Names, CreateSheet(n) PROVE ChainInv'
  <2>1. CASE Search_sheet(n) /= NULL
    BY <1>3, <2>1 DEF CreateSheet, ChainInv
  <2>2. CASE Search_sheet(n) = NULL
    <3>1. PICK sh \in Sheets \ DOMAIN sheet : sheet' = INSERT(Calloced(sh, n), sh)
      BY <1>3, <2>2 DEF CreateSheet
    <3>2. \A s \in DOMAIN sheet : sheet[s].name /= n
      BY <1>0, <2>2, Searched, WorkbookAssumption
    <3>3. /\ Nodes(sheet') /\ DOMAIN sheet' = DOMAIN sheet \cup {sh} /\ SameCells(sheet'[sh], Blank(n))
          /\ \A s \in DOMAIN sheet : SameCells(sheet'[s], sheet[s])
      BY <1>0, <3>1, <3>2, INSERTAppends, WorkbookAssumption DEF ListInv
    <3>4. Chained(Blank(n))
      BY WorkbookAssumption DEF Chained, Record, Blank
    <3>. QED BY <1>1, <3>3, <3>4 DEF ChainInv, Nodes
  <2>. QED BY <2>1, <2>2
<1>4. ASSUME NEW n \in Names, DeleteSheet(n) PROVE ChainInv'
  <2>1. Search_sheet(n) \in DOMAIN sheet
    BY <1>0, <1>4, Searched, WorkbookAssumption DEF DeleteSheet
  <2>2. PICK k \in 1..Len(l) : l[k] = Search_sheet(n)
    BY <1>0, <2>1 DEF Spells, ToSet
  <2>3. sheet' = Restrict(REMOVE(sheet, l[k]), DOMAIN sheet \ {l[k]})
    BY <1>4, <2>2 DEF DeleteSheet
  <2>4. /\ Nodes(sheet') /\ DOMAIN sheet' = DOMAIN sheet \ {l[k]}
        /\ \A s \in DOMAIN sheet' : SameCells(sheet'[s], sheet[s])
    BY <1>0, <2>3, REMOVECuts, WorkbookAssumption DEF ListInv
  <2>. QED BY <1>1, <2>4 DEF ChainInv, Nodes
<1>5. ASSUME NEW n \in Names, SelectSheet(n) PROVE ChainInv'
  BY <1>5 DEF SelectSheet, ChainInv
<1>6. ASSUME NEW p \in Places,
             \/ \E v \in Vals : SetNum(p, v)
             \/ \E text \in Labels : SetLabel(p, text)
             \/ Read(p)
      PROVE  ChainInv'
  <2>. DEFINE sh == lookat(sheet[cur_sh], p[1], p[2])
              k == Returned(sheet[cur_sh], p[1], p[2])
  <2>1. cur_sh \in DOMAIN sheet
    BY <1>6 DEF SetNum, SetLabel, Read, Usable
  <2>2. Chained(sh)
    BY <2>1, LookatChained DEF ChainInv
  <2>3. \/ \E v \in Vals : sheet' = [sheet EXCEPT ![cur_sh] = Numbered(sh, k, v)]
        \/ \E text \in Labels : sheet' = [sheet EXCEPT ![cur_sh] = Labelled(sh, k, text)]
        \/ sheet' = [sheet EXCEPT ![cur_sh] = sh]
    BY <1>6 DEF SetNum, SetLabel, Read
  <2>. HIDE DEF sh, k
  <2>4. \E new : Chained(new) /\ sheet' = [sheet EXCEPT ![cur_sh] = new]
    BY <2>2, <2>3, WriteChained
  <2>. QED BY <2>4 DEF ChainInv
<1>. QED BY <1>2, <1>3, <1>4, <1>5, <1>6 DEF Next

(* The pointers of a document are NULL or lead to its sheets, every sheet has a
   name, and the chains of a sheet name cells of that sheet: also for
   coordinates that do not fit the fields they are stored in. *)
THEOREM TypeCorrect == Spec => []TypeOK
<1>1. Init => ChainInv
  BY DEF Init, ChainInv
<1>2. ListInv /\ ChainInv /\ [Next]_vars => ChainInv'
  BY ChainsKept
<1>3. ListInv /\ ChainInv => TypeOK
  <2>. SUFFICES ASSUME ListInv, ChainInv PROVE TypeOK
    OBVIOUS
  <2>1. PICK l : Spells(l, sheet, first_sh, last_sh)
    BY DEF ListInv
  <2>2. /\ DOMAIN sheet \subseteq Sheets /\ Len(l) \in Nat
        /\ \A i \in 1..Len(l) : l[i] \in DOMAIN sheet
        /\ \A s \in DOMAIN sheet : \E i \in 1..Len(l) : l[i] = s
    BY <2>1, ElementsOf DEF Spells, ToSet
  <2>3. first_sh \in DOMAIN sheet \cup {NULL} /\ last_sh \in DOMAIN sheet \cup {NULL}
    BY <2>1, <2>2 DEF Spells
  <2>4. \A i \in 1..Len(l) : {sheet[l[i]].next, sheet[l[i]].prev} \subseteq DOMAIN sheet \cup {NULL}
    <3>1. \A i \in 1..Len(l) : /\ sheet[l[i]].next = IF i = Len(l) THEN NULL ELSE l[i+1]
                              /\ sheet[l[i]].prev = IF i = 1 THEN NULL ELSE l[i-1]
      BY <2>1 DEF Spells
    <3>2. \A i \in 1..Len(l) : (i /= Len(l) => i + 1 \in 1..Len(l)) /\ (i /= 1 => i - 1 \in 1..Len(l))
      BY <2>2
    <3>. QED BY <2>2, <3>1, <3>2
  <2>5. \A s \in DOMAIN sheet : {sheet[s].next, sheet[s].prev} \subseteq DOMAIN sheet \cup {NULL}
    BY <2>2, <2>4
  <2>6. \A s \in DOMAIN sheet : \A h \in 0..HashNr-1 : sheet[s].hash[h] \in Seq(DOMAIN sheet[s].ents)
    BY DEF ChainInv, Chained
  <2>. QED BY <2>2, <2>3, <2>5, <2>6 DEF TypeOK, ListInv, Nodes
<1>. QED BY <1>1, <1>2, <1>3, ListInvariance, PTL DEF Spec

-----------------------------------------------------------------------------
(* What the cells of a sheet hold, as a caller sees it. *)
Seen(e) ==
  [num  |-> IF "VAL" \in e.flag THEN e.val ELSE NULL,
   text |-> IF "RP_LABEL" \in e.flag THEN e.label ELSE NULL]

Unwritten == [num |-> NULL, text |-> NULL]

Cells(sh) == [p \in Places |-> Content(sh, p)]

LEMMA ContentIs ==
  ASSUME NEW sh, Sound(sh), NEW p \in Places
  PROVE  /\ \A k \in DOMAIN sh.ents :
              sh.ents[k].row = p[1] /\ sh.ents[k].col = p[2] => Content(sh, p) = Seen(sh.ents[k])
         /\ \/ Content(sh, p) = Unwritten
            \/ \E k \in DOMAIN sh.ents : /\ sh.ents[k].row = p[1] /\ sh.ents[k].col = p[2]
                                         /\ Content(sh, p) = Seen(sh.ents[k])
<1>. DEFINE k0 == IF Indexable(p) THEN atbl(sh, p[1], p[2]) ELSE 0
<1>1. Content(sh, p) = IF k0 /= 0 THEN Seen(sh.ents[k0]) ELSE Unwritten
  BY DEF Content, Seen, Unwritten
<1>2. ASSUME NEW k \in DOMAIN sh.ents, sh.ents[k].row = p[1], sh.ents[k].col = p[2]
      PROVE  k0 = k /\ k /= 0
  <2>1. atbl(sh, p[1], p[2]) = k /\ k /= 0
    BY <1>2, Found
  <2>2. Indexable(p)
    BY <1>2 DEF Sound, OnChain, Indexable
  <2>. QED BY <2>1, <2>2
<1>3. k0 /= 0 => k0 \in DOMAIN sh.ents /\ sh.ents[k0].row = p[1] /\ sh.ents[k0].col = p[2]
  BY FoundThere DEF Indexable
<1>. HIDE DEF k0
<1>. QED BY <1>1, <1>2, <1>3

(* A lookup changes nothing a caller sees. *)
LEMMA LookatSeen ==
  ASSUME CoordinatesFit, NEW sh, Sound(sh), NEW p \in Places, Indexable(p)
  PROVE  Cells(lookat(sh, p[1], p[2])) = Cells(sh)
<1>. DEFINE new == WithEnt(sh, p[1], p[2])
            e == BlankEnt(p[1], p[2])
<1>1. CASE atbl(sh, p[1], p[2]) /= 0
  BY <1>1 DEF lookat
<1>2. CASE atbl(sh, p[1], p[2]) = 0
  <2>1. Sound(new)
    BY <1>2, NewCell DEF CoordinatesFit, Indexable
  <2>2. new.ents = Append(sh.ents, e)
    <3>1. Record(sh)
      BY DEF Sound, Shaped
    <3>. QED BY <3>1, NewCellEnts
  <2>3. lookat(sh, p[1], p[2]) = new
    BY <1>2 DEF lookat
  <2>4. /\ DOMAIN sh.ents = 1..Len(sh.ents) /\ DOMAIN new.ents = 1..Len(sh.ents)+1 /\ Len(sh.ents) \in Nat
        /\ \A k \in DOMAIN sh.ents : k \in DOMAIN new.ents /\ new.ents[k] = sh.ents[k]
        /\ \A k \in DOMAIN new.ents : k \notin DOMAIN sh.ents => new.ents[k] = e
    <3>. HIDE DEF new, e
    <3>1. \E S : sh.ents \in Seq(S)
      BY Fields
    <3>. QED BY <3>1, <2>2
  <2>5. Seen(e) = Unwritten
    BY DEF Seen, Unwritten, BlankEnt
  <2>. HIDE DEF new, e
  <2>6. ASSUME NEW q \in Places PROVE Content(new, q) = Content(sh, q)
    <3>1. CASE \E k \in DOMAIN sh.ents : sh.ents[k].row = q[1] /\ sh.ents[k].col = q[2]
      <4>1. PICK k \in DOMAIN sh.ents : sh.ents[k].row = q[1] /\ sh.ents[k].col = q[2]
        BY <3>1
      <4>2. k \in DOMAIN new.ents /\ new.ents[k] = sh.ents[k]
        BY <2>4
      <4>. QED BY <4>1, <4>2, <2>1, ContentIs
    <3>2. CASE ~\E k \in DOMAIN sh.ents : sh.ents[k].row = q[1] /\ sh.ents[k].col = q[2]
      <4>1. Content(sh, q) = Unwritten
        BY <3>2, ContentIs
      <4>2. Content(new, q) = Unwritten
        <5>1. CASE Content(new, q) = Unwritten
          BY <5>1
        <5>2. ASSUME NEW k \in DOMAIN new.ents, new.ents[k].row = q[1], new.ents[k].col = q[2],
                     Content(new, q) = Seen(new.ents[k])
              PROVE  Content(new, q) = Unwritten
          <6>1. k \notin DOMAIN sh.ents
            BY <5>2, <3>2, <2>4
          <6>. QED BY <6>1, <5>2, <2>4, <2>5
        <5>. QED BY <5>1, <5>2, <2>1, ContentIs
      <4>. QED BY <4>1, <4>2
    <3>. QED BY <3>1, <3>2
  <2>. QED BY <2>3, <2>6 DEF Cells
<1>. QED BY <1>1, <1>2

(* The cell a lookup returns has the coordinates asked for. *)
LEMMA ReturnedThere ==
  ASSUME CoordinatesFit, NEW sh, Sound(sh), NEW p \in Places, Indexable(p)
  PROVE  LET k == Returned(sh, p[1], p[2])
             e == lookat(sh, p[1], p[2]).ents[k]
         IN e.row = p[1] /\ e.col = p[2]
<1>1. CASE atbl(sh, p[1], p[2]) /= 0
  BY <1>1, FoundThere DEF lookat, Returned, Indexable
<1>2. CASE atbl(sh, p[1], p[2]) = 0
  <2>. DEFINE new == WithEnt(sh, p[1], p[2])
              e == BlankEnt(p[1], p[2])
  <2>1. new.ents = Append(sh.ents, e)
    <3>1. Record(sh)
      BY DEF Sound, Shaped
    <3>. QED BY <3>1, NewCellEnts
  <2>2. e.row = p[1] /\ e.col = p[2]
    BY DEF BlankEnt, CoordinatesFit
  <2>3. lookat(sh, p[1], p[2]) = new /\ Returned(sh, p[1], p[2]) = Len(sh.ents) + 1
    BY <1>2 DEF lookat, Returned
  <2>4. \E S : sh.ents \in Seq(S)
    BY Fields
  <2>. HIDE DEF new, e
  <2>. QED BY <2>1, <2>2, <2>3, <2>4
<1>. QED BY <1>1, <1>2

(* A write to a cell is seen at its coordinates and nowhere else. *)
LEMMA WriteSeen ==
  ASSUME NEW sh, Sound(sh), NEW p \in Places, NEW k \in DOMAIN sh.ents,
         sh.ents[k].row = p[1], sh.ents[k].col = p[2],
         NEW e, NEW new, Sound(new), new.ents = [sh.ents EXCEPT ![k] = e],
         e.row = p[1], e.col = p[2]
  PROVE  /\ Content(sh, p) = Seen(sh.ents[k]) /\ Content(new, p) = Seen(e)
         /\ \A q \in Places : q /= p => Content(new, q) = Content(sh, q)
<1>1. /\ DOMAIN new.ents = DOMAIN sh.ents /\ new.ents[k] = e
      /\ \A j \in DOMAIN sh.ents : j /= k => new.ents[j] = sh.ents[j]
  <2>1. \E S : sh.ents \in Seq(S)
    BY Fields
  <2>. QED BY <2>1
<1>2. Content(sh, p) = Seen(sh.ents[k]) /\ Content(new, p) = Seen(e)
  BY <1>1, ContentIs
<1>3. ASSUME NEW q \in Places, q /= p PROVE Content(new, q) = Content(sh, q)
  <2>1. q[1] /= p[1] \/ q[2] /= p[2]
    <3>1. q \in Int \X Int /\ p \in Int \X Int
      BY PlacesAssumption
    <3>. QED BY <1>3, <3>1
  <2>2. \A j \in DOMAIN sh.ents :
          /\ sh.ents[j].row = q[1] /\ sh.ents[j].col = q[2] => j /= k
          /\ new.ents[j].row = q[1] /\ new.ents[j].col = q[2] => j /= k
    BY <2>1, <1>1
  <2>3. CASE \E j \in DOMAIN sh.ents : sh.ents[j].row = q[1] /\ sh.ents[j].col = q[2]
    <3>1. PICK j \in DOMAIN sh.ents : sh.ents[j].row = q[1] /\ sh.ents[j].col = q[2]
      BY <2>3
    <3>2. new.ents[j] = sh.ents[j] /\ j \in DOMAIN new.ents
      BY <3>1, <2>2, <1>1
    <3>. QED BY <3>1, <3>2, ContentIs
  <2>4. CASE ~\E j \in DOMAIN sh.ents : sh.ents[j].row = q[1] /\ sh.ents[j].col = q[2]
    <3>1. ~\E j \in DOMAIN new.ents : new.ents[j].row = q[1] /\ new.ents[j].col = q[2]
      BY <2>2, <2>4, <1>1
    <3>. QED BY <3>1, <2>4, ContentIs
  <2>. QED BY <2>3, <2>4
<1>. QED BY <1>2, <1>3

-----------------------------------------------------------------------------
(* The document a list of sheets stands for. *)
Depicts(l, mem, o, b) ==
  /\ o = [i \in 1..Len(l) |-> mem[l[i]].name]
  /\ b = [n \in DOMAIN b |-> b[n]] /\ DOMAIN b = {mem[s].name : s \in DOMAIN mem}
  /\ \A s \in DOMAIN mem : b[mem[s].name] = Cells(mem[s])

MapIs == \A l : Spells(l, sheet, first_sh, last_sh) => Depicts(l, sheet, Order, Book)

LEMMA MapOf == ListInv => MapIs
<1>. SUFFICES ASSUME ListInv, NEW l, Spells(l, sheet, first_sh, last_sh)
              PROVE  Depicts(l, sheet, Order, Book)
  BY DEF MapIs
<1>1. Walk = l /\ DOMAIN l = 1..Len(l) /\ ToSet(l) = DOMAIN sheet /\ DOMAIN sheet \subseteq Sheets
  BY WalkSpells, ElementsOf, WorkbookAssumption DEF Spells
<1>2. Order = [i \in 1..Len(l) |-> sheet[l[i]].name]
  BY <1>1 DEF Order
<1>3. Book = [n \in {sheet[s].name : s \in DOMAIN sheet} |-> Contents[Search_sheet(n)]]
  BY <1>1 DEF Book
<1>4. ASSUME NEW s \in DOMAIN sheet
      PROVE  Book[sheet[s].name] = Cells(sheet[s])
  <2>1. Search_sheet(sheet[s].name) = s
    BY Searched, WorkbookAssumption DEF ListInv, Nodes
  <2>2. Contents[s] = Cells(sheet[s])
    BY DEF Contents, Cells
  <2>. QED BY <1>3, <2>1, <2>2
<1>. QED BY <1>2, <1>3, <1>4 DEF Depicts

LEMMA SameCellsSeen ==
  ASSUME NEW new, NEW old, SameCells(new, old)
  PROVE  Cells(new) = Cells(old)
<1>1. \A r, c : atbl(new, r, c) = atbl(old, r, c)
  BY DEF SameCells, atbl
<1>. QED BY <1>1 DEF SameCells, Cells, Content

LEMMA BlankSeen ==
  ASSUME NEW n
  PROVE  Cells(Blank(n)) = [p \in Places |-> Unwritten]
<1>. SUFFICES ASSUME NEW p \in Places PROVE Content(Blank(n), p) = Unwritten
  BY DEF Cells
<1>1. Indexable(p) => atbl(Blank(n), p[1], p[2]) = 0
  BY DEF Indexable, atbl, Blank
<1>. QED BY <1>1 DEF Content, Unwritten

(* Where the sheets keep their names and what is seen of them, so does the
   document. *)
LEMMA DepictsSame ==
  ASSUME NEW l, NEW m1, NEW m2, NEW o1, NEW o2, NEW b1, NEW b2,
         Depicts(l, m1, o1, b1), Depicts(l, m2, o2, b2), DOMAIN m2 = DOMAIN m1,
         \A i \in 1..Len(l) : l[i] \in DOMAIN m1,
         \A s \in DOMAIN m1 : m2[s].name = m1[s].name /\ Cells(m2[s]) = Cells(m1[s])
  PROVE  o2 = o1 /\ b2 = b1
<1>1. o2 = o1
  BY DEF Depicts
<1>2. DOMAIN b2 = DOMAIN b1
  BY DEF Depicts
<1>3. ASSUME NEW n \in DOMAIN b1 PROVE b2[n] = b1[n]
  <2>1. PICK s \in DOMAIN m1 : n = m1[s].name
    BY DEF Depicts
  <2>. QED BY <2>1 DEF Depicts
<1>4. b1 = [n \in DOMAIN b1 |-> b1[n]] /\ b2 = [n \in DOMAIN b2 |-> b2[n]]
  BY DEF Depicts
<1>. QED BY <1>1, <1>2, <1>3, <1>4

LEMMA CreateRefines ==
  ASSUME ListInv, MapIs, MapIs', NEW n \in Names, CreateSheet(n)
  PROVE  Map!Create \/ UNCHANGED <<Order, Book>>
<1>1. PICK l : Spells(l, sheet, first_sh, last_sh)
  BY DEF ListInv
<1>2. Depicts(l, sheet, Order, Book)
  BY <1>1 DEF MapIs
<1>3. \A i \in 1..Len(l) : l[i] \in DOMAIN sheet
  BY <1>1 DEF Spells, ToSet
<1>4. CASE Search_sheet(n) /= NULL
  <2>1. UNCHANGED <<first_sh, last_sh, sheet>>
    BY <1>4 DEF CreateSheet
  <2>2. Depicts(l, sheet, Order', Book')
    BY <1>1, <2>1 DEF MapIs
  <2>. QED BY <1>2, <1>3, <2>2, DepictsSame
<1>5. CASE Search_sheet(n) = NULL
  <2>1. PICK sh \in Sheets \ DOMAIN sheet :
          /\ sheet' = INSERT(Calloced(sh, n), sh)
          /\ first_sh' = IF first_sh = NULL THEN sh ELSE first_sh
          /\ last_sh' = sh
    BY <1>5 DEF CreateSheet
  <2>2. \A s \in DOMAIN sheet : sheet[s].name /= n
    BY <1>1, <1>5, Searched, WorkbookAssumption
  <2>3. /\ DOMAIN sheet' = DOMAIN sheet \cup {sh} /\ SameCells(sheet'[sh], Blank(n))
        /\ \A s \in DOMAIN sheet : SameCells(sheet'[s], sheet[s])
        /\ Spells(Append(l, sh), sheet', first_sh', last_sh')
    BY <1>1, <2>1, <2>2, INSERTAppends, WorkbookAssumption DEF ListInv
  <2>4. /\ sheet'[sh].name = n /\ Cells(sheet'[sh]) = [p \in Places |-> Unwritten]
        /\ \A s \in DOMAIN sheet : sheet'[s].name = sheet[s].name /\ Cells(sheet'[s]) = Cells(sheet[s])
    <3>1. sheet'[sh].name = n /\ \A s \in DOMAIN sheet : sheet'[s].name = sheet[s].name
      BY <2>3 DEF SameCells, Blank
    <3>. QED BY <3>1, <2>3, SameCellsSeen, BlankSeen
  <2>5. Depicts(Append(l, sh), sheet', Order', Book')
    BY <2>3 DEF MapIs
  <2>6. PICK o2, b2, m2 : o2 = Order' /\ b2 = Book' /\ m2 = sheet'
    OBVIOUS
  <2>7. o2 = Append(Order, n)
    <3>. DEFINE k == Len(l)
                l2 == Append(l, sh)
    <3>1. k \in Nat /\ Len(l2) = k + 1 /\ l2[k+1] = sh /\ \A i \in 1..k : l2[i] = l[i]
      BY <1>1 DEF Spells
    <3>2. o2 = [i \in 1..Len(l2) |-> m2[l2[i]].name]
      BY <2>5, <2>6 DEF Depicts
    <3>3. Order = [i \in 1..k |-> sheet[l[i]].name]
      BY <1>2 DEF Depicts
    <3>. HIDE DEF k, l2
    <3>4. o2 = [i \in 1..k+1 |-> IF i = k + 1 THEN n ELSE sheet[l[i]].name]
      <4>1. \A i \in 1..k+1 : m2[l2[i]].name = IF i = k + 1 THEN n ELSE sheet[l[i]].name
        <5>1. \A i \in 1..k : m2[l2[i]].name = sheet[l[i]].name
          BY <1>3, <2>4, <2>6, <3>1 DEF k
        <5>2. m2[l2[k+1]].name = n
          BY <2>4, <2>6, <3>1
        <5>. QED BY <3>1, <5>1, <5>2
      <4>. QED BY <3>1, <3>2, <4>1
    <3>5. Len(Order) = k /\ Append(Order, n) = [i \in 1..k+1 |-> IF i = k + 1 THEN n ELSE Order[i]]
      <4>1. \A i \in 1..k : sheet[l[i]].name \in Names
        BY <1>3 DEF k, ListInv, Nodes
      <4>2. Order \in Seq(Names) /\ Len(Order) = k
        BY <3>1, <3>3, <4>1
      <4>. HIDE DEF k
      <4>3. ASSUME NEW s \in Seq(Names)
            PROVE  Append(s, n) = [i \in 1..Len(s)+1 |-> IF i = Len(s) + 1 THEN n ELSE s[i]]
        <5>1. /\ Append(s, n) \in Seq(Names) /\ Len(Append(s, n)) = Len(s) + 1
              /\ Append(s, n)[Len(s)+1] = n /\ \A i \in 1..Len(s) : Append(s, n)[i] = s[i]
          OBVIOUS
        <5>2. Append(s, n) = [i \in 1..Len(s)+1 |-> Append(s, n)[i]]
          <6>1. ASSUME NEW t \in Seq(Names) PROVE t = [i \in 1..Len(t) |-> t[i]]
            OBVIOUS
          <6>2. Append(s, n) = [i \in 1..Len(Append(s, n)) |-> Append(s, n)[i]]
            BY <5>1, <6>1
          <6>. QED BY <5>1, <6>2
        <5>3. \A i \in 1..Len(s)+1 : i = Len(s) + 1 \/ i \in 1..Len(s)
          OBVIOUS
        <5>. QED BY <5>1, <5>2, <5>3
      <4>. QED BY <4>2, <4>3
    <3>. QED BY <3>1, <3>3, <3>4, <3>5
  <2>8. n \notin DOMAIN Book
    BY <1>2, <2>2 DEF Depicts
  <2>9. b2 = [m \in DOMAIN Book \cup {n} |->
                 IF m = n THEN [p \in Places |-> Unwritten] ELSE Book[m]]
    <3>0. /\ b2 = [m \in DOMAIN b2 |-> b2[m]] /\ DOMAIN b2 = {m2[s].name : s \in DOMAIN m2}
          /\ \A s \in DOMAIN m2 : b2[m2[s].name] = Cells(m2[s])
      BY <2>5, <2>6 DEF Depicts
    <3>1. DOMAIN b2 = DOMAIN Book \cup {n}
      <4>1. DOMAIN Book = {sheet[s].name : s \in DOMAIN sheet}
        BY <1>2 DEF Depicts
      <4>. QED BY <4>1, <3>0, <2>3, <2>4, <2>6
    <3>2. b2[n] = [p \in Places |-> Unwritten]
      BY <3>0, <2>3, <2>4, <2>6
    <3>3. ASSUME NEW m \in DOMAIN Book PROVE b2[m] = Book[m]
      <4>1. PICK s \in DOMAIN sheet : m = sheet[s].name /\ Book[m] = Cells(sheet[s])
        BY <1>2 DEF Depicts
      <4>. QED BY <4>1, <3>0, <2>3, <2>4, <2>6
    <3>. QED BY <3>0, <3>1, <3>2, <3>3, <2>8
  <2>. QED BY <2>6, <2>7, <2>8, <2>9 DEF Map!Create, Map!Nothing, Unwritten
<1>. QED BY <1>4, <1>5

LEMMA CutIs ==
  ASSUME NEW S, NEW s \in Seq(S), NEW k \in 1..Len(s)
  PROVE  SubSeq(s, 1, k - 1) \o SubSeq(s, k + 1, Len(s)) = Without(s, k)
<1> DEFINE a == SubSeq(s, 1, k-1)
           b == SubSeq(s, k+1, Len(s))
           t == a \o b
           n == Len(s)
<1>1. n \in Nat /\ k \in Nat /\ n - 1 \in Nat
  OBVIOUS
<1>2. a \in Seq(S) /\ Len(a) = k - 1 /\ \A i \in 1..k-1 : a[i] = s[i]
  OBVIOUS
<1>3. b \in Seq(S) /\ Len(b) = n - k /\ \A i \in 1..n-k : b[i] = s[k+i]
  OBVIOUS
<1> HIDE DEF a, b
<1>4. /\ t \in Seq(S) /\ Len(t) = Len(a) + Len(b)
      /\ \A i \in 1..Len(a) + Len(b) : t[i] = IF i <= Len(a) THEN a[i] ELSE b[i - Len(a)]
  BY <1>2, <1>3, ConcatProperties
<1> HIDE DEF t, n
<1>5. ASSUME NEW i \in 1..n-1 PROVE t[i] = IF i < k THEN s[i] ELSE s[i+1]
  <2>1. i \in 1..Len(a) + Len(b)
    BY <1>1, <1>2, <1>3
  <2>2. CASE i < k
    <3>1. i \in 1..k-1 /\ i <= Len(a)
      BY <1>1, <1>2, <2>2
    <3>. QED BY <1>2, <1>4, <2>1, <2>2, <3>1
  <2>3. CASE ~(i < k)
    <3>1. ~(i <= Len(a)) /\ i - (k-1) \in 1..n-k /\ k + (i - (k-1)) = i + 1
      BY <1>1, <1>2, <2>3
    <3>2. t[i] = b[i - (k-1)]
      BY <1>2, <1>4, <2>1, <3>1
    <3>. QED BY <1>3, <2>3, <3>1, <3>2
  <2>. QED BY <2>2, <2>3
<1>6. t = [i \in 1..n-1 |-> t[i]]
  <2>1. Len(t) = n - 1
    BY <1>1, <1>2, <1>3, <1>4
  <2>. QED BY <2>1, <1>4
<1>. QED BY <1>5, <1>6 DEF Without, t, a, b, n

LEMMA DeleteRefines ==
  ASSUME ListInv, MapIs, MapIs', NEW n \in Names, DeleteSheet(n)
  PROVE  Map!Delete
<1>1. PICK l : Spells(l, sheet, first_sh, last_sh)
  BY DEF ListInv
<1>2. Depicts(l, sheet, Order, Book)
  BY <1>1 DEF MapIs
<1>3. /\ \A i \in 1..Len(l) : l[i] \in DOMAIN sheet
      /\ \A i, j \in 1..Len(l) : l[i] = l[j] => i = j
      /\ Len(l) \in Nat
  BY <1>1 DEF Spells, ToSet, IsInjective
<1>4. Search_sheet(n) \in DOMAIN sheet
  BY <1>1, Searched, WorkbookAssumption DEF DeleteSheet
<1>5. PICK k \in 1..Len(l) : l[k] = Search_sheet(n)
  BY <1>1, <1>4 DEF Spells, ToSet
<1>6. /\ sheet' = Restrict(REMOVE(sheet, l[k]), DOMAIN sheet \ {l[k]})
      /\ first_sh' = IF l[k] = first_sh THEN sheet[l[k]].next ELSE first_sh
      /\ last_sh' = LastAfterREMOVE(l[k])
  BY <1>5 DEF DeleteSheet
<1>7. /\ DOMAIN sheet' = DOMAIN sheet \ {l[k]}
      /\ \A s \in DOMAIN sheet' : SameCells(sheet'[s], sheet[s])
      /\ Spells(Without(l, k), sheet', first_sh', last_sh')
  BY <1>1, <1>6, REMOVECuts, WorkbookAssumption DEF ListInv
<1>8. \A s \in DOMAIN sheet' : sheet'[s].name = sheet[s].name /\ Cells(sheet'[s]) = Cells(sheet[s])
  BY <1>7, SameCellsSeen DEF SameCells
<1>9. Depicts(Without(l, k), sheet', Order', Book')
  BY <1>7 DEF MapIs
<1>10. PICK o2, b2, m2 : o2 = Order' /\ b2 = Book' /\ m2 = sheet'
  OBVIOUS
<1>11. /\ Order \in Seq(Names) /\ Len(Order) = Len(l) /\ DOMAIN Order = 1..Len(l)
       /\ \A i \in 1..Len(l) : Order[i] = sheet[l[i]].name
  <2>1. \A i \in 1..Len(l) : sheet[l[i]].name \in Names
    BY <1>3 DEF ListInv, Nodes
  <2>2. Order = [i \in 1..Len(l) |-> sheet[l[i]].name]
    BY <1>2 DEF Depicts
  <2>. QED BY <1>3, <2>1, <2>2
<1>12. o2 = SubSeq(Order, 1, k - 1) \o SubSeq(Order, k + 1, Len(Order))
  <2>. DEFINE r == Without(l, k)
  <2>1. o2 = [i \in 1..Len(r) |-> m2[r[i]].name]
    BY <1>9, <1>10 DEF Depicts
  <2>2. Len(r) = Len(l) - 1 /\ \A i \in 1..Len(l)-1 : r[i] = IF i < k THEN l[i] ELSE l[i+1]
    <3>1. l \in Seq(Sheets) /\ IsInjective(l)
      BY <1>1 DEF Spells
    <3>2. Len(r) = Len(l) - 1
      <4>. HIDE DEF r
      <4>. QED BY <3>1, WithoutProperties DEF r
    <3>. QED BY <3>2 DEF Without
  <2>. HIDE DEF r
  <2>3. ASSUME NEW i \in 1..Len(l)-1
        PROVE  m2[r[i]].name = IF i < k THEN Order[i] ELSE Order[i+1]
    <3>. DEFINE j == IF i < k THEN i ELSE i + 1
    <3>1. j \in 1..Len(l) /\ j /= k /\ r[i] = l[j]
      BY <1>3, <2>2
    <3>2. l[j] \in DOMAIN sheet'
      BY <3>1, <1>3, <1>7
    <3>3. m2[l[j]].name = Order[j]
      BY <3>1, <3>2, <1>8, <1>10, <1>11
    <3>. QED BY <3>1, <3>3
  <2>4. o2 = Without(Order, k)
    <3>1. o2 = [i \in 1..Len(l)-1 |-> m2[r[i]].name]
      BY <2>1, <2>2
    <3>. QED BY <3>1, <2>3, <1>11 DEF Without
  <2>. QED BY <2>4, <1>11, CutIs
<1>13. b2 = [m \in DOMAIN Book \ {Order[k]} |-> Book[m]]
  <2>0. /\ b2 = [m \in DOMAIN b2 |-> b2[m]] /\ DOMAIN b2 = {m2[s].name : s \in DOMAIN m2}
        /\ \A s \in DOMAIN m2 : b2[m2[s].name] = Cells(m2[s])
    BY <1>9, <1>10 DEF Depicts
  <2>1. /\ DOMAIN Book = {sheet[s].name : s \in DOMAIN sheet}
        /\ \A s \in DOMAIN sheet : Book[sheet[s].name] = Cells(sheet[s])
    BY <1>2 DEF Depicts
  <2>2. /\ l[k] \in DOMAIN sheet /\ Order[k] = sheet[l[k]].name
        /\ \A s, t \in DOMAIN sheet : sheet[s].name = sheet[t].name => s = t
    BY <1>3, <1>11 DEF ListInv, Nodes
  <2>3. DOMAIN m2 = DOMAIN sheet \ {l[k]}
    BY <1>7, <1>10
  <2>4. \A s \in DOMAIN m2 : m2[s].name = sheet[s].name /\ Cells(m2[s]) = Cells(sheet[s])
    BY <1>8, <1>10
  <2>5. DOMAIN b2 = DOMAIN Book \ {Order[k]}
    BY <2>0, <2>1, <2>2, <2>3, <2>4
  <2>6. ASSUME NEW m \in DOMAIN b2 PROVE b2[m] = Book[m]
    <3>1. PICK s \in DOMAIN m2 : m = m2[s].name
      BY <2>0
    <3>. QED BY <3>1, <2>0, <2>1, <2>3, <2>4
  <2>. QED BY <2>0, <2>5, <2>6
<1>14. k \in DOMAIN Order
  BY <1>11
<1>. QED BY <1>10, <1>12, <1>13, <1>14 DEF Map!Delete

(* Only the sheet c is written to, at the place p. *)
Wrote(m1, m2, c, p) ==
  /\ DOMAIN m2 = DOMAIN m1
  /\ \A s, t \in DOMAIN m1 : m1[s].name = m1[t].name => s = t
  /\ \A s \in DOMAIN m1 : m2[s].name = m1[s].name
  /\ \A s \in DOMAIN m1 : s /= c => m2[s] = m1[s]
  /\ \A q \in Places : q /= p => Content(m2[c], q) = Content(m1[c], q)

(* Only the sheet named n of the document changes, at the place p. *)
OnePlace(o1, o2, b1, b2, n, p) ==
  /\ o2 = o1 /\ n \in DOMAIN b1
  /\ \A m \in DOMAIN b1, q \in Places : <<m, q>> /= <<n, p>> => b2[m][q] = b1[m][q]

LEMMA WriteRefines ==
  ASSUME NEW l, NEW m1, NEW m2, NEW o1, NEW o2, NEW b1, NEW b2,
         Depicts(l, m1, o1, b1), Depicts(l, m2, o2, b2),
         NEW c \in DOMAIN m1, NEW p \in Places, Wrote(m1, m2, c, p),
         \A i \in 1..Len(l) : l[i] \in DOMAIN m1
  PROVE  /\ OnePlace(o1, o2, b1, b2, m1[c].name, p)
         /\ b1[m1[c].name][p] = Content(m1[c], p) /\ b2[m1[c].name][p] = Content(m2[c], p)
<1>0. DOMAIN m2 = DOMAIN m1 /\ \A s \in DOMAIN m1 : m2[s].name = m1[s].name
  BY DEF Wrote
<1>1. o2 = o1
  BY <1>0 DEF Depicts
<1>2. \A s \in DOMAIN m1 : /\ m1[s].name \in DOMAIN b1 /\ b1[m1[s].name] = Cells(m1[s])
                           /\ b2[m1[s].name] = Cells(m2[s])
  BY <1>0 DEF Depicts
<1>3. \A m \in DOMAIN b1 : \E s \in DOMAIN m1 : m = m1[s].name
  BY DEF Depicts
<1>4. \A s \in DOMAIN m1, q \in Places : Cells(m1[s])[q] = Content(m1[s], q) /\ Cells(m2[s])[q] = Content(m2[s], q)
  BY DEF Cells
<1>5. ASSUME NEW m \in DOMAIN b1, NEW q \in Places, <<m, q>> /= <<m1[c].name, p>>
      PROVE  b2[m][q] = b1[m][q]
  <2>1. PICK s \in DOMAIN m1 : m = m1[s].name
    BY <1>3
  <2>2. s /= c \/ q /= p
    BY <1>5, <2>1
  <2>3. Content(m2[s], q) = Content(m1[s], q)
    BY <2>2 DEF Wrote
  <2>. QED BY <2>1, <2>3, <1>2, <1>4
<1>. QED BY <1>1, <1>2, <1>4, <1>5 DEF OnePlace

LEMMA SeenWritten ==
  ASSUME NEW e \in Ents, NEW v
  PROVE  /\ Seen(NumberedEnt(e, v)) = [num |-> v, text |-> Seen(e).text]
         /\ Seen(LabelledEnt(e, v)) = [num |-> Seen(e).num, text |-> v]
<1>1. /\ NumberedEnt(e, v).val = v /\ NumberedEnt(e, v).label = e.label
      /\ NumberedEnt(e, v).flag = e.flag \cup {"VAL"}
  BY DEF NumberedEnt, Ents
<1>2. /\ LabelledEnt(e, v).val = e.val /\ LabelledEnt(e, v).label = v
      /\ LabelledEnt(e, v).flag = e.flag \cup {"RP_LABEL"}
  BY DEF LabelledEnt, Ents
<1>3. /\ "VAL" \in e.flag \cup {"VAL"} /\ "RP_LABEL" \in e.flag \cup {"RP_LABEL"}
      /\ "RP_LABEL" \in e.flag \cup {"VAL"} <=> "RP_LABEL" \in e.flag
      /\ "VAL" \in e.flag \cup {"RP_LABEL"} <=> "VAL" \in e.flag
  OBVIOUS
<1>. QED BY <1>1, <1>2, <1>3 DEF Seen


(* A call that looks the cell k of the current sheet up and writes e to it. *)
CellWritten(p, sh, k, e, new) ==
  /\ Usable(p)
  /\ sh = lookat(sheet[cur_sh], p[1], p[2]) /\ k = Returned(sheet[cur_sh], p[1], p[2])
  /\ e.row = sh.ents[k].row /\ e.col = sh.ents[k].col
  /\ new.ents = [sh.ents EXCEPT ![k] = e] /\ SameNode(new, sh)
  /\ sheet' = [sheet EXCEPT ![cur_sh] = new] /\ UNCHANGED <<first_sh, last_sh>>

LEMMA PlaceWritten ==
  ASSUME CoordinatesFit, IInv, IInv', ListInv, MapIs, MapIs', NEW p \in Places,
         NEW sh, NEW k, NEW e, NEW new, CellWritten(p, sh, k, e, new)
  PROVE  /\ OnePlace(Order, Order', Book, Book', sheet[cur_sh].name, p)
         /\ Book[sheet[cur_sh].name][p] = Seen(sh.ents[k])
         /\ Book'[sheet[cur_sh].name][p] = Seen(e)
<1>. DEFINE old == sheet[cur_sh]
<1>1. /\ cur_sh \in DOMAIN sheet /\ Sound(old) /\ Sound(sh) /\ Indexable(p)
      /\ k \in DOMAIN sh.ents
  BY CallerFits DEF Usable, CellWritten
<1>2. /\ DOMAIN sheet' = DOMAIN sheet /\ sheet'[cur_sh] = new
      /\ \A s \in DOMAIN sheet : s /= cur_sh => sheet'[s] = sheet[s]
  BY <1>1 DEF CellWritten
<1>3. Sound(new)
  BY <1>1, <1>2 DEF IInv, SoundMemory
<1>4. sh.ents[k].row = p[1] /\ sh.ents[k].col = p[2]
  BY <1>1, ReturnedThere DEF CellWritten
<1>5. \A q \in Places : Content(sh, q) = Content(old, q)
  <2>1. Cells(sh) = Cells(old)
    BY <1>1, LookatSeen DEF CellWritten
  <2>. QED BY <2>1 DEF Cells
<1>6. /\ Content(sh, p) = Seen(sh.ents[k]) /\ Content(new, p) = Seen(e)
      /\ \A q \in Places : q /= p => Content(new, q) = Content(sh, q)
  <2>1. /\ e.row = p[1] /\ e.col = p[2] /\ new.ents = [sh.ents EXCEPT ![k] = e]
    BY <1>4 DEF CellWritten
  <2>. QED BY <2>1, <1>1, <1>3, <1>4, WriteSeen
<1>7. SameNode(sh, old)
  <2>1. Record(old)
    BY <1>1 DEF Sound, Shaped
  <2>. QED BY <2>1, LookatKeepsNode DEF CellWritten
<1>8. \A s \in DOMAIN sheet : SameNode(sheet'[s], sheet[s])
  <2>1. SameNode(new, old)
    BY <1>7 DEF SameNode, CellWritten
  <2>2. \A s \in DOMAIN sheet : SameNode(sheet[s], sheet[s])
    BY DEF SameNode, ListInv, Nodes
  <2>. QED BY <2>1, <2>2, <1>2
<1>9. PICK l : Spells(l, sheet, first_sh, last_sh)
  BY DEF ListInv
<1>10. Spells(l, sheet', first_sh', last_sh')
  BY <1>2, <1>8, <1>9, SpellsKept DEF CellWritten
<1>11. Depicts(l, sheet, Order, Book) /\ Depicts(l, sheet', Order', Book')
  BY <1>9, <1>10 DEF MapIs
<1>12. /\ \A i \in 1..Len(l) : l[i] \in DOMAIN sheet
       /\ \A s, t \in DOMAIN sheet : sheet[s].name = sheet[t].name => s = t
       /\ \A s \in DOMAIN sheet : sheet'[s].name = sheet[s].name
  BY <1>8, <1>9 DEF Spells, ToSet, ListInv, Nodes, SameNode
<1>13. \A q \in Places : q /= p => Content(sheet'[cur_sh], q) = Content(sheet[cur_sh], q)
  BY <1>2, <1>5, <1>6
<1>14. PICK o2, b2, m2 : o2 = Order' /\ b2 = Book' /\ m2 = sheet'
  OBVIOUS
<1>15. Wrote(sheet, m2, cur_sh, p) /\ Depicts(l, m2, o2, b2)
  BY <1>2, <1>11, <1>12, <1>13, <1>14 DEF Wrote
<1>16. /\ OnePlace(Order, o2, Book, b2, sheet[cur_sh].name, p)
       /\ Book[sheet[cur_sh].name][p] = Content(sheet[cur_sh], p)
       /\ b2[sheet[cur_sh].name][p] = Content(m2[cur_sh], p)
  BY <1>1, <1>11, <1>12, <1>15, WriteRefines
<1>. QED BY <1>2, <1>5, <1>6, <1>14, <1>16

LEMMA SetNumRefines ==
  ASSUME CoordinatesFit, IInv, IInv', ListInv, MapIs, MapIs', NEW p \in Places, NEW v \in Vals,
         SetNum(p, v)
  PROVE  Map!Write
<1>1. PICK sh, k, n : /\ sh = lookat(sheet[cur_sh], p[1], p[2])
                      /\ k = Returned(sheet[cur_sh], p[1], p[2])
                      /\ n = sheet[cur_sh].name
  OBVIOUS
<1>2. /\ Usable(p) /\ sheet' = [sheet EXCEPT ![cur_sh] = Numbered(sh, k, v)]
      /\ UNCHANGED <<first_sh, last_sh>>
  BY <1>1 DEF SetNum
<1>3. Sound(sh) /\ k \in DOMAIN sh.ents
  BY <1>1, <1>2, CallerFits
<1>4. Record(sh) /\ sh.ents[k] \in Ents
  BY <1>3, Fields DEF Shaped
<1>5. PICK e : e = NumberedEnt(sh.ents[k], v)
  OBVIOUS
<1>6. e.row = sh.ents[k].row /\ e.col = sh.ents[k].col
  BY <1>4, <1>5 DEF NumberedEnt, Ents
<1>7. PICK new : new = Numbered(sh, k, v)
  OBVIOUS
<1>8. new.ents = [sh.ents EXCEPT ![k] = e] /\ SameNode(new, sh)
  <2>1. new = [sh EXCEPT !.ents = [sh.ents EXCEPT ![k] = e]]
    BY <1>5, <1>7, Zenon DEF Numbered
  <2>2. \A ents : [sh EXCEPT !.ents = ents].ents = ents
    BY <1>4 DEF Record
  <2>. QED BY <2>1, <2>2, <1>4, <1>7, WriteKeepsNode
<1>9. CellWritten(p, sh, k, e, new)
  BY <1>1, <1>2, <1>6, <1>7, <1>8 DEF CellWritten
<1>9a. /\ OnePlace(Order, Order', Book, Book', n, p)
       /\ Book[n][p] = Seen(sh.ents[k]) /\ Book'[n][p] = Seen(e)
  BY <1>1, <1>9, PlaceWritten
<1>10. Book'[n][p].num \in Vals /\ Book'[n][p].text = Book[n][p].text
  BY <1>4, <1>5, <1>9a, SeenWritten
<1>. QED BY <1>9a, <1>10 DEF Map!Write, OnePlace

LEMMA SetLabelRefines ==
  ASSUME CoordinatesFit, IInv, IInv', ListInv, MapIs, MapIs', NEW p \in Places,
         NEW text \in Labels, SetLabel(p, text)
  PROVE  Map!Write
<1>1. PICK sh, k, n : /\ sh = lookat(sheet[cur_sh], p[1], p[2])
                      /\ k = Returned(sheet[cur_sh], p[1], p[2])
                      /\ n = sheet[cur_sh].name
  OBVIOUS
<1>2. /\ Usable(p) /\ sheet' = [sheet EXCEPT ![cur_sh] = Labelled(sh, k, text)]
      /\ UNCHANGED <<first_sh, last_sh>>
  BY <1>1 DEF SetLabel
<1>3. Sound(sh) /\ k \in DOMAIN sh.ents
  BY <1>1, <1>2, CallerFits
<1>4. Record(sh) /\ sh.ents[k] \in Ents
  BY <1>3, Fields DEF Shaped
<1>5. PICK e : e = LabelledEnt(sh.ents[k], text)
  OBVIOUS
<1>6. e.row = sh.ents[k].row /\ e.col = sh.ents[k].col
  BY <1>4, <1>5 DEF LabelledEnt, Ents
<1>7. PICK new : new = Labelled(sh, k, text)
  OBVIOUS
<1>8. new.ents = [sh.ents EXCEPT ![k] = e] /\ SameNode(new, sh)
  <2>1. new = [sh EXCEPT !.ents = [sh.ents EXCEPT ![k] = e]]
    BY <1>5, <1>7, Zenon DEF Labelled
  <2>2. \A ents : [sh EXCEPT !.ents = ents].ents = ents
    BY <1>4 DEF Record
  <2>. QED BY <2>1, <2>2, <1>4, <1>7, WriteKeepsNode
<1>9. CellWritten(p, sh, k, e, new)
  BY <1>1, <1>2, <1>6, <1>7, <1>8 DEF CellWritten
<1>9a. /\ OnePlace(Order, Order', Book, Book', n, p)
       /\ Book[n][p] = Seen(sh.ents[k]) /\ Book'[n][p] = Seen(e)
  BY <1>1, <1>9, PlaceWritten
<1>10. Book'[n][p].text \in Labels /\ Book'[n][p].num = Book[n][p].num
  BY <1>4, <1>5, <1>9a, SeenWritten
<1>. QED BY <1>9a, <1>10 DEF Map!Write, OnePlace

LEMMA ReadRefines ==
  ASSUME CoordinatesFit, IInv, IInv', ListInv, MapIs, MapIs', NEW p \in Places, Read(p)
  PROVE  UNCHANGED <<Order, Book>>
<1>. DEFINE old == sheet[cur_sh]
<1>1. PICK sh : sh = lookat(old, p[1], p[2])
  OBVIOUS
<1>2. /\ cur_sh \in DOMAIN sheet /\ Sound(old) /\ Indexable(p)
      /\ sheet' = [sheet EXCEPT ![cur_sh] = sh] /\ UNCHANGED <<first_sh, last_sh>>
  BY <1>1, CallerFits DEF Read, Usable
<1>3. SameNode(sh, old) /\ Cells(sh) = Cells(old)
  <2>1. Record(old)
    BY <1>2 DEF Sound, Shaped
  <2>. QED BY <2>1, <1>1, <1>2, LookatKeepsNode, LookatSeen
<1>4. \A s \in DOMAIN sheet : SameNode(sheet'[s], sheet[s]) /\ Cells(sheet'[s]) = Cells(sheet[s])
  <2>1. \A s \in DOMAIN sheet : SameNode(sheet[s], sheet[s])
    BY DEF SameNode, ListInv, Nodes
  <2>2. \A s \in DOMAIN sheet : sheet'[s] = IF s = cur_sh THEN sh ELSE sheet[s]
    BY <1>2
  <2>. HIDE DEF old
  <2>. QED BY <2>1, <2>2, <1>3 DEF old
<1>5. PICK l : Spells(l, sheet, first_sh, last_sh)
  BY DEF ListInv
<1>6. DOMAIN sheet' = DOMAIN sheet /\ Spells(l, sheet', first_sh', last_sh')
  BY <1>2, <1>4, <1>5, SpellsKept
<1>7. Depicts(l, sheet, Order, Book) /\ Depicts(l, sheet', Order', Book')
  BY <1>5, <1>6 DEF MapIs
<1>8. /\ \A i \in 1..Len(l) : l[i] \in DOMAIN sheet
      /\ \A s \in DOMAIN sheet : sheet'[s].name = sheet[s].name
  BY <1>4, <1>5 DEF Spells, ToSet, SameNode
<1>. QED BY <1>4, <1>6, <1>7, <1>8, DepictsSame

LEMMA StillRefines ==
  ASSUME ListInv, MapIs, MapIs', UNCHANGED <<first_sh, last_sh, sheet>>
  PROVE  UNCHANGED <<Order, Book>>
<1>1. PICK l : Spells(l, sheet, first_sh, last_sh)
  BY DEF ListInv
<1>2. Depicts(l, sheet, Order, Book) /\ Depicts(l, sheet, Order', Book')
  BY <1>1 DEF MapIs
<1>3. \A i \in 1..Len(l) : l[i] \in DOMAIN sheet
  BY <1>1 DEF Spells, ToSet
<1>. QED BY <1>2, <1>3, DepictsSame

(* sheet.c implements the ordered collection of maps: a write changes one
   field of one coordinate of one sheet, a read changes nothing, creating and
   deleting a sheet leave the others and their order alone. *)
THEOREM Implements ==
  ASSUME CoordinatesFit
  PROVE  Spec => MapSpec
<1>1. Init => Map!Init
  <2>. SUFFICES ASSUME Init PROVE Map!Init
    OBVIOUS
  <2>1. Spells(<<>>, sheet, first_sh, last_sh) /\ ListInv
    <3>1. Spells(<<>>, sheet, first_sh, last_sh)
      BY DEF Init, Spells, IsInjective, ToSet
    <3>. QED BY <3>1 DEF Init, ListInv, Nodes
  <2>2. Depicts(<<>>, sheet, Order, Book)
    BY <2>1, MapOf DEF MapIs
  <2>3. Order = <<>> /\ Book = <<>>
    <3>1. /\ Order = [i \in 1..Len(<<>>) |-> sheet[<<>>[i]].name]
          /\ Book = [n \in DOMAIN Book |-> Book[n]] /\ DOMAIN Book = {sheet[s].name : s \in DOMAIN sheet}
      BY <2>2, Zenon DEF Depicts
    <3>2. DOMAIN sheet = {} /\ Len(<<>>) = 0 /\ 1..0 = {}
      BY DEF Init
    <3>3. \A f : f = [x \in DOMAIN f |-> f[x]] /\ DOMAIN f = {} => f = <<>>
      OBVIOUS
    <3>4. DOMAIN Order = {} /\ Order = [i \in DOMAIN Order |-> Order[i]] /\ DOMAIN Book = {}
      BY <3>1, <3>2
    <3>. QED BY <3>1, <3>3, <3>4
  <2>. QED BY <2>3 DEF Map!Init
<1>2. ListInv => MapIs
  BY MapOf
<1>3. /\ IInv /\ IInv' /\ ListInv /\ MapIs /\ MapIs' /\ [Next]_vars
      => [Map!Next]_<<Order, Book>>
  <2>. SUFFICES ASSUME IInv, IInv', ListInv, MapIs, MapIs', [Next]_vars
                PROVE  Map!Next \/ UNCHANGED <<Order, Book>>
    OBVIOUS
  <2>1. CASE UNCHANGED vars
    BY <2>1, StillRefines DEF vars
  <2>2. ASSUME NEW n \in Names, CreateSheet(n) PROVE Map!Create \/ UNCHANGED <<Order, Book>>
    BY <2>2, CreateRefines
  <2>3. ASSUME NEW n \in Names, DeleteSheet(n) PROVE Map!Delete
    BY <2>3, DeleteRefines
  <2>4. ASSUME NEW n \in Names, SelectSheet(n) PROVE UNCHANGED <<Order, Book>>
    BY <2>4, StillRefines DEF SelectSheet
  <2>5. ASSUME NEW p \in Places, NEW v \in Vals, SetNum(p, v) PROVE Map!Write
    BY <2>5, SetNumRefines
  <2>6. ASSUME NEW p \in Places, NEW text \in Labels, SetLabel(p, text) PROVE Map!Write
    BY <2>6, SetLabelRefines
  <2>7. ASSUME NEW p \in Places, Read(p) PROVE UNCHANGED <<Order, Book>>
    BY <2>7, ReadRefines
  <2>. QED BY <2>1, <2>2, <2>3, <2>4, <2>5, <2>6, <2>7 DEF Next, Map!Next
<1>. QED BY <1>1, <1>2, <1>3, Invariance, ListInvariance, PTL DEF Spec, MapSpec, Map!Spec
=============================================================================
