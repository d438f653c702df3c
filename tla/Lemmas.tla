------------------------------- MODULE Lemmas -------------------------------
(***************************************************************************)
(* What the proofs about several components share.  First, induction over  *)
(* the natural numbers with a set in the place of a predicate, and the     *)
(* iteration of a function: what proofs about walks along pointers and     *)
(* about loops rest on.  Then facts about sequences without repetition,    *)
(* and what the library's folds over finite sets compute.                  *)
(***************************************************************************)
EXTENDS Integers, SequencesExt, FiniteSetTheorems, SequenceTheorems,
        WellFoundedInduction, TLAPS

(* A set of natural numbers that is not empty has a least one. *)
LEMMA Least ==
  ASSUME NEW T \in SUBSET Nat, T /= {}
  PROVE  \E x \in T : \A y \in T : x <= y
<1>. DEFINE Below == OpToRel(<, Nat)
<1>1. \A x, y \in Nat : <<x, y>> \in Below <=> x < y
  BY DEF OpToRel
<1>2. IsWellFoundedOn(Below, Nat)
  BY NatLessThanWellFounded
<1>. HIDE DEF Below
<1>3. PICK x \in T : \A y \in T : ~(<<y, x>> \in Below)
  BY <1>2, WFMin
<1>4. \A y \in T : ~(y < x)
  BY <1>1, <1>3
<1>. QED BY <1>4

(* A set with 0 and the successor of each of its numbers has all numbers. *)
LEMMA SetInduction ==
  ASSUME NEW S, 0 \in S, \A n \in Nat : n \in S => n + 1 \in S
  PROVE  Nat \subseteq S
<1>. SUFFICES ASSUME Nat \ S /= {} PROVE FALSE
  OBVIOUS
<1>1. PICK x \in Nat \ S : \A y \in Nat \ S : x <= y
  <2>1. Nat \ S \in SUBSET Nat
    OBVIOUS
  <2>. QED BY <2>1, Least
<1>2. x /= 0 /\ x - 1 \in Nat /\ x - 1 \in S
  BY <1>1
<1>. QED BY <1>1, <1>2

(* The same up to a bound. *)
LEMMA BoundedInduction ==
  ASSUME NEW m \in Nat, NEW S, 0 \in S, \A n \in 0..m-1 : n \in S => n + 1 \in S
  PROVE  0..m \subseteq S
<1>. DEFINE T == {n \in Nat : n <= m => n \in S}
<1>1. 0 \in T /\ \A n \in Nat : n \in T => n + 1 \in T
  OBVIOUS
<1>2. Nat \subseteq T
  <2>. HIDE DEF T
  <2>. QED BY <1>1, SetInduction
<1>. QED BY <1>2

-----------------------------------------------------------------------------
(* The first n steps of the iteration of F from d. *)
IsRun(f, n, D, d, F) ==
  /\ f \in [0..n -> D]
  /\ f[0] = d
  /\ \A i \in 0..n-1 : f[i+1] = F[f[i]]

LEMMA RunsExist ==
  ASSUME NEW D, NEW d \in D, NEW F \in [D -> D]
  PROVE  \A n \in Nat : \E f : IsRun(f, n, D, d, F)
<1>. DEFINE S == {n \in Nat : \E f : IsRun(f, n, D, d, F)}
<1>1. 0 \in S
  <2>1. IsRun([i \in 0..0 |-> d], 0, D, d, F)
    BY DEF IsRun
  <2>. QED BY <2>1
<1>2. ASSUME NEW n \in Nat, n \in S PROVE n + 1 \in S
  <2>1. PICK f : IsRun(f, n, D, d, F)
    BY <1>2
  <2>. DEFINE g == [i \in 0..n+1 |-> IF i = n + 1 THEN F[f[n]] ELSE f[i]]
  <2>2. f \in [0..n -> D] /\ f[0] = d /\ \A i \in 0..n-1 : f[i+1] = F[f[i]]
    BY <2>1 DEF IsRun
  <2>3. f[n] \in D /\ F[f[n]] \in D
    BY <2>2
  <2>4. g \in [0..n+1 -> D]
    BY <2>2, <2>3
  <2>5. g[0] = d
    BY <2>2
  <2>6. \A i \in 0..n : g[i+1] = F[g[i]]
    BY <2>2
  <2>7. IsRun(g, n + 1, D, d, F)
    <3>. HIDE DEF g
    <3>. QED BY <2>4, <2>5, <2>6 DEF IsRun
  <2>. QED BY <2>7
<1>3. Nat \subseteq S
  <2>. HIDE DEF S
  <2>. QED BY <1>1, <1>2, SetInduction
<1>. QED BY <1>3

LEMMA RunsAgree ==
  ASSUME NEW D, NEW d, NEW F, NEW n \in Nat, NEW m \in Nat, n <= m,
         NEW f, IsRun(f, n, D, d, F), NEW g, IsRun(g, m, D, d, F)
  PROVE  \A i \in 0..n : f[i] = g[i]
<1>. DEFINE S == {i \in 0..n : f[i] = g[i]}
<1>1. 0 \in S
  BY DEF IsRun
<1>2. ASSUME NEW i \in 0..n-1, i \in S PROVE i + 1 \in S
  BY <1>2 DEF IsRun
<1>3. 0..n \subseteq S
  <2>. HIDE DEF S
  <2>. QED BY <1>1, <1>2, BoundedInduction
<1>. QED BY <1>3

Iterates(g, D, d, F) == g \in [Nat -> D] /\ g[0] = d /\ \A n \in Nat : g[n+1] = F[g[n]]

(* A function can be iterated for ever. *)
LEMMA Iteration ==
  ASSUME NEW D, NEW d \in D, NEW F \in [D -> D]
  PROVE  \E g : Iterates(g, D, d, F)
<1>. DEFINE Run(n) == CHOOSE f : IsRun(f, n, D, d, F)
            g == [n \in Nat |-> Run(n)[n]]
<1>1. \A n \in Nat : IsRun(Run(n), n, D, d, F)
  BY RunsExist
<1>2. \A n \in Nat : \A i \in 0..n : Run(i)[i] = Run(n)[i]
  <2>. SUFFICES ASSUME NEW n \in Nat, NEW i \in 0..n PROVE Run(i)[i] = Run(n)[i]
    OBVIOUS
  <2>1. i \in Nat /\ i <= n /\ i \in 0..i /\ IsRun(Run(i), i, D, d, F) /\ IsRun(Run(n), n, D, d, F)
    BY <1>1
  <2>. HIDE DEF Run
  <2>. QED BY <2>1, RunsAgree
<1>. HIDE DEF Run
<1>3. g \in [Nat -> D]
  <2>1. \A n \in Nat : Run(n)[n] \in D
    BY <1>1 DEF IsRun
  <2>. QED BY <2>1
<1>4. g[0] = d
  BY <1>1 DEF IsRun
<1>5. \A n \in Nat : g[n+1] = F[g[n]]
  <2>. SUFFICES ASSUME NEW n \in Nat PROVE g[n+1] = F[g[n]]
    OBVIOUS
  <2>1. Run(n+1)[n+1] = F[Run(n+1)[n]]
    BY <1>1 DEF IsRun
  <2>2. Run(n+1)[n] = Run(n)[n]
    BY <1>2
  <2>. QED BY <2>1, <2>2
<1>. HIDE DEF g
<1>. QED BY <1>3, <1>4, <1>5 DEF Iterates

-----------------------------------------------------------------------------
(* The elements of a sequence over S are in S. *)
LEMMA ElementsOf ==
  ASSUME NEW S, NEW s \in Seq(S)
  PROVE  ToSet(s) \subseteq S
BY DEF ToSet

(* A sequence without repetitions is as long as its set of elements is
   large. *)
LEMMA InjectiveLen ==
  ASSUME NEW S, NEW s \in Seq(S), IsInjective(s)
  PROVE  /\ IsFiniteSet(ToSet(s))
         /\ Cardinality(ToSet(s)) = Len(s)
<1>1. s \in Bijection(1..Len(s), ToSet(s))
  <2>1. s \in [1..Len(s) -> ToSet(s)]
    BY DEF ToSet
  <2>2. s \in Injection(1..Len(s), ToSet(s))
    BY <2>1 DEF Injection
  <2>3. \A t \in ToSet(s) : \E i \in 1..Len(s) : s[i] = t
    BY DEF ToSet
  <2>. QED BY <2>1, <2>2, <2>3 DEF Bijection, Surjection
<1>2. IsFiniteSet(1..Len(s)) /\ Cardinality(1..Len(s)) = Len(s)
  <2>1. Len(s) \in Nat
    BY LenProperties
  <2>. QED BY <2>1, FS_Interval, SMTT(20)
<1>. QED BY <1>1, <1>2, FS_Bijection DEF ExistsBijection

(* It has all of 1..n as elements exactly when it has length n. *)
LEMMA InjectiveFull ==
  ASSUME NEW n \in Nat, NEW s \in Seq(1..n), IsInjective(s)
  PROVE  /\ Len(s) <= n
         /\ Len(s) = n <=> ToSet(s) = 1..n
<1>1. IsFiniteSet(1..n) /\ Cardinality(1..n) = n
  BY FS_Interval
<1>2. ToSet(s) \in SUBSET (1..n)
  BY DEF ToSet
<1>3. /\ Cardinality(ToSet(s)) <= n
      /\ Cardinality(ToSet(s)) = n => ToSet(s) = 1..n
  BY <1>1, <1>2, FS_Subset
<1>. QED BY <1>1, <1>3, InjectiveLen

(* Pushing at the head. *)
LEMMA ConsProperties ==
  ASSUME NEW S, NEW s \in Seq(S), NEW e \in S
  PROVE  /\ <<e>> \o s \in Seq(S)
         /\ Len(<<e>> \o s) = Len(s) + 1
         /\ ToSet(<<e>> \o s) = {e} \cup ToSet(s)
         /\ IsInjective(s) /\ e \notin ToSet(s) => IsInjective(<<e>> \o s)
<1> DEFINE t == <<e>> \o s
<1>1. /\ t \in Seq(S) /\ Len(t) = Len(s) + 1
      /\ t[1] = e
      /\ \A i \in 2..Len(t) : t[i] = s[i-1]
      /\ DOMAIN t = 1..Len(t) /\ Len(s) \in Nat /\ DOMAIN s = 1..Len(s)
  OBVIOUS
<1> HIDE DEF t
<1>2. ToSet(t) = {e} \cup ToSet(s)
  <2>1. ASSUME NEW x \in ToSet(s) PROVE x \in ToSet(t)
    <3>1. PICK i \in 1..Len(s) : s[i] = x
      BY DEF ToSet
    <3>2. i + 1 \in 2..Len(t) /\ t[i+1] = x
      BY <1>1, <3>1
    <3>. QED BY <1>1, <3>2 DEF ToSet
  <2>2. ASSUME NEW x \in ToSet(t) PROVE x \in {e} \cup ToSet(s)
    <3>1. PICK i \in 1..Len(t) : t[i] = x
      BY <1>1 DEF ToSet
    <3>2. CASE i = 1 BY <1>1, <3>1, <3>2
    <3>3. CASE i \in 2..Len(t)
      <4>1. i-1 \in 1..Len(s) /\ s[i-1] = x
        BY <1>1, <3>1, <3>3
      <4>. QED BY <4>1 DEF ToSet
    <3>. QED BY <3>1, <3>2, <3>3, <1>1
  <2>3. e \in ToSet(t)
    BY <1>1 DEF ToSet
  <2>. QED BY <2>1, <2>2, <2>3
<1>3. ASSUME IsInjective(s), e \notin ToSet(s) PROVE IsInjective(t)
  <2>1. \A i \in 1..Len(s) : s[i] /= e
    BY <1>3 DEF ToSet
  <2>2. ASSUME NEW i \in 1..Len(t), NEW j \in 1..Len(t), t[i] = t[j] PROVE i = j
    <3>1. CASE i = 1 \/ j = 1
      BY <1>1, <2>1, <2>2, <3>1
    <3>2. CASE i \in 2..Len(t) /\ j \in 2..Len(t)
      <4>1. i-1 \in 1..Len(s) /\ j-1 \in 1..Len(s) /\ s[i-1] = s[j-1]
        BY <1>1, <2>2, <3>2
      <4>2. i-1 = j-1
        BY <4>1, <1>3 DEF IsInjective
      <4>. QED BY <4>2
    <3>. QED BY <3>1, <3>2, <1>1
  <2>. QED BY <1>1, <2>2 DEF IsInjective
<1>. QED BY <1>1, <1>2, <1>3 DEF t

(* Appending at the end. *)
LEMMA AppendedProperties ==
  ASSUME NEW S, NEW s \in Seq(S), NEW e \in S
  PROVE  /\ Append(s, e) \in Seq(S)
         /\ Len(Append(s, e)) = Len(s) + 1
         /\ ToSet(Append(s, e)) = ToSet(s) \cup {e}
         /\ IsInjective(s) /\ e \notin ToSet(s) => IsInjective(Append(s, e))
<1> DEFINE t == Append(s, e)
           n == Len(s)
<1>1. /\ t \in Seq(S) /\ Len(t) = n + 1 /\ n \in Nat
      /\ DOMAIN t = 1..n+1 /\ DOMAIN s = 1..n
      /\ t[n+1] = e /\ \A i \in 1..n : t[i] = s[i]
  OBVIOUS
<1> HIDE DEF t, n
<1>2. ToSet(t) = ToSet(s) \cup {e}
  <2>1. 1..n+1 = 1..n \cup {n+1}
    BY <1>1
  <2>. QED BY <1>1, <2>1 DEF ToSet
<1>3. ASSUME IsInjective(s), e \notin ToSet(s) PROVE IsInjective(t)
  <2>1. \A i \in 1..n : s[i] /= e
    BY <1>1, <1>3 DEF ToSet
  <2>2. ASSUME NEW i \in 1..n+1, NEW j \in 1..n+1, t[i] = t[j] PROVE i = j
    BY <1>1, <1>3, <2>1, <2>2 DEF IsInjective
  <2>. QED BY <1>1, <2>2 DEF IsInjective
<1>. QED BY <1>1, <1>2, <1>3 DEF t, n

(* Dropping the first k elements. *)
LEMMA DropProperties ==
  ASSUME NEW S, NEW s \in Seq(S), NEW k \in 0..Len(s)
  PROVE  LET t == SubSeq(s, k+1, Len(s))
         IN  /\ t \in Seq(S)
             /\ Len(t) = Len(s) - k
             /\ ToSet(t) \subseteq ToSet(s)
             /\ IsInjective(s) => IsInjective(t)
<1> DEFINE t == SubSeq(s, k+1, Len(s))
<1>1. /\ t \in Seq(S) /\ Len(t) = Len(s) - k
      /\ \A i \in 1..Len(t) : t[i] = s[i+k]
      /\ DOMAIN t = 1..Len(t) /\ Len(s) \in Nat /\ DOMAIN s = 1..Len(s)
  OBVIOUS
<1> HIDE DEF t
<1>2. ToSet(t) \subseteq ToSet(s)
  <2>1. \A i \in 1..Len(t) : i+k \in 1..Len(s)
    BY <1>1
  <2>. QED BY <1>1, <2>1 DEF ToSet
<1>3. ASSUME IsInjective(s) PROVE IsInjective(t)
  <2>1. ASSUME NEW i \in 1..Len(t), NEW j \in 1..Len(t), t[i] = t[j] PROVE i = j
    <3>1. i+k \in 1..Len(s) /\ j+k \in 1..Len(s) /\ s[i+k] = s[j+k]
      BY <1>1, <2>1
    <3>2. i+k = j+k
      BY <3>1, <1>3 DEF IsInjective
    <3>. QED BY <3>2
  <2>. QED BY <1>1, <2>1 DEF IsInjective
<1>. QED BY <1>1, <1>2, <1>3 DEF t

(* Popping the head. *)
LEMMA TailProperties ==
  ASSUME NEW S, NEW s \in Seq(S), s /= <<>>
  PROVE  /\ Head(s) \in S /\ Head(s) \in ToSet(s)
         /\ Tail(s) \in Seq(S)
         /\ Len(Tail(s)) = Len(s) - 1
         /\ Len(s) > 0
         /\ IsInjective(s) => /\ IsInjective(Tail(s))
                              /\ ToSet(Tail(s)) = ToSet(s) \ {Head(s)}
<1>1. /\ Len(s) \in Nat /\ Len(s) > 0 /\ Head(s) = s[1]
      /\ Tail(s) \in Seq(S) /\ Len(Tail(s)) = Len(s) - 1
      /\ \A i \in 1..Len(Tail(s)) : Tail(s)[i] = s[i+1]
      /\ DOMAIN s = 1..Len(s) /\ DOMAIN Tail(s) = 1..Len(Tail(s))
  OBVIOUS
<1>2. Head(s) \in ToSet(s) /\ Head(s) \in S
  BY <1>1 DEF ToSet
<1>3. ASSUME IsInjective(s) PROVE IsInjective(Tail(s))
  <2>1. ASSUME NEW i \in 1..Len(Tail(s)), NEW j \in 1..Len(Tail(s)),
               Tail(s)[i] = Tail(s)[j]
        PROVE  i = j
    <3>1. i+1 \in 1..Len(s) /\ j+1 \in 1..Len(s) /\ s[i+1] = s[j+1]
      BY <1>1, <2>1
    <3>2. i+1 = j+1
      BY <3>1, <1>3 DEF IsInjective
    <3>. QED BY <3>2
  <2>. QED BY <1>1, <2>1 DEF IsInjective
<1>4. ASSUME IsInjective(s) PROVE ToSet(Tail(s)) = ToSet(s) \ {Head(s)}
  <2>1. ASSUME NEW x \in ToSet(Tail(s)) PROVE x \in ToSet(s) /\ x /= Head(s)
    <3>1. PICK i \in 1..Len(Tail(s)) : Tail(s)[i] = x
      BY <1>1, <2>1 DEF ToSet
    <3>2. i+1 \in 1..Len(s) /\ s[i+1] = x /\ i+1 /= 1 /\ 1 \in 1..Len(s)
      BY <1>1, <3>1
    <3>. QED BY <1>1, <1>4, <3>2 DEF ToSet, IsInjective
  <2>2. ASSUME NEW x \in ToSet(s), x /= Head(s) PROVE x \in ToSet(Tail(s))
    <3>1. PICK i \in 1..Len(s) : s[i] = x
      BY DEF ToSet
    <3>2. i-1 \in 1..Len(Tail(s)) /\ Tail(s)[i-1] = x
      BY <1>1, <2>2, <3>1
    <3>. QED BY <1>1, <3>2 DEF ToSet
  <2>. QED BY <2>1, <2>2
<1>. QED BY <1>1, <1>2, <1>3, <1>4

(* What is left after an element is deleted: what was before it, and what
   was behind it, one place nearer. *)
LEMMA RemovedAt ==
  ASSUME NEW S, NEW s \in Seq(S), NEW e \in ToSet(s), IsInjective(s)
  PROVE  \E k \in 1..Len(s) :
           LET t == RemoveFirst(s, e)
           IN /\ s[k] = e /\ t \in Seq(S) /\ Len(t) = Len(s) - 1
              /\ \A i \in 1..Len(t) : t[i] = IF i < k THEN s[i] ELSE s[i+1]
<1>1. PICK k \in 1..Len(s) : s[k] = e
  BY DEF ToSet
<1>2. {i \in 1..Len(s) : s[i] = e} = {k}
  BY <1>1 DEF IsInjective
<1>3. SelectInSeq(s, LAMBDA v : v = e) = k
  BY <1>1, <1>2 DEF SelectInSeq, Min
<1> DEFINE t == RemoveAt(s, k)
<1>4. RemoveFirst(s, e) = t
  BY <1>1, <1>3 DEF RemoveFirst
<1>5. /\ t \in Seq(S) /\ Len(t) = Len(s) - 1
      /\ \A i \in 1..Len(t) : t[i] = IF i < k THEN s[i] ELSE s[i+1]
      /\ DOMAIN t = 1..Len(t) /\ Len(s) \in Nat /\ DOMAIN s = 1..Len(s)
  <2> DEFINE a == SubSeq(s, 1, k-1)
             b == SubSeq(s, k+1, Len(s))
  <2>1. /\ a \in Seq(S) /\ Len(a) = k-1
        /\ \A i \in 1..k-1 : a[i] = s[i]
    BY <1>1
  <2>2. /\ b \in Seq(S) /\ Len(b) = Len(s) - k
        /\ \A i \in 1..Len(s)-k : b[i] = s[k+i]
    BY <1>1
  <2>3. t = a \o b
    BY DEF RemoveAt
  <2> HIDE DEF a, b, t
  <2>4. /\ t \in Seq(S) /\ Len(t) = Len(a) + Len(b)
        /\ \A i \in 1..Len(a) + Len(b) :
              t[i] = IF i <= Len(a) THEN a[i] ELSE b[i - Len(a)]
    BY <2>1, <2>2, <2>3, ConcatProperties
  <2>5. Len(s) \in Nat /\ k \in 1..Len(s) /\ Len(t) = Len(s) - 1
    BY <1>1, <2>1, <2>2, <2>4
  <2>6. ASSUME NEW i \in 1..Len(t) PROVE t[i] = IF i < k THEN s[i] ELSE s[i+1]
    <3>1. CASE i < k
      <4>1. i \in 1..k-1 /\ i <= Len(a) /\ i \in 1..Len(a) + Len(b)
        BY <2>1, <2>2, <2>5, <3>1
      <4>. QED BY <2>1, <2>4, <3>1, <4>1
    <3>2. CASE ~(i < k)
      <4>1. /\ i \in 1..Len(a) + Len(b) /\ ~(i <= Len(a))
            /\ i - (k-1) \in 1..Len(s)-k /\ k + (i - (k-1)) = i+1
        BY <2>1, <2>2, <2>5, <3>2
      <4>2. t[i] = b[i - (k-1)]
        BY <2>1, <2>4, <4>1
      <4>. QED BY <2>2, <3>2, <4>1, <4>2
    <3>. QED BY <3>1, <3>2
  <2>7. DOMAIN t = 1..Len(t) /\ DOMAIN s = 1..Len(s)
    BY <2>4
  <2>. QED BY <2>4, <2>5, <2>6, <2>7
<1>. QED BY <1>1, <1>4, <1>5

(* Deleting an element from anywhere in the sequence. *)
LEMMA RemoveFirstProperties ==
  ASSUME NEW S, NEW s \in Seq(S), NEW e \in ToSet(s), IsInjective(s)
  PROVE  /\ RemoveFirst(s, e) \in Seq(S)
         /\ Len(RemoveFirst(s, e)) = Len(s) - 1
         /\ Len(s) > 0
         /\ ToSet(RemoveFirst(s, e)) = ToSet(s) \ {e}
         /\ IsInjective(RemoveFirst(s, e))
<1> DEFINE t == RemoveFirst(s, e)
<1>1. PICK k \in 1..Len(s) :
        /\ s[k] = e /\ t \in Seq(S) /\ Len(t) = Len(s) - 1
        /\ \A i \in 1..Len(t) : t[i] = IF i < k THEN s[i] ELSE s[i+1]
  BY RemovedAt
<1>2. {i \in 1..Len(s) : s[i] = e} = {k}
  BY <1>1 DEF IsInjective
<1>5. /\ t \in Seq(S) /\ Len(t) = Len(s) - 1
      /\ \A i \in 1..Len(t) : t[i] = IF i < k THEN s[i] ELSE s[i+1]
      /\ DOMAIN t = 1..Len(t) /\ Len(s) \in Nat /\ DOMAIN s = 1..Len(s)
  <2>. HIDE DEF t
  <2>. QED BY <1>1
<1> HIDE DEF t
<1>6. \A i \in 1..Len(t) : IF i < k THEN i \in 1..Len(s) ELSE i+1 \in 1..Len(s)
  BY <1>1, <1>5
<1>7. \A i \in 1..Len(t) : t[i] /= e
  <2>1. \A j \in 1..Len(s) : s[j] = e => j = k
    BY <1>1, <1>2
  <2>. SUFFICES ASSUME NEW i \in 1..Len(t) PROVE t[i] /= e
    OBVIOUS
  <2>2. i \in Nat /\ k \in Nat
    BY <1>1, <1>5
  <2>3. CASE i < k
    <3>1. t[i] = s[i] /\ i \in 1..Len(s) /\ i /= k
      BY <1>5, <1>6, <2>2, <2>3
    <3>. QED BY <2>1, <3>1
  <2>4. CASE ~(i < k)
    <3>1. t[i] = s[i+1] /\ i+1 \in 1..Len(s) /\ i+1 /= k
      BY <1>5, <1>6, <2>2, <2>4
    <3>. QED BY <2>1, <3>1
  <2>. QED BY <2>3, <2>4
<1>8. ToSet(t) = ToSet(s) \ {e}
  <2>1. ASSUME NEW x \in ToSet(t) PROVE x \in ToSet(s) \ {e}
    <3>1. PICK i \in 1..Len(t) : t[i] = x
      BY <1>5, <2>1 DEF ToSet
    <3>2. \E j \in 1..Len(s) : s[j] = x
      BY <1>5, <1>6, <3>1
    <3>. QED BY <3>1, <3>2, <1>7 DEF ToSet
  <2>2. ASSUME NEW x \in ToSet(s), x /= e PROVE x \in ToSet(t)
    <3>1. PICK i \in 1..Len(s) : s[i] = x
      BY DEF ToSet
    <3>2. CASE i < k
      <4>1. i \in 1..Len(t) /\ t[i] = x
        BY <1>1, <1>5, <3>1, <3>2
      <4>. QED BY <1>5, <4>1 DEF ToSet
    <3>3. CASE i > k
      <4>1. i-1 \in 1..Len(t) /\ t[i-1] = x
        BY <1>1, <1>5, <3>1, <3>3
      <4>. QED BY <1>5, <4>1 DEF ToSet
    <3>. QED BY <1>1, <2>2, <3>1, <3>2, <3>3
  <2>. QED BY <2>1, <2>2
<1>9. IsInjective(t)
  <2>1. ASSUME NEW i \in 1..Len(t), NEW j \in 1..Len(t), t[i] = t[j] PROVE i = j
    <3>1. PICK a \in 1..Len(s) : s[a] = t[i] /\ a = IF i < k THEN i ELSE i+1
      BY <1>5, <1>6
    <3>2. PICK b \in 1..Len(s) : s[b] = t[j] /\ b = IF j < k THEN j ELSE j+1
      BY <1>5, <1>6
    <3>3. a = b
      BY <2>1, <3>1, <3>2 DEF IsInjective
    <3>. QED BY <1>1, <1>5, <3>1, <3>2, <3>3
  <2>. QED BY <1>5, <2>1 DEF IsInjective
<1>. QED BY <1>1, <1>5, <1>8, <1>9 DEF t

-----------------------------------------------------------------------------
(* A set of subsets with {} and, for each of its sets, that set with any one
   element more has every subset of a finite set. *)
LEMMA FiniteInduction ==
  ASSUME NEW S, IsFiniteSet(S), NEW T, {} \in T,
         \A X \in SUBSET S : \A x \in S \ X : X \in T => X \cup {x} \in T
  PROVE  SUBSET S \subseteq T
<1>. DEFINE N == {n \in Nat : \A X \in SUBSET S : Cardinality(X) = n => X \in T}
<1>1. \A X \in SUBSET S : IsFiniteSet(X) /\ Cardinality(X) \in Nat
  BY FS_Subset, FS_CardinalityType
<1>2. 0 \in N
  BY <1>1, FS_EmptySet
<1>3. ASSUME NEW n \in Nat, n \in N PROVE n + 1 \in N
  <2>. SUFFICES ASSUME NEW X \in SUBSET S, Cardinality(X) = n + 1 PROVE X \in T
    OBVIOUS
  <2>1. X /= {}
    BY FS_EmptySet
  <2>2. PICK x \in X : TRUE
    BY <2>1
  <2>3. X \ {x} \in SUBSET S /\ Cardinality(X \ {x}) = n
    <3>1. IsFiniteSet(X) /\ x \in X
      BY <1>1, <2>2
    <3>2. Cardinality(X \ {x}) = (n + 1) - 1
      BY <3>1, FS_RemoveElement
    <3>. QED BY <3>2
  <2>4. X \ {x} \in T /\ x \in S \ (X \ {x}) /\ (X \ {x}) \cup {x} = X
    BY <1>3, <2>3
  <2>. QED BY <2>3, <2>4
<1>4. Nat \subseteq N
  <2>. HIDE DEF N
  <2>. QED BY <1>2, <1>3, SetInduction
<1>. QED BY <1>1, <1>4

-----------------------------------------------------------------------------
(* Folding a set with a table G for the operation: F gives the result for
   every subset, the next element being one the fold chooses. *)
IsFold(F, S, b, f, G) ==
  /\ F[{}] = b
  /\ \A X \in SUBSET S : X /= {} =>
       LET x == CHOOSE y \in X : TRUE IN F[X] = G[<<f[x], F[X \ {x}]>>]

LEMMA FoldsExist ==
  ASSUME NEW S, IsFiniteSet(S), NEW D, NEW b \in D, NEW f \in [S -> D],
         NEW G \in [D \X D -> D]
  PROVE  \E F \in [SUBSET S -> D] : IsFold(F, S, b, f, G)
<1>. DEFINE UpTo(n) == {X \in SUBSET S : Cardinality(X) <= n}
            el(X) == CHOOSE y \in X : TRUE
            Fits(F, n) == /\ F \in [UpTo(n) -> D] /\ F[{}] = b
                          /\ \A X \in UpTo(n) : X /= {} => F[X] = G[<<f[el(X)], F[X \ {el(X)}]>>]
            N == {n \in Nat : \E F : Fits(F, n)}
<1>1. \A X \in SUBSET S : IsFiniteSet(X) /\ Cardinality(X) \in Nat
  BY FS_Subset, FS_CardinalityType
<1>2. \A X \in SUBSET S : X /= {} =>
        /\ el(X) \in X /\ X \ {el(X)} \in SUBSET S
        /\ Cardinality(X \ {el(X)}) = Cardinality(X) - 1
        /\ Cardinality(X) > 0 /\ f[el(X)] \in D
  <2>. SUFFICES ASSUME NEW X \in SUBSET S, X /= {}
                PROVE  /\ el(X) \in X /\ X \ {el(X)} \in SUBSET S
                       /\ Cardinality(X \ {el(X)}) = Cardinality(X) - 1
                       /\ Cardinality(X) > 0 /\ f[el(X)] \in D
    OBVIOUS
  <2>1. el(X) \in X
    OBVIOUS
  <2>. HIDE DEF el
  <2>2. Cardinality(X) \in Nat /\ Cardinality(X) /= 0 /\ IsFiniteSet(X)
    BY <1>1, FS_EmptySet
  <2>3. Cardinality(X \ {el(X)}) = Cardinality(X) - 1
    BY <2>1, <2>2, FS_RemoveElement
  <2>. QED BY <2>1, <2>2, <2>3
<1>. HIDE DEF el
<1>3. 0 \in N
  <2>1. UpTo(0) = {{}}
    BY <1>1, FS_EmptySet
  <2>2. Fits([X \in UpTo(0) |-> b], 0)
    BY <2>1
  <2>. QED BY <2>2
<1>4. ASSUME NEW n \in Nat, n \in N PROVE n + 1 \in N
  <2>1. PICK F : Fits(F, n)
    BY <1>4
  <2>. DEFINE H == [X \in UpTo(n+1) |-> IF X \in UpTo(n) THEN F[X]
                                        ELSE G[<<f[el(X)], F[X \ {el(X)}]>>]]
  <2>2. \A X \in UpTo(n+1) : X /= {} => X \ {el(X)} \in UpTo(n) /\ X \ {el(X)} \in UpTo(n+1)
    BY <1>1, <1>2
  <2>3. {} \in UpTo(n) /\ UpTo(n) \subseteq UpTo(n+1)
    BY <1>1, FS_EmptySet
  <2>. HIDE DEF UpTo
  <2>4. \A X \in UpTo(n+1) : X /= {} => G[<<f[el(X)], F[X \ {el(X)}]>>] \in D
    <3>. SUFFICES ASSUME NEW X \in UpTo(n+1), X /= {} PROVE G[<<f[el(X)], F[X \ {el(X)}]>>] \in D
      OBVIOUS
    <3>1. f[el(X)] \in D
      BY <1>2 DEF UpTo
    <3>2. F[X \ {el(X)}] \in D
      BY <2>1, <2>2
    <3>. QED BY <3>1, <3>2
  <2>5. H \in [UpTo(n+1) -> D]
    BY <2>1, <2>3, <2>4
  <2>6. H[{}] = b
    BY <2>1, <2>3
  <2>7. ASSUME NEW X \in UpTo(n+1), X /= {} PROVE H[X] = G[<<f[el(X)], H[X \ {el(X)}]>>]
    <3>1. H[X \ {el(X)}] = F[X \ {el(X)}]
      BY <2>2, <2>7
    <3>2. H[X] = G[<<f[el(X)], F[X \ {el(X)}]>>]
      BY <2>1, <2>7
    <3>. QED BY <3>1, <3>2
  <2>. HIDE DEF H
  <2>8. Fits(H, n+1)
    BY <2>5, <2>6, <2>7
  <2>. QED BY <2>8
<1>5. Nat \subseteq N
  <2>. HIDE DEF N
  <2>. QED BY <1>3, <1>4, SetInduction
<1>6. PICK F : Fits(F, Cardinality(S))
  BY <1>1, <1>5
<1>7. UpTo(Cardinality(S)) = SUBSET S
  BY <1>1, FS_Subset
<1>8. F \in [SUBSET S -> D] /\ IsFold(F, S, b, f, G)
  BY <1>6, <1>7 DEF IsFold, el
<1>. QED BY <1>8

(* When the operation commutes with itself, any element may come first. *)
Commutes(G, D) ==
  \A x, y, z \in D : G[<<x, G[<<y, z>>]>>] = G[<<y, G[<<x, z>>]>>]

AnyOrder(F, S, f, G) ==
  \A X \in SUBSET S : \A x \in S \ X : F[X \cup {x}] = G[<<f[x], F[X]>>]

LEMMA FoldsAnyOrder ==
  ASSUME NEW S, IsFiniteSet(S), NEW D, NEW b \in D, NEW f \in [S -> D],
         NEW G \in [D \X D -> D],
         Commutes(G, D),
         NEW F \in [SUBSET S -> D], IsFold(F, S, b, f, G)
  PROVE  AnyOrder(F, S, f, G)
<1>. DEFINE el(X) == CHOOSE y \in X : TRUE
            Turns(X) == \A x \in X : F[X] = G[<<f[x], F[X \ {x}]>>]
            N == {n \in Nat : \A X \in SUBSET S : Cardinality(X) = n => Turns(X)}
<1>1. \A X \in SUBSET S : IsFiniteSet(X) /\ Cardinality(X) \in Nat
  BY FS_Subset, FS_CardinalityType
<1>2. \A X \in SUBSET S : X /= {} => el(X) \in X /\ F[X] = G[<<f[el(X)], F[X \ {el(X)}]>>]
  BY DEF IsFold
<1>. HIDE DEF el
<1>3. 0 \in N
  BY <1>1, FS_EmptySet
<1>4. ASSUME NEW n \in Nat, n \in N PROVE n + 1 \in N
  <2>. SUFFICES ASSUME NEW X \in SUBSET S, Cardinality(X) = n + 1 PROVE Turns(X)
    <3>. HIDE DEF Turns
    <3>. QED OBVIOUS
  <2>. SUFFICES ASSUME NEW x \in X PROVE F[X] = G[<<f[x], F[X \ {x}]>>]
    OBVIOUS
  <2>0. ASSUME NEW y \in X PROVE Cardinality(X \ {y}) = n
    <3>1. IsFiniteSet(X)
      BY <1>1
    <3>2. Cardinality(X \ {y}) = (n + 1) - 1
      BY <3>1, FS_RemoveElement
    <3>. QED BY <3>2
  <2>. DEFINE c == el(X)
              Y == X \ {c}
              Z == X \ {x}
              W == Y \ {x}
  <2>1. c \in X /\ F[X] = G[<<f[c], F[Y]>>]
    BY <1>2
  <2>2. CASE x = c
    BY <2>1, <2>2
  <2>3. CASE x /= c
    <3>1. /\ Y \in SUBSET S /\ Z \in SUBSET S /\ W \in SUBSET S
          /\ x \in Y /\ c \in Z /\ Z \ {c} = W
      BY <2>1, <2>3
    <3>2. Cardinality(Y) = n /\ Cardinality(Z) = n
      BY <2>0, <2>1
    <3>. HIDE DEF c, Y, Z, W
    <3>3. Turns(Y) /\ Turns(Z)
      BY <1>4, <3>1, <3>2
    <3>4. F[Y] = G[<<f[x], F[W]>>]
      BY <3>1, <3>3 DEF W
    <3>5. F[Z] = G[<<f[c], F[W]>>]
      BY <3>1, <3>3
    <3>6. f[x] \in D /\ f[c] \in D /\ F[W] \in D
      BY <2>1, <3>1
    <3>7. F[X] = G[<<f[x], F[Z]>>]
      BY <2>1, <3>4, <3>5, <3>6 DEF Commutes
    <3>. QED BY <3>7 DEF Z
  <2>. QED BY <2>2, <2>3
<1>5. Nat \subseteq N
  <2>. HIDE DEF N
  <2>. QED BY <1>3, <1>4, SetInduction
<1>. SUFFICES ASSUME NEW X \in SUBSET S, NEW x \in S \ X
              PROVE  F[X \cup {x}] = G[<<f[x], F[X]>>]
  BY DEF AnyOrder
<1>6. X \cup {x} \in SUBSET S /\ x \in X \cup {x} /\ (X \cup {x}) \ {x} = X
  OBVIOUS
<1>7. Turns(X \cup {x})
  BY <1>1, <1>5, <1>6
<1>8. F[X \cup {x}] = G[<<f[x], F[(X \cup {x}) \ {x}]>>]
  BY <1>6, <1>7
<1>. QED BY <1>6, <1>8

(* Two functions of the subsets of a finite set agree when they agree on {} and
   on each set whose rest they agree on. *)
AgreeStepwise(E, F, S) ==
  /\ E[{}] = F[{}]
  /\ \A X \in SUBSET S : X /= {} =>
       LET x == CHOOSE y \in X : TRUE IN E[X \ {x}] = F[X \ {x}] => E[X] = F[X]

LEMMA FoldsUnique ==
  ASSUME NEW S, IsFiniteSet(S), NEW E, NEW F, AgreeStepwise(E, F, S)
  PROVE  \A X \in SUBSET S : E[X] = F[X]
<1>. DEFINE el(X) == CHOOSE y \in X : TRUE
            N == {n \in Nat : \A X \in SUBSET S : Cardinality(X) = n => E[X] = F[X]}
<1>1. \A X \in SUBSET S : IsFiniteSet(X) /\ Cardinality(X) \in Nat
  BY FS_Subset, FS_CardinalityType
<1>2. \A X \in SUBSET S : X /= {} =>
        el(X) \in X /\ (E[X \ {el(X)}] = F[X \ {el(X)}] => E[X] = F[X])
  BY DEF AgreeStepwise
<1>. HIDE DEF el
<1>3. 0 \in N
  BY <1>1, FS_EmptySet DEF AgreeStepwise
<1>4. ASSUME NEW n \in Nat, n \in N PROVE n + 1 \in N
  <2>. SUFFICES ASSUME NEW X \in SUBSET S, Cardinality(X) = n + 1 PROVE E[X] = F[X]
    OBVIOUS
  <2>1. X /= {} /\ IsFiniteSet(X)
    BY <1>1, FS_EmptySet
  <2>2. el(X) \in X
    BY <1>2, <2>1
  <2>3. Cardinality(X \ {el(X)}) = (n + 1) - 1
    BY <2>1, <2>2, FS_RemoveElement
  <2>4. E[X \ {el(X)}] = F[X \ {el(X)}]
    BY <1>4, <2>3
  <2>. QED BY <1>2, <2>1, <2>4
<1>5. Nat \subseteq N
  <2>. HIDE DEF N
  <2>. QED BY <1>3, <1>4, SetInduction
<1>. QED BY <1>1, <1>5

-----------------------------------------------------------------------------
(* The library's sum of a function over a set: 0 for no element, and each
   element adds its value. *)
LEMMA Summing ==
  ASSUME NEW S, IsFiniteSet(S), NEW f, \A x \in S : f[x] \in Int
  PROVE  /\ SumFunctionOnSet(f, {}) = 0
         /\ \A X \in SUBSET S : SumFunctionOnSet(f, X) \in Int
         /\ \A X \in SUBSET S : \A x \in S \ X :
              SumFunctionOnSet(f, X \cup {x}) = f[x] + SumFunctionOnSet(f, X)
<1>. DEFINE D == Int
            G == [p \in D \X D |-> p[1] + p[2]]
            g == [x \in S |-> f[x]]
            el(s) == CHOOSE y \in s : TRUE
            Rec(it, X) == [s \in SUBSET X |-> IF s = {} THEN 0 ELSE f[el(s)] + it[s \ {el(s)}]]
<1>1. G \in [D \X D -> D] /\ \A x, y \in Int : G[<<x, y>>] = x + y
  OBVIOUS
<1>2. g \in [S -> D] /\ \A x \in S : g[x] = f[x]
  OBVIOUS
<1>3. Commutes(G, D)
  BY DEF Commutes
<1>4. 0 \in D
  OBVIOUS
<1>5. \A s : s /= {} => el(s) \in s
  OBVIOUS
<1>. HIDE DEF D, G, g
<1>6. PICK F \in [SUBSET S -> D] : IsFold(F, S, 0, g, G)
  BY <1>1, <1>2, <1>4, FoldsExist
<1>7. AnyOrder(F, S, g, G)
  BY <1>1, <1>2, <1>3, <1>4, <1>6, FoldsAnyOrder
<1>8. F[{}] = 0 /\ \A s \in SUBSET S : s /= {} => F[s] = f[el(s)] + F[s \ {el(s)}]
  <2>1. F[{}] = 0
    BY <1>6 DEF IsFold
  <2>. SUFFICES ASSUME NEW s \in SUBSET S, s /= {}
                PROVE  F[s] = f[el(s)] + F[s \ {el(s)}]
    BY <2>1
  <2>2. F[s] = G[<<g[el(s)], F[s \ {el(s)}]>>]
    BY <1>6 DEF IsFold
  <2>3. el(s) \in S
    BY <1>5
  <2>. HIDE DEF el
  <2>4. F[s \ {el(s)}] \in Int /\ g[el(s)] = f[el(s)] /\ f[el(s)] \in Int
    BY <1>2, <1>6, <2>3 DEF D
  <2>. QED BY <1>1, <2>2, <2>4
<1>9. ASSUME NEW X \in SUBSET S PROVE SumFunctionOnSet(f, X) = F[X]
  <2>1. \E it : it = Rec(it, X)
    <3>. DEFINE it == [s \in SUBSET X |-> F[s]]
    <3>1. \A s \in SUBSET X : it[s] = IF s = {} THEN 0 ELSE f[el(s)] + it[s \ {el(s)}]
      BY <1>8
    <3>2. it = Rec(it, X)
      BY <3>1
    <3>. QED BY <3>2
  <2>. DEFINE it == CHOOSE it : it = Rec(it, X)
  <2>2. SumFunctionOnSet(f, X) = it[X]
    BY DEF SumFunctionOnSet, FoldFunctionOnSet, MapThenFoldSet
  <2>3. it = Rec(it, X)
    BY <2>1
  <2>. HIDE DEF it
  <2>4. \A s \in SUBSET X : it[s] = IF s = {} THEN 0 ELSE f[el(s)] + it[s \ {el(s)}]
    BY <2>3
  <2>5. AgreeStepwise(it, F, X)
    BY <1>8, <2>4, ZenonT(40) DEF AgreeStepwise
  <2>7. IsFiniteSet(X)
    BY FS_Subset
  <2>8. \A s \in SUBSET X : it[s] = F[s]
    BY <2>5, <2>7, FoldsUnique
  <2>. QED BY <2>2, <2>8
<1>10. \A X \in SUBSET S : F[X] \in Int
  BY <1>6 DEF D
<1>11. ASSUME NEW X \in SUBSET S, NEW x \in S \ X
       PROVE  SumFunctionOnSet(f, X \cup {x}) = f[x] + SumFunctionOnSet(f, X)
  <2>1. F[X \cup {x}] = G[<<g[x], F[X]>>] /\ g[x] = f[x] /\ f[x] \in Int /\ F[X] \in Int
    BY <1>2, <1>7, <1>10 DEF AnyOrder
  <2>2. F[X \cup {x}] = f[x] + F[X]
    BY <1>1, <2>1
  <2>. QED BY <1>9, <2>2
<1>. QED BY <1>8, <1>9, <1>10, <1>11
(* The same of a product. *)
ProductOf(f, S) == FoldFunctionOnSet(LAMBDA x, y : x * y, 1, f, S)

LEMMA Multiplying ==
  ASSUME NEW S, IsFiniteSet(S), NEW f, \A x \in S : f[x] \in Int
  PROVE  /\ ProductOf(f, {}) = 1
         /\ \A X \in SUBSET S : ProductOf(f, X) \in Int
         /\ \A X \in SUBSET S : \A x \in S \ X :
              ProductOf(f, X \cup {x}) = f[x] * ProductOf(f, X)
<1>. DEFINE D == Int
            G == [p \in D \X D |-> p[1] * p[2]]
            g == [x \in S |-> f[x]]
            el(s) == CHOOSE y \in s : TRUE
            Rec(it, X) == [s \in SUBSET X |-> IF s = {} THEN 1 ELSE f[el(s)] * it[s \ {el(s)}]]
<1>1. G \in [D \X D -> D] /\ \A x, y \in Int : G[<<x, y>>] = x * y
  OBVIOUS
<1>2. g \in [S -> D] /\ \A x \in S : g[x] = f[x]
  OBVIOUS
<1>3. Commutes(G, D)
  BY DEF Commutes
<1>4. 1 \in D
  OBVIOUS
<1>5. \A s : s /= {} => el(s) \in s
  OBVIOUS
<1>. HIDE DEF D, G, g
<1>6. PICK F \in [SUBSET S -> D] : IsFold(F, S, 1, g, G)
  BY <1>1, <1>2, <1>4, FoldsExist
<1>7. AnyOrder(F, S, g, G)
  BY <1>1, <1>2, <1>3, <1>4, <1>6, FoldsAnyOrder
<1>8. F[{}] = 1 /\ \A s \in SUBSET S : s /= {} => F[s] = f[el(s)] * F[s \ {el(s)}]
  <2>1. F[{}] = 1
    BY <1>6 DEF IsFold
  <2>. SUFFICES ASSUME NEW s \in SUBSET S, s /= {}
                PROVE  F[s] = f[el(s)] * F[s \ {el(s)}]
    BY <2>1
  <2>2. F[s] = G[<<g[el(s)], F[s \ {el(s)}]>>]
    BY <1>6 DEF IsFold
  <2>3. el(s) \in S
    BY <1>5
  <2>. HIDE DEF el
  <2>4. F[s \ {el(s)}] \in Int /\ g[el(s)] = f[el(s)] /\ f[el(s)] \in Int
    BY <1>2, <1>6, <2>3 DEF D
  <2>. QED BY <1>1, <2>2, <2>4
<1>9. ASSUME NEW X \in SUBSET S PROVE ProductOf(f, X) = F[X]
  <2>1. \E it : it = Rec(it, X)
    <3>. DEFINE it == [s \in SUBSET X |-> F[s]]
    <3>1. \A s \in SUBSET X : it[s] = IF s = {} THEN 1 ELSE f[el(s)] * it[s \ {el(s)}]
      BY <1>8
    <3>2. it = Rec(it, X)
      BY <3>1
    <3>. QED BY <3>2
  <2>. DEFINE it == CHOOSE it : it = Rec(it, X)
  <2>2. ProductOf(f, X) = it[X]
    BY DEF ProductOf, FoldFunctionOnSet, MapThenFoldSet
  <2>3. it = Rec(it, X)
    BY <2>1
  <2>. HIDE DEF it
  <2>4. \A s \in SUBSET X : it[s] = IF s = {} THEN 1 ELSE f[el(s)] * it[s \ {el(s)}]
    BY <2>3
  <2>5. AgreeStepwise(it, F, X)
    BY <1>8, <2>4, ZenonT(40) DEF AgreeStepwise
  <2>7. IsFiniteSet(X)
    BY FS_Subset
  <2>8. \A s \in SUBSET X : it[s] = F[s]
    BY <2>5, <2>7, FoldsUnique
  <2>. QED BY <2>2, <2>8
<1>10. \A X \in SUBSET S : F[X] \in Int
  BY <1>6 DEF D
<1>11. ASSUME NEW X \in SUBSET S, NEW x \in S \ X
       PROVE  ProductOf(f, X \cup {x}) = f[x] * ProductOf(f, X)
  <2>1. F[X \cup {x}] = G[<<g[x], F[X]>>] /\ g[x] = f[x] /\ f[x] \in Int /\ F[X] \in Int
    BY <1>2, <1>7, <1>10 DEF AnyOrder
  <2>2. F[X \cup {x}] = f[x] * F[X]
    BY <1>1, <2>1
  <2>. QED BY <1>9, <2>2
<1>. QED BY <1>8, <1>9, <1>10, <1>11

-----------------------------------------------------------------------------
(* A finite set of naturals has a greatest element. *)
LEMMA Greatest ==
  ASSUME NEW S \in SUBSET Nat, IsFiniteSet(S), S /= {}
  PROVE  Max(S) \in S /\ \A y \in S : y <= Max(S)
<1>. DEFINE T == {X \in SUBSET S : X /= {} => \E m \in X : \A y \in X : m >= y}
<1>1. {} \in T
  OBVIOUS
<1>2. ASSUME NEW X \in SUBSET S, NEW x \in S \ X, X \in T PROVE X \cup {x} \in T
  <2>1. CASE X = {}
    BY <2>1
  <2>2. CASE X /= {}
    <3>1. PICK m \in X : \A y \in X : m >= y
      BY <1>2, <2>2
    <3>2. m \in Nat /\ x \in Nat /\ X \subseteq Nat
      OBVIOUS
    <3>3. CASE x >= m
      <4>1. \A y \in X \cup {x} : x >= y
        BY <3>1, <3>2, <3>3
      <4>. QED BY <4>1
    <3>4. CASE m >= x
      <4>1. \A y \in X \cup {x} : m >= y
        BY <3>1, <3>2, <3>4
      <4>. QED BY <4>1
    <3>. QED BY <3>2, <3>3, <3>4
  <2>. QED BY <2>1, <2>2
<1>3. S \in T
  <2>1. SUBSET S \subseteq T
    <3>. HIDE DEF T
    <3>. QED BY <1>1, <1>2, FiniteInduction
  <2>. QED BY <2>1
<1>4. PICK m \in S : \A y \in S : m >= y
  BY <1>3
<1>5. Max(S) \in S /\ \A y \in S : Max(S) >= y
  BY <1>4 DEF Max
<1>. QED BY <1>5

(* before is a linear order of S. *)
Orders(before, S) ==
  /\ \A a \in S : <<a, a>> \notin before
  /\ \A a, b \in S : a = b \/ <<a, b>> \in before \/ <<b, a>> \in before
  /\ \A a, b, c \in S : <<a, b>> \in before /\ <<b, c>> \in before => <<a, c>> \in before

(* How many of S come before each of its elements. *)
Ranks(S, before) == [a \in S |-> Cardinality({b \in S : <<b, a>> \in before}) + 1]

(* A linear order gives the elements of a finite set the places 1, 2, ... *)
LEMMA Ranking ==
  ASSUME NEW S, IsFiniteSet(S), NEW before, Orders(before, S)
  PROVE  Ranks(S, before) \in Bijection(S, 1..Cardinality(S))
<1>. DEFINE p == Ranks(S, before)
            n == Cardinality(S)
            Preds(a) == {b \in S : <<b, a>> \in before}
<1>1. \A a \in S : IsFiniteSet(Preds(a)) /\ Cardinality(Preds(a)) \in Nat
  <2>1. \A a \in S : Preds(a) \in SUBSET S
    OBVIOUS
  <2>. HIDE DEF Preds
  <2>2. \A a \in S : IsFiniteSet(Preds(a))
    BY <2>1, FS_Subset
  <2>. QED BY <2>2, FS_CardinalityType
<1>2. n \in Nat
  BY FS_CardinalityType
<1>3. p = [a \in S |-> Cardinality(Preds(a)) + 1]
  BY DEF Ranks
<1>4. \A a \in S : Cardinality(Preds(a)) + 1 \in 1..n
  <2>. SUFFICES ASSUME NEW a \in S PROVE Cardinality(Preds(a)) + 1 \in 1..n
    OBVIOUS
  <2>1. IsFiniteSet(S \ {a}) /\ Cardinality(S \ {a}) = n - 1
    BY FS_RemoveElement
  <2>2. Preds(a) \in SUBSET (S \ {a})
    BY DEF Orders
  <2>3. Cardinality(Preds(a)) <= Cardinality(S \ {a})
    <3>. HIDE DEF Preds
    <3>. QED BY <2>1, <2>2, FS_Subset
  <2>. HIDE DEF Preds, n
  <2>. QED BY <1>1, <1>2, <2>1, <2>3
<1>5. \A a, b \in S : <<a, b>> \in before => Cardinality(Preds(a)) < Cardinality(Preds(b))
  <2>. SUFFICES ASSUME NEW a \in S, NEW b \in S, <<a, b>> \in before
                PROVE  Cardinality(Preds(a)) < Cardinality(Preds(b))
    OBVIOUS
  <2>1. Preds(a) \in SUBSET Preds(b) /\ Preds(a) /= Preds(b)
    BY DEF Orders
  <2>. HIDE DEF Preds
  <2>2. Cardinality(Preds(a)) <= Cardinality(Preds(b)) /\ Cardinality(Preds(a)) /= Cardinality(Preds(b))
    BY <1>1, <2>1, FS_Subset
  <2>. QED BY <1>1, <2>2
<1>. HIDE DEF p, n, Preds
<1>6. p \in [S -> 1..n] /\ \A a \in S : p[a] = Cardinality(Preds(a)) + 1
  BY <1>3, <1>4
<1>7. IsInjective(p)
  <2>. SUFFICES ASSUME NEW a \in S, NEW b \in S, p[a] = p[b] PROVE a = b
    BY <1>6 DEF IsInjective
  <2>1. Cardinality(Preds(a)) = Cardinality(Preds(b))
    <3>. DEFINE i == Cardinality(Preds(a))
                j == Cardinality(Preds(b))
    <3>1. i + 1 = j + 1
      BY <1>6
    <3>2. i \in Nat /\ j \in Nat
      BY <1>1
    <3>. HIDE DEF i, j
    <3>3. i = j
      BY <3>1, <3>2
    <3>. QED BY <3>3 DEF i, j
  <2>2. a = b \/ <<a, b>> \in before \/ <<b, a>> \in before
    BY DEF Orders
  <2>3. Cardinality(Preds(a)) \in Nat /\ Cardinality(Preds(b)) \in Nat
    BY <1>1
  <2>4. ~(<<a, b>> \in before) /\ ~(<<b, a>> \in before)
    BY <1>5, <2>1, <2>3
  <2>. QED BY <2>2, <2>4
<1>8. p \in Injection(S, 1..n)
  BY <1>6, <1>7 DEF Injection
<1>9. IsFiniteSet(1..n) /\ Cardinality(1..n) = n
  BY <1>2, FS_Interval
<1>10. p \in Surjection(S, 1..n)
  BY <1>8, <1>9, FS_Injection DEF n
<1>. QED BY <1>8, <1>10 DEF Bijection, p, n
=============================================================================
