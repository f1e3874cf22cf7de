---------------------------- MODULE PagingProofs ----------------------------
(***************************************************************************)
(* What Paging's operators return, for any list: the facts about lists,     *)
(* pages and filters that the proofs about the two adapters rest on.        *)
(* What the recursive function of Without computes is shown by induction    *)
(* over the length of the list; the principle itself (Induction) follows    *)
(* from the well-foundedness of < on the natural numbers, since an          *)
(* induction theorem with a predicate as its parameter is out of the        *)
(* provers' reach.                                                          *)
(***************************************************************************)
EXTENDS Paging, FiniteSetTheorems, TLAPS

(* Induction, for the set of numbers that have a property. *)
LEMMA Induction ==
  ASSUME NEW S \in SUBSET Nat, 0 \in S, \A n \in S : n + 1 \in S
  PROVE  S = Nat
<1> DEFINE R == OpToRel(<, Nat)
           T == Nat \ S
<1>1. SUFFICES ASSUME T # {} PROVE FALSE
  OBVIOUS
<1>2. PICK x \in T : \A y \in T : ~(<<y, x>> \in R)
  <2> HIDE DEF R
  <2>1. IsWellFoundedOn(R, Nat)
    BY NatLessThanWellFounded DEF R
  <2> QED
    BY <2>1, <1>1, WFMin
<1>3. x \in Nat /\ x # 0 /\ x \notin S
  BY <1>2
<1>4. x - 1 \in Nat /\ (x - 1) + 1 = x /\ x - 1 < x
  BY <1>3
<1>5. <<x - 1, x>> \in R
  BY <1>3, <1>4 DEF OpToRel
<1>6. x - 1 \in S
  BY <1>2, <1>4, <1>5
<1> QED
  BY <1>3, <1>4, <1>6
-----------------------------------------------------------------------------
(* The elements of longer lists. *)
LEMMA AppendIsSet ==
  ASSUME NEW T, NEW s \in Seq(T), NEW e \in T
  PROVE  ToSet(Append(s, e)) = ToSet(s) \cup {e}
<1>1. DOMAIN Append(s, e) = DOMAIN s \cup {Len(s) + 1}
  OBVIOUS
<1>2. \A i \in DOMAIN s : Append(s, e)[i] = s[i]
  OBVIOUS
<1>3. Append(s, e)[Len(s) + 1] = e
  OBVIOUS
<1> QED
  BY <1>1, <1>2, <1>3 DEF ToSet

LEMMA ConcatIsSeq ==
  ASSUME NEW T, NEW s \in Seq(T), NEW t \in Seq(T)
  PROVE  s \o t \in Seq(T) /\ Len(s \o t) = Len(s) + Len(t) /\ Len(s) \in Nat /\ Len(t) \in Nat
OBVIOUS

LEMMA ConcatIsSet ==
  ASSUME NEW T, NEW s \in Seq(T), NEW t \in Seq(T)
  PROVE  ToSet(s \o t) = ToSet(s) \cup ToSet(t)
<1>1. \A i \in DOMAIN s : i \in DOMAIN (s \o t) /\ (s \o t)[i] = s[i]
  OBVIOUS
<1>2. \A i \in DOMAIN t : Len(s) + i \in DOMAIN (s \o t) /\ (s \o t)[Len(s) + i] = t[i]
  OBVIOUS
<1>3. ASSUME NEW i \in DOMAIN (s \o t)
      PROVE  \/ i \in DOMAIN s /\ (s \o t)[i] = s[i]
             \/ \E j \in DOMAIN t : (s \o t)[i] = t[j]
  <2>1. CASE i <= Len(s)
    BY <2>1
  <2>2. CASE ~(i <= Len(s))
    <3>1. i - Len(s) \in DOMAIN t /\ (s \o t)[i] = t[i - Len(s)]
      BY <2>2
    <3> QED
      BY <3>1
  <2> QED
    BY <2>1, <2>2
<1>4. ASSUME NEW x \in ToSet(s) \cup ToSet(t) PROVE x \in ToSet(s \o t)
  BY <1>1, <1>2 DEF ToSet
<1>5. ASSUME NEW x \in ToSet(s \o t) PROVE x \in ToSet(s) \cup ToSet(t)
  BY <1>3 DEF ToSet
<1> QED
  BY <1>4, <1>5

(* Two lists without repetitions and without a common element make one. *)
LEMMA ConcatIsInjective ==
  ASSUME NEW T, NEW s \in Seq(T), NEW t \in Seq(T),
         IsInjective(s), IsInjective(t), ToSet(s) \cap ToSet(t) = {}
  PROVE  IsInjective(s \o t)
<1> DEFINE u == s \o t
<1>0. u = s \o t
  OBVIOUS
<1> HIDE DEF u
<1>1. \A i \in DOMAIN u : \/ i \in DOMAIN s /\ u[i] = s[i]
                          \/ i - Len(s) \in DOMAIN t /\ u[i] = t[i - Len(s)] /\ i \in Int
  <2> TAKE i \in DOMAIN u
  <2>1. CASE i <= Len(s)
    BY <1>0, <2>1
  <2>2. CASE ~(i <= Len(s))
    BY <1>0, <2>2
  <2> QED
    BY <2>1, <2>2
<1>2. \A i \in DOMAIN s, j \in DOMAIN t : s[i] # t[j]
  BY DEF ToSet
<1> SUFFICES ASSUME NEW i \in DOMAIN u, NEW j \in DOMAIN u, u[i] = u[j] PROVE i = j
  BY DEF IsInjective, u
<1>3. CASE i \in DOMAIN s /\ u[i] = s[i] /\ j \in DOMAIN s /\ u[j] = s[j]
  BY <1>3 DEF IsInjective
<1>4. CASE /\ i - Len(s) \in DOMAIN t /\ u[i] = t[i - Len(s)] /\ i \in Int
           /\ j - Len(s) \in DOMAIN t /\ u[j] = t[j - Len(s)] /\ j \in Int
  <2>1. i - Len(s) = j - Len(s)
    BY <1>4 DEF IsInjective
  <2> QED
    BY <1>4, <2>1
<1> QED
  BY <1>1, <1>2, <1>3, <1>4
-----------------------------------------------------------------------------
(* f is the recursive function of Without up to n. *)
Keeps(f, s, S, n) ==
  f = [i \in 0..n |-> IF i = 0 THEN <<>>
                      ELSE IF s[i] \in S THEN f[i - 1] ELSE Append(f[i - 1], s[i])]

(* There is such a function. *)
LEMMA KeepsExists ==
  ASSUME NEW s, NEW S, NEW n \in Nat
  PROVE  \E f : Keeps(f, s, S, n)
<1> DEFINE I == {k \in Nat : \E f : Keeps(f, s, S, k)}
<1>1. 0 \in I
  <2>1. Keeps([i \in 0..0 |-> <<>>], s, S, 0)
    BY DEF Keeps
  <2> QED
    BY <2>1
<1>2. ASSUME NEW k \in I PROVE k + 1 \in I
  <2>1. PICK f : Keeps(f, s, S, k)
    OBVIOUS
  <2> DEFINE g == [i \in 0..(k + 1) |->
                    IF i <= k THEN f[i]
                    ELSE IF s[i] \in S THEN f[i - 1] ELSE Append(f[i - 1], s[i])]
             h == [i \in 0..(k + 1) |->
                    IF i = 0 THEN <<>>
                    ELSE IF s[i] \in S THEN g[i - 1] ELSE Append(g[i - 1], s[i])]
  <2>2. \A i \in 0..k : g[i] = f[i]
    OBVIOUS
  <2>3. g[k + 1] = IF s[k + 1] \in S THEN f[k] ELSE Append(f[k], s[k + 1])
    OBVIOUS
  <2>4. \A i \in 0..k : f[i] = IF i = 0 THEN <<>>
                               ELSE IF s[i] \in S THEN f[i - 1] ELSE Append(f[i - 1], s[i])
    BY <2>1 DEF Keeps
  <2>5. DOMAIN g = 0..(k + 1) /\ g = [i \in 0..(k + 1) |-> g[i]]
    OBVIOUS
  <2> HIDE DEF g
  <2>6. ASSUME NEW i \in 0..(k + 1) PROVE g[i] = h[i]
    <3>1. CASE i = k + 1
      <4>1. g[k] = f[k] /\ k + 1 # 0 /\ (k + 1) - 1 = k
        BY <2>2
      <4> QED
        BY <3>1, <4>1, <2>3
    <3>2. CASE i \in 0..k
      <4>1. i # 0 => i - 1 \in 0..k
        BY <3>2
      <4>2. i # 0 => g[i - 1] = f[i - 1]
        BY <4>1, <2>2
      <4> QED
        BY <3>2, <4>2, <2>2, <2>4
    <3> QED
      BY <3>1, <3>2
  <2>7. DOMAIN h = 0..(k + 1) /\ h = [i \in 0..(k + 1) |-> h[i]]
    OBVIOUS
  <2>8. g = h
    <3> HIDE DEF h
    <3> QED
      BY <2>5, <2>6, <2>7
  <2> QED
    <3>1. Keeps(g, s, S, k + 1)
      BY <2>8 DEF Keeps
    <3>2. k + 1 \in Nat
      OBVIOUS
    <3> HIDE DEF h
    <3> QED
      BY <3>1, <3>2
<1>3. I = Nat
  <2> HIDE DEF I
  <2>1. I \in SUBSET Nat
    BY DEF I
  <2> QED
    BY <1>1, <1>2, <2>1, Induction
<1> QED
  BY <1>3

(* Without is its last value. *)
LEMMA WithoutIs ==
  ASSUME NEW s, NEW S, Len(s) \in Nat
  PROVE  \E f : Keeps(f, s, S, Len(s)) /\ Without(s, S) = f[Len(s)]
<1> DEFINE F == CHOOSE f : Keeps(f, s, S, Len(s))
<1>1. Keeps(F, s, S, Len(s))
  BY KeepsExists
<1>2. Without(s, S) = F[Len(s)]
  BY DEF Without, Keeps
<1> QED
  BY <1>1, <1>2

(* Every value of that function, step by step. *)
LEMMA KeptStep ==
  ASSUME NEW f, NEW s, NEW S, NEW n \in Nat, Keeps(f, s, S, n)
  PROVE  /\ f[0] = <<>>
         /\ \A i \in 1..n : f[i] = IF s[i] \in S THEN f[i - 1] ELSE Append(f[i - 1], s[i])
<1>1. \A i \in 0..n : f[i] = IF i = 0 THEN <<>>
                             ELSE IF s[i] \in S THEN f[i - 1] ELSE Append(f[i - 1], s[i])
  BY DEF Keeps
<1> QED
  BY <1>1

(* What is kept is kept in Seq(T), and is the elements outside S. *)
LEMMA KeptIs ==
  ASSUME NEW T, NEW s \in Seq(T), NEW S, NEW f, Keeps(f, s, S, Len(s)), NEW n \in 0..Len(s)
  PROVE  /\ f[n] \in Seq(T) /\ Len(f[n]) <= n
         /\ \A x : x \in ToSet(f[n]) <=> \E i \in 1..n : x = s[i] /\ x \notin S
<1> DEFINE P(k) == k <= Len(s) =>
                     /\ f[k] \in Seq(T) /\ Len(f[k]) <= k
                     /\ \A x : x \in ToSet(f[k]) <=> \E i \in 1..k : x = s[i] /\ x \notin S
           I == {k \in Nat : P(k)}
<1>1. 0 \in I
  <2>1. f[0] = <<>>
    BY KeptStep
  <2>2. <<>> \in Seq(T) /\ Len(<<>>) = 0 /\ \A x : x \notin ToSet(<<>>)
    BY DEF ToSet
  <2>3. \A i : i \notin 1..0
    OBVIOUS
  <2>4. P(0)
    BY <2>1, <2>2, <2>3
  <2> QED
    BY <2>4
<1>2. ASSUME NEW k \in I PROVE k + 1 \in I
  <2> SUFFICES ASSUME k + 1 <= Len(s) PROVE P(k + 1)
    OBVIOUS
  <2>1. k \in Nat /\ k + 1 \in 1..Len(s) /\ (k + 1) - 1 = k /\ k <= Len(s) /\ s[k + 1] \in T
    OBVIOUS
  <2>2. f[k + 1] = IF s[k + 1] \in S THEN f[k] ELSE Append(f[k], s[k + 1])
    BY <2>1, KeptStep
  <2>3. /\ f[k] \in Seq(T) /\ Len(f[k]) <= k
        /\ \A x : x \in ToSet(f[k]) <=> \E i \in 1..k : x = s[i] /\ x \notin S
    BY <2>1
  <2>4. \A x : (\E i \in 1..(k + 1) : x = s[i] /\ x \notin S) <=>
               (\E i \in 1..k : x = s[i] /\ x \notin S) \/ (x = s[k + 1] /\ x \notin S)
    <3>1. 1..(k + 1) = 1..k \cup {k + 1}
      BY <2>1
    <3> QED
      BY <3>1
  <2>5. CASE s[k + 1] \in S
    <3>1. f[k + 1] = f[k]
      BY <2>2, <2>5
    <3>2. Len(f[k]) <= k + 1
      BY <2>3, <2>1
    <3> QED
      BY <3>1, <3>2, <2>3, <2>4, <2>5
  <2>6. CASE s[k + 1] \notin S
    <3>1. f[k + 1] = Append(f[k], s[k + 1])
      BY <2>2, <2>6
    <3>2. f[k + 1] \in Seq(T) /\ Len(f[k + 1]) <= k + 1
      BY <3>1, <2>1, <2>3
    <3>3. \A x : x \in ToSet(f[k + 1]) <=> x \in ToSet(f[k]) \/ x = s[k + 1]
      BY <3>1, <2>1, <2>3, AppendIsSet
    <3> QED
      BY <3>2, <3>3, <2>3, <2>4, <2>6
  <2> QED
    BY <2>5, <2>6
<1>3. I = Nat
  <2> HIDE DEF I
  <2>1. I \in SUBSET Nat
    BY DEF I
  <2> QED
    BY <1>1, <1>2, <2>1, Induction
<1>4. P(n)
  <2> HIDE DEF P
  <2> QED
    BY <1>3
<1>5. n <= Len(s)
  OBVIOUS
<1> QED
  BY <1>4, <1>5

(* Without removes exactly the elements of the set. *)
LEMMA WithoutIsSet ==
  ASSUME NEW T, NEW s \in Seq(T), NEW S
  PROVE  /\ Without(s, S) \in Seq(T) /\ Len(Without(s, S)) <= Len(s)
         /\ ToSet(Without(s, S)) = ToSet(s) \ S
<1>1. PICK f : Keeps(f, s, S, Len(s)) /\ Without(s, S) = f[Len(s)]
  BY WithoutIs
<1>2. Len(s) \in 0..Len(s)
  OBVIOUS
<1>3. /\ f[Len(s)] \in Seq(T) /\ Len(f[Len(s)]) <= Len(s)
      /\ \A x : x \in ToSet(f[Len(s)]) <=> \E i \in 1..Len(s) : x = s[i] /\ x \notin S
  BY <1>1, <1>2, KeptIs
<1>4. \A x : x \in ToSet(s) <=> \E i \in 1..Len(s) : x = s[i]
  BY DEF ToSet
<1> QED
  BY <1>1, <1>3, <1>4
-----------------------------------------------------------------------------
(* The smaller of two numbers. *)
LEMMA MinOfTwo ==
  ASSUME NEW a \in Int, NEW b \in Int
  PROVE  Min({a, b}) = IF a <= b THEN a ELSE b
<1> DEFINE m == IF a <= b THEN a ELSE b
           P(x) == x \in {a, b} /\ \A y \in {a, b} : x <= y
<1>1. P(m)
  OBVIOUS
<1>2. \A x : P(x) => x = m
  OBVIOUS
<1>3. Min({a, b}) = CHOOSE x : P(x)
  BY Zenon DEF Min
<1> HIDE DEF P, m
<1>4. P(CHOOSE x : P(x))
  BY <1>1, Zenon
<1>5. Min({a, b}) = m
  BY <1>2, <1>3, <1>4, Zenon
<1> QED
  BY <1>5 DEF m

(* The beginning of a list. *)
LEMMA PrefixIs ==
  ASSUME NEW T, NEW s \in Seq(T), NEW m \in 0..Len(s)
  PROVE  /\ SubSeq(s, 1, m) \in Seq(T) /\ Len(SubSeq(s, 1, m)) = m
         /\ \A i \in 1..m : i \in 1..Len(s) /\ SubSeq(s, 1, m)[i] = s[i]
         /\ IsInjective(s) => IsInjective(SubSeq(s, 1, m))
         /\ ToSet(SubSeq(s, 1, m)) \subseteq ToSet(s)
<1> DEFINE p == SubSeq(s, 1, m)
<1>1. p \in Seq(T) /\ Len(p) = m /\ DOMAIN p = 1..m
  OBVIOUS
<1>2. \A i \in 1..m : i \in 1..Len(s) /\ p[i] = s[i]
  OBVIOUS
<1>a. DOMAIN s = 1..Len(s)
  OBVIOUS
<1> HIDE DEF p
<1>3. IsInjective(s) => IsInjective(p)
  BY <1>1, <1>2, <1>a DEF IsInjective
<1>4. ToSet(p) \subseteq ToSet(s)
  BY <1>1, <1>2, <1>a DEF ToSet
<1> QED
  BY <1>1, <1>2, <1>3, <1>4 DEF p

(* A page that is cut to what is missing of L entries. *)
LEMMA CutIs ==
  ASSUME NEW T, NEW rec \in Seq(T), NEW nodes \in Seq(T), NEW L \in Nat, Len(rec) < L, IsInjective(nodes)
  PROVE  LET q == SubSeq(nodes, 1, Min({L - Len(rec), Len(nodes)}))
         IN  /\ q \in Seq(T) /\ ToSet(q) \subseteq ToSet(nodes) /\ IsInjective(q)
             /\ rec \o q \in Seq(T) /\ Len(rec \o q) <= L /\ (Len(rec \o q) < L => q = nodes)
<1> DEFINE m == Min({L - Len(rec), Len(nodes)})
           q == SubSeq(nodes, 1, m)
<1>1. Len(rec) \in Nat /\ Len(nodes) \in Nat
  OBVIOUS
<1>2. m = IF L - Len(rec) <= Len(nodes) THEN L - Len(rec) ELSE Len(nodes)
  BY <1>1, MinOfTwo
<1> HIDE DEF m
<1>3. m \in 0..Len(nodes) /\ m <= L - Len(rec) /\ (m < L - Len(rec) => m = Len(nodes))
  BY <1>1, <1>2
<1>4. q \in Seq(T) /\ Len(q) = m /\ IsInjective(q) /\ ToSet(q) \subseteq ToSet(nodes)
  BY <1>3, PrefixIs
<1>5. m = Len(nodes) => q = nodes
  OBVIOUS
<1> HIDE DEF q
<1>6. rec \o q \in Seq(T) /\ Len(rec \o q) = Len(rec) + Len(q)
  BY <1>4, ConcatIsSeq, Zenon
<1>7. Len(rec) + m <= L /\ (Len(rec) + m < L => m = Len(nodes))
  BY <1>1, <1>3
<1>8. Len(rec \o q) = Len(rec) + m
  BY <1>4, <1>6, Zenon
<1>9. Len(rec \o q) <= L /\ (Len(rec \o q) < L => q = nodes)
  BY <1>5, <1>7, <1>8, Zenon
<1> QED
  BY <1>4, <1>6, <1>9, Zenon DEF q, m

(* The number of entries on the pages before page n. *)
Before(n, per) == (n - 1) * per

LEMMA BeforeIs ==
  ASSUME NEW n \in Nat \ {0}, NEW per \in Nat \ {0}
  PROVE  /\ Before(n, per) \in Nat /\ n * per = Before(n, per) + per /\ Before(1, per) = 0
         /\ Before(n + 1, per) = Before(n, per) + per
BY DEF Before

(* The length of a page of a list of length l, after K entries of it. *)
PageLen(l, K, per) == IF l <= K THEN 0 ELSE IF l < K + per THEN l - K ELSE per

(* Page n of a list: its length and its entries. *)
LEMMA PageIs ==
  ASSUME NEW T, NEW s \in Seq(T), NEW n \in Nat \ {0}, NEW per \in Nat \ {0}
  PROVE  LET K == Before(n, per)
             p == pageOf(s, n, per)
         IN  /\ p \in Seq(T)
             /\ Len(p) = PageLen(Len(s), K, per)
             /\ \A j \in 1..Len(p) : K + j \in 1..Len(s) /\ p[j] = s[K + j]
<1> DEFINE K == Before(n, per)
           p == pageOf(s, n, per)
           e == IF K + per <= Len(s) THEN K + per ELSE Len(s)
<1>1. K \in Nat /\ n * per = K + per
  BY BeforeIs
<1>2. Min({n * per, Len(s)}) = e
  BY <1>1, MinOfTwo
<1>3. p = SubSeq(s, K + 1, e)
  BY <1>2 DEF pageOf, Before
<1> HIDE DEF K, p
<1>4. e \in Nat /\ e <= Len(s) /\ Len(s) \in Nat
  BY <1>1
<1>5. CASE Len(s) <= K
  <2>1. e = Len(s) /\ e < K + 1
    BY <1>1, <1>4, <1>5
  <2>2. p = <<>>
    BY <1>1, <1>3, <1>4, <2>1
  <2>3. p \in Seq(T) /\ Len(p) = 0
    BY <2>2
  <2> QED
    BY <1>1, <1>5, <2>3 DEF K, p, PageLen
<1>6. CASE ~(Len(s) <= K)
  <2> HIDE DEF e
  <2>1. K + 1 \in 1..Len(s) /\ e \in (K + 1)..Len(s)
    BY <1>1, <1>4, <1>6 DEF e
  <2>2. /\ p \in Seq(T) /\ Len(p) = e - K
        /\ \A j \in 1..(e - K) : K + j \in 1..Len(s) /\ p[j] = s[K + j]
    <3>1. p \in Seq(T) /\ Len(p) = e - (K + 1) + 1
      BY <1>1, <1>3, <2>1
    <3>2. \A j \in 1..(e - (K + 1) + 1) : p[j] = s[(K + 1) + j - 1]
      BY <1>1, <1>3, <2>1
    <3>3. e - (K + 1) + 1 = e - K
      BY <1>1, <1>4
    <3>4. \A j \in 1..(e - K) : K + j \in 1..Len(s) /\ (K + 1) + j - 1 = K + j
      BY <1>1, <1>4, <2>1
    <3> QED
      BY <3>1, <3>2, <3>3, <3>4
  <2>3. e - K = IF Len(s) < K + per THEN Len(s) - K ELSE per
    BY <1>1, <1>4 DEF e
  <2> QED
    BY <1>1, <1>6, <2>2, <2>3 DEF K, p, PageLen
<1> QED
  BY <1>5, <1>6

LEMMA PageLength ==
  ASSUME NEW m \in Nat, NEW l \in Nat, NEW K \in Nat, NEW per \in Nat \ {0},
         m = PageLen(l, K, per)
  PROVE  /\ m <= per /\ \A j \in 1..m : K < K + j /\ K + j <= K + per
         /\ \A i \in 1..l : K < i /\ i <= K + per => i - K \in 1..m /\ K + (i - K) = i
         /\ m < per => l < K + per
         /\ m = 0 => l <= K
BY DEF PageLen

(* The entries of a page are those of its part of the list. *)
LEMMA PageIsSet ==
  ASSUME NEW T, NEW s \in Seq(T), NEW n \in Nat \ {0}, NEW per \in Nat \ {0}
  PROVE  LET K == Before(n, per)
             p == pageOf(s, n, per)
         IN  /\ p \in Seq(T) /\ Len(p) <= per /\ (Len(p) < per => Len(s) < K + per)
             /\ p = <<>> => Len(s) <= K
             /\ \A x : x \in ToSet(p) <=> \E i \in 1..Len(s) : K < i /\ i <= K + per /\ x = s[i]
             /\ IsInjective(s) => IsInjective(p)
<1> DEFINE K == Before(n, per)
           p == pageOf(s, n, per)
<1>1. K \in Nat
  BY BeforeIs
<1>2. p \in Seq(T)
  BY PageIs, Zenon
<1>b. Len(p) = PageLen(Len(s), K, per)
  BY PageIs, Zenon
<1>c. \A j \in 1..Len(p) : K + j \in 1..Len(s) /\ p[j] = s[K + j]
  BY PageIs
<1>3. /\ Len(p) = PageLen(Len(s), K, per)
      /\ \A j \in 1..Len(p) : K + j \in 1..Len(s) /\ p[j] = s[K + j]
  BY <1>b, <1>c, Zenon
<1> HIDE DEF K, p
<1>4. Len(s) \in Nat /\ Len(p) \in Nat
  BY <1>2
<1>5. /\ Len(p) <= per /\ \A j \in 1..Len(p) : K < K + j /\ K + j <= K + per
      /\ \A i \in 1..Len(s) : K < i /\ i <= K + per => i - K \in 1..Len(p) /\ K + (i - K) = i
      /\ Len(p) < per => Len(s) < K + per
      /\ Len(p) = 0 => Len(s) <= K
  BY <1>1, <1>3, <1>4, PageLength, Zenon
<1>a. \A x : x \in ToSet(p) <=> \E j \in 1..Len(p) : x = p[j]
  BY <1>2 DEF ToSet
<1>6. ASSUME NEW x \in ToSet(p) PROVE \E i \in 1..Len(s) : K < i /\ i <= K + per /\ x = s[i]
  <2>1. PICK j \in 1..Len(p) : x = p[j]
    BY <1>a
  <2>2. K + j \in 1..Len(s) /\ x = s[K + j]
    BY <1>3, <2>1, Zenon
  <2>3. K < K + j /\ K + j <= K + per
    BY <1>5, Zenon
  <2> QED
    BY <2>2, <2>3, Zenon
<1>7. ASSUME NEW i \in 1..Len(s), K < i, i <= K + per PROVE s[i] \in ToSet(p)
  <2>1. i - K \in 1..Len(p) /\ K + (i - K) = i
    BY <1>5, <1>7, Zenon
  <2>2. p[i - K] = s[i]
    BY <1>3, <2>1, Zenon
  <2> QED
    BY <1>a, <2>1, <2>2, Zenon
<1>8. ASSUME IsInjective(s), NEW i \in 1..Len(p), NEW j \in 1..Len(p), p[i] = p[j] PROVE i = j
  <2>1. K + i \in 1..Len(s) /\ K + j \in 1..Len(s) /\ s[K + i] = s[K + j]
    BY <1>3, <1>8, Zenon
  <2>a. DOMAIN s = 1..Len(s)
    OBVIOUS
  <2>2. K + i = K + j
    BY <1>8, <2>1, <2>a, Zenon DEF IsInjective
  <2>3. i \in Int /\ j \in Int /\ K \in Int
    BY <1>1, <1>4
  <2> QED
    BY <2>2, <2>3
<1>9. IsInjective(s) => IsInjective(p)
  <2>1. DOMAIN p = 1..Len(p)
    BY <1>2
  <2> QED
    BY <1>8, <2>1, Zenon DEF IsInjective
<1>10. p = <<>> => Len(s) <= K
  <2>1. Len(<<>>) = 0
    OBVIOUS
  <2> QED
    BY <1>5, <2>1, Zenon
<1> QED
  BY <1>2, <1>5, <1>6, <1>7, <1>9, <1>10, Zenon DEF K, p

(* A list from which one entry is gone. *)
LEMMA RemoveAtIs ==
  ASSUME NEW T, NEW s \in Seq(T), NEW k \in DOMAIN s
  PROVE  LET r == RemoveAt(s, k)
         IN  /\ r \in Seq(T) /\ Len(r) = Len(s) - 1
             /\ \A i \in 1..Len(r) :
                  /\ i \in 1..Len(s) /\ i + 1 \in 1..Len(s)
                  /\ r[i] = IF i < k THEN s[i] ELSE s[i + 1]
<1> DEFINE a == SubSeq(s, 1, k - 1)
           b == SubSeq(s, k + 1, Len(s))
           r == RemoveAt(s, k)
<1>1. r = a \o b
  BY DEF RemoveAt
<1>2. k \in 1..Len(s) /\ Len(s) \in Nat
  OBVIOUS
<1>3. a \in Seq(T) /\ Len(a) = k - 1 /\ \A i \in 1..(k - 1) : a[i] = s[i]
  BY <1>2
<1>4. b \in Seq(T) /\ Len(b) = Len(s) - k /\ \A i \in 1..(Len(s) - k) : b[i] = s[k + i]
  BY <1>2
<1> HIDE DEF a, b, r
<1>5. r \in Seq(T) /\ Len(r) = Len(s) - 1
  BY <1>1, <1>2, <1>3, <1>4
<1>6. ASSUME NEW i \in 1..Len(r)
      PROVE  /\ i \in 1..Len(s) /\ i + 1 \in 1..Len(s)
             /\ r[i] = IF i < k THEN s[i] ELSE s[i + 1]
  <2>1. i \in 1..Len(s) /\ i + 1 \in 1..Len(s) /\ i \in Nat
    BY <1>2, <1>5
  <2>2. CASE i < k
    <3>1. i \in 1..Len(a)
      BY <1>2, <1>3, <2>1, <2>2
    <3>2. r[i] = a[i]
      BY <1>1, <1>3, <1>4, <3>1
    <3> QED
      BY <1>3, <2>1, <2>2, <3>1, <3>2
  <2>3. CASE ~(i < k)
    <3>1. i - (k - 1) \in 1..Len(b) /\ k + (i - (k - 1)) = i + 1
      BY <1>2, <1>4, <1>5, <2>1, <2>3
    <3>2. r[i] = b[i - (k - 1)]
      <4>1. r[i] = b[i - Len(a)]
        <5>2. i - Len(a) \in 1..Len(b)
          BY <1>3, <3>1, Zenon
        <5>3. Len(a) \in Nat /\ Len(b) \in Nat /\ i \in Int
          BY <1>3, <1>4, <2>1
        <5>4. i \in 1..(Len(a) + Len(b)) /\ i > Len(a)
          BY <5>2, <5>3
        <5>5. a \in Seq(T) /\ b \in Seq(T)
          BY <1>3, <1>4
        <5>6. (a \o b)[i] = b[i - Len(a)]
          BY <5>4, <5>5
        <5> QED
          BY <1>1, <5>6
      <4> QED
        BY <4>1, <1>3
    <3> QED
      BY <1>4, <2>1, <2>3, <3>1, <3>2
  <2> QED
    BY <2>1, <2>2, <2>3
<1> QED
  BY <1>5, <1>6 DEF r

LEMMA RemoveAtKeeps ==
  ASSUME NEW T, NEW s \in Seq(T), NEW k \in DOMAIN s
  PROVE  /\ ToSet(RemoveAt(s, k)) \subseteq ToSet(s)
         /\ IsInjective(s) => IsInjective(RemoveAt(s, k))
<1> DEFINE r == RemoveAt(s, k)
           at(i) == IF i < k THEN i ELSE i + 1
<1>1. r \in Seq(T) /\ Len(r) = Len(s) - 1
  BY RemoveAtIs, Zenon
<1>2. \A i \in 1..Len(r) : /\ i \in 1..Len(s) /\ i + 1 \in 1..Len(s)
                           /\ r[i] = IF i < k THEN s[i] ELSE s[i + 1]
  BY RemoveAtIs
<1> HIDE DEF r
<1>3. \A i \in 1..Len(r) : at(i) \in 1..Len(s) /\ r[i] = s[at(i)]
  BY <1>2
<1>4. k \in Int /\ \A i, j \in Int : at(i) = at(j) => i = j
  OBVIOUS
<1>5. DOMAIN r = 1..Len(r) /\ \A i \in 1..Len(r) : i \in Int
  BY <1>1
<1>6. DOMAIN s = 1..Len(s)
  OBVIOUS
<1> HIDE DEF at
<1>7. ToSet(r) \subseteq ToSet(s)
  BY <1>3, <1>5, <1>6, Zenon DEF ToSet
<1>8. IsInjective(s) => IsInjective(r)
  BY <1>3, <1>4, <1>5, <1>6, Zenon DEF IsInjective
<1> QED
  BY <1>7, <1>8 DEF r

(* One more entry, at either end. *)
LEMMA OneMore ==
  ASSUME NEW T, NEW s \in Seq(T), NEW e \in T, IsInjective(s), e \notin ToSet(s)
  PROVE  IsInjective(Append(s, e)) /\ IsInjective(<<e>> \o s)
<1>1. <<e>> \in Seq(T) /\ ToSet(<<e>>) = {e} /\ IsInjective(<<e>>)
  BY DEF ToSet, IsInjective
<1>2. Append(s, e) = s \o <<e>>
  OBVIOUS
<1>3. IsInjective(s \o <<e>>)
  BY <1>1, ConcatIsInjective
<1>4. IsInjective(<<e>> \o s)
  BY <1>1, ConcatIsInjective
<1> QED
  BY <1>2, <1>3, <1>4
-----------------------------------------------------------------------------
(* Lists of numbers in ascending order. *)
Ascending(s) == \A i, j \in 1..Len(s) : i < j => s[i] < s[j]

LEMMA AscendingIsInjective ==
  ASSUME NEW s \in Seq(Nat), Ascending(s)
  PROVE  IsInjective(s)
<1> SUFFICES ASSUME NEW i \in 1..Len(s), NEW j \in 1..Len(s), s[i] = s[j] PROVE i = j
  BY DEF IsInjective
<1>1. s[i] \in Nat /\ s[j] \in Nat /\ i \in Int /\ j \in Int
  OBVIOUS
<1>2. ~(i < j) /\ ~(j < i)
  BY <1>1 DEF Ascending
<1> QED
  BY <1>1, <1>2

LEMMA AscendingConcat ==
  ASSUME NEW s \in Seq(Nat), NEW t \in Seq(Nat), Ascending(s), Ascending(t),
         \A x \in ToSet(s), y \in ToSet(t) : x < y
  PROVE  Ascending(s \o t)
<1> DEFINE u == s \o t
           m == Len(s)
<1>1. m \in Nat /\ Len(u) = m + Len(t) /\ Len(t) \in Nat
  OBVIOUS
<1>2. \A i \in 1..m : u[i] = s[i]
  OBVIOUS
<1>3. \A i \in 1..Len(u) : i > m => i - m \in 1..Len(t) /\ u[i] = t[i - m]
  OBVIOUS
<1>4. \A i \in 1..m, j \in 1..Len(t) : s[i] < t[j]
  BY DEF ToSet
<1> HIDE DEF u
<1> SUFFICES ASSUME NEW i \in 1..Len(u), NEW j \in 1..Len(u), i < j PROVE u[i] < u[j]
  BY DEF Ascending, u
<1>5. CASE j <= m
  <2>1. i \in 1..m /\ j \in 1..m
    BY <1>1, <1>5
  <2> QED
    BY <1>2, <2>1 DEF Ascending
<1>6. CASE i <= m /\ j > m
  <2>1. i \in 1..m /\ j - m \in 1..Len(t)
    BY <1>1, <1>3, <1>6
  <2> QED
    BY <1>2, <1>3, <1>4, <1>6, <2>1
<1>7. CASE i > m
  <2> HIDE DEF m
  <2>1. i - m \in 1..Len(t) /\ j - m \in 1..Len(t) /\ i - m < j - m /\ j > m
    BY <1>1, <1>3, <1>7
  <2>2. t[i - m] < t[j - m]
    BY <2>1 DEF Ascending
  <2> QED
    BY <1>3, <1>7, <2>1, <2>2
<1> QED
  BY <1>1, <1>5, <1>6, <1>7

LEMMA AscendingAppend ==
  ASSUME NEW s \in Seq(Nat), NEW e \in Nat, Ascending(s), \A x \in ToSet(s) : x < e
  PROVE  Ascending(Append(s, e))
<1>1. <<e>> \in Seq(Nat) /\ ToSet(<<e>>) = {e} /\ Ascending(<<e>>)
  BY DEF ToSet, Ascending
<1>2. Append(s, e) = s \o <<e>>
  OBVIOUS
<1>3. Ascending(s \o <<e>>)
  BY <1>1, AscendingConcat
<1> QED
  BY <1>2, <1>3

LEMMA AscendingPrefix ==
  ASSUME NEW s \in Seq(Nat), NEW m \in 0..Len(s), Ascending(s)
  PROVE  Ascending(SubSeq(s, 1, m))
<1>1. Len(SubSeq(s, 1, m)) = m /\ \A i \in 1..m : i \in 1..Len(s) /\ SubSeq(s, 1, m)[i] = s[i]
  BY PrefixIs
<1> QED
  BY <1>1 DEF Ascending

LEMMA AscendingRemoveAt ==
  ASSUME NEW s \in Seq(Nat), NEW k \in DOMAIN s, Ascending(s)
  PROVE  Ascending(RemoveAt(s, k))
<1> DEFINE r == RemoveAt(s, k)
           at(i) == IF i < k THEN i ELSE i + 1
<1>1. r \in Seq(Nat)
  BY RemoveAtIs, Zenon
<1>2. \A i \in 1..Len(r) : /\ i \in 1..Len(s) /\ i + 1 \in 1..Len(s)
                           /\ r[i] = IF i < k THEN s[i] ELSE s[i + 1]
  BY RemoveAtIs
<1> HIDE DEF r
<1>3. \A i \in 1..Len(r) : at(i) \in 1..Len(s) /\ r[i] = s[at(i)]
  BY <1>2
<1>4. k \in Int /\ \A i, j \in Int : i < j => at(i) < at(j)
  OBVIOUS
<1>5. \A i \in 1..Len(r) : i \in Int
  BY <1>1
<1> HIDE DEF at
<1>6. Ascending(r)
  BY <1>3, <1>4, <1>5, Zenon DEF Ascending
<1> QED
  BY <1>6 DEF r

(* Without keeps the order of what it keeps. *)
LEMMA AscendingWithout ==
  ASSUME NEW s \in Seq(Nat), NEW S,
         \A i, j \in 1..Len(s) : i < j /\ s[i] \notin S /\ s[j] \notin S => s[i] < s[j]
  PROVE  Ascending(Without(s, S))
<1>1. PICK f : Keeps(f, s, S, Len(s)) /\ Without(s, S) = f[Len(s)]
  BY WithoutIs
<1> DEFINE P(k) == k <= Len(s) => Ascending(f[k])
           I == {k \in Nat : P(k)}
<1>2. 0 \in I
  <2>1. f[0] = <<>>
    BY <1>1, KeptStep
  <2>2. Ascending(<<>>)
    BY DEF Ascending
  <2> QED
    BY <2>1, <2>2
<1>3. ASSUME NEW k \in I PROVE k + 1 \in I
  <2> SUFFICES ASSUME k + 1 <= Len(s) PROVE Ascending(f[k + 1])
    OBVIOUS
  <2>1. /\ k \in Nat /\ k + 1 \in 1..Len(s) /\ (k + 1) - 1 = k /\ k \in 0..Len(s)
        /\ s[k + 1] \in Nat /\ Ascending(f[k])
    OBVIOUS
  <2>2. f[k + 1] = IF s[k + 1] \in S THEN f[k] ELSE Append(f[k], s[k + 1])
    BY <1>1, <2>1, KeptStep
  <2>3. /\ f[k] \in Seq(Nat)
        /\ \A x : x \in ToSet(f[k]) <=> \E i \in 1..k : x = s[i] /\ x \notin S
    BY <1>1, <2>1, KeptIs
  <2>4. CASE s[k + 1] \notin S
    <3>1. \A i \in 1..k : i \in 1..Len(s) /\ i < k + 1
      BY <2>1
    <3>2. ASSUME NEW x \in ToSet(f[k]) PROVE x < s[k + 1]
      <4>1. PICK i \in 1..k : x = s[i] /\ x \notin S
        BY <2>3
      <4>2. i \in 1..Len(s) /\ i < k + 1
        BY <3>1
      <4> QED
        BY <2>1, <2>4, <4>1, <4>2
    <3> QED
      BY <2>1, <2>2, <2>3, <2>4, <3>2, AscendingAppend
  <2> QED
    BY <2>1, <2>2, <2>4
<1>4. I = Nat
  <2> HIDE DEF I
  <2>1. I \in SUBSET Nat
    BY DEF I
  <2> QED
    BY <1>2, <1>3, <2>1, Induction
<1>5. Len(s) \in Nat /\ Len(s) <= Len(s)
  OBVIOUS
<1>6. P(Len(s))
  <2> HIDE DEF P
  <2> QED
    BY <1>4, <1>5
<1> QED
  BY <1>1, <1>5, <1>6
-----------------------------------------------------------------------------
(* A list read page by page, by offset: rec is what was read when the pages  *)
(* up to entry K were.  Reached: every entry of W before K was read.         *)
(* Untouched: nothing after K was.                                           *)
Reached(s, K, rec, W) == \A i \in 1..Len(s) : i <= K /\ s[i] \in W => s[i] \in ToSet(rec)
Untouched(s, K, rec) == \A i \in 1..Len(s) : i > K => s[i] \notin ToSet(rec)

(* One more page reaches one more page's entries, whatever was read before. *)
LEMMA ReachedMore ==
  ASSUME NEW s \in Seq(Nat), NEW rec \in Seq(Nat), NEW n \in Nat \ {0}, NEW per \in Nat \ {0}, NEW W,
         Reached(s, Before(n, per), rec, W)
  PROVE  Reached(s, Before(n, per) + per, rec \o pageOf(s, n, per), W)
<1> DEFINE K == Before(n, per)
           p == pageOf(s, n, per)
<1>b. p \in Seq(Nat)
  BY PageIsSet, Zenon
<1>c. \A x : x \in ToSet(p) <=> \E i \in 1..Len(s) : K < i /\ i <= K + per /\ x = s[i]
  BY PageIsSet
<1>1. p \in Seq(Nat) /\ \A x : x \in ToSet(p) <=> \E i \in 1..Len(s) : K < i /\ i <= K + per /\ x = s[i]
  BY <1>b, <1>c, Zenon
<1>2. ToSet(rec \o p) = ToSet(rec) \cup ToSet(p)
  BY <1>1, ConcatIsSet
<1>3. K \in Nat
  BY BeforeIs
<1>a. \A i \in 1..Len(s) : i <= K /\ s[i] \in W => s[i] \in ToSet(rec)
  BY DEF Reached
<1> HIDE DEF K, p
<1>4. ASSUME NEW i \in 1..Len(s), i <= K + per, s[i] \in W PROVE s[i] \in ToSet(rec) \cup ToSet(p)
  <2>1. i <= K \/ K < i
    BY <1>3
  <2>2. CASE i <= K
    BY <1>4, <1>a, <2>2, Zenon
  <2>3. CASE K < i
    BY <1>1, <1>4, <2>3, Zenon
  <2> QED
    BY <2>1, <2>2, <2>3
<1> QED
  BY <1>2, <1>4, Zenon DEF Reached, K, p

(* One more page, or a part of it, holds nothing that was read before. *)
LEMMA UntouchedMore ==
  ASSUME NEW s \in Seq(Nat), NEW rec \in Seq(Nat), NEW n \in Nat \ {0}, NEW per \in Nat \ {0},
         NEW q \in Seq(Nat), ToSet(q) \subseteq ToSet(pageOf(s, n, per)), IsInjective(q),
         IsInjective(s), IsInjective(rec), Untouched(s, Before(n, per), rec)
  PROVE  IsInjective(rec \o q) /\ Untouched(s, Before(n, per) + per, rec \o q)
<1> DEFINE K == Before(n, per)
           p == pageOf(s, n, per)
<1>1. \A x : x \in ToSet(p) <=> \E i \in 1..Len(s) : K < i /\ i <= K + per /\ x = s[i]
  BY PageIsSet
<1>2. ToSet(rec \o q) = ToSet(rec) \cup ToSet(q)
  BY ConcatIsSet
<1>3. K \in Nat
  BY BeforeIs
<1>a. \A i \in 1..Len(s) : i > K => s[i] \notin ToSet(rec)
  BY DEF Untouched
<1>b. ToSet(q) \subseteq ToSet(p)
  OBVIOUS
<1> HIDE DEF K, p
<1>4. ToSet(rec) \cap ToSet(q) = {}
  <2> SUFFICES ASSUME NEW x \in ToSet(q) PROVE x \notin ToSet(rec)
    OBVIOUS
  <2>1. PICK i \in 1..Len(s) : K < i /\ x = s[i]
    BY <1>1, <1>b, Zenon
  <2>2. i > K
    BY <2>1, <1>3
  <2> QED
    BY <1>a, <2>1, <2>2
<1>5. ASSUME NEW i \in 1..Len(s), i > K + per PROVE s[i] \notin ToSet(rec) \cup ToSet(q)
  <2>1. i > K /\ i \in Int
    BY <1>3, <1>5
  <2>2. s[i] \notin ToSet(rec)
    BY <1>a, <2>1
  <2>3. ASSUME s[i] \in ToSet(q) PROVE FALSE
    <3>1. PICK j \in 1..Len(s) : K < j /\ j <= K + per /\ s[i] = s[j]
      BY <1>1, <1>b, <2>3, Zenon
    <3>2. i = j
      BY <3>1 DEF IsInjective
    <3> QED
      BY <1>3, <1>5, <3>1, <3>2
  <2> QED
    BY <2>2, <2>3
<1>6. IsInjective(rec \o q)
  BY <1>4, ConcatIsInjective
<1> QED
  BY <1>2, <1>5, <1>6, Zenon DEF Untouched, K

(* What is beyond the end of the list is all of it. *)
LEMMA ReachedAll ==
  ASSUME NEW s \in Seq(Nat), NEW rec, NEW W, NEW K \in Int, Len(s) <= K, Reached(s, K, rec, W)
  PROVE  ToSet(s) \cap W \subseteq ToSet(rec)
<1> SUFFICES ASSUME NEW i \in 1..Len(s), s[i] \in W PROVE s[i] \in ToSet(rec)
  BY DEF ToSet
<1>1. i <= K
  OBVIOUS
<1> QED
  BY <1>1 DEF Reached

(* Others' insertions move the entries of W further from the beginning, and *)
(* their deletions the rest closer to it.                                    *)
LEMMA ReachedInsert ==
  ASSUME NEW s \in Seq(Nat), NEW rec, NEW W, NEW K \in Int, NEW e \in Nat, e \notin W,
         Reached(s, K, rec, W)
  PROVE  Reached(Append(s, e), K, rec, W) /\ Reached(<<e>> \o s, K, rec, W)
<1>1. ASSUME NEW i \in 1..Len(Append(s, e)), i <= K, Append(s, e)[i] \in W
      PROVE  Append(s, e)[i] \in ToSet(rec)
  <2>1. i \in 1..Len(s) \/ i = Len(s) + 1
    OBVIOUS
  <2>2. i # Len(s) + 1
    BY <1>1
  <2>3. i \in 1..Len(s) /\ Append(s, e)[i] = s[i]
    BY <2>1, <2>2
  <2> QED
    BY <1>1, <2>3 DEF Reached
<1>2. ASSUME NEW i \in 1..Len(<<e>> \o s), i <= K, (<<e>> \o s)[i] \in W
      PROVE  (<<e>> \o s)[i] \in ToSet(rec)
  <2>1. i = 1 \/ (i - 1 \in 1..Len(s) /\ (<<e>> \o s)[i] = s[i - 1])
    OBVIOUS
  <2>2. i # 1
    BY <1>2
  <2>3. i - 1 <= K
    BY <1>2
  <2> QED
    BY <1>2, <2>1, <2>2, <2>3 DEF Reached
<1> QED
  BY <1>1, <1>2 DEF Reached

LEMMA UntouchedDelete ==
  ASSUME NEW s \in Seq(Nat), NEW rec, NEW K \in Nat, NEW k \in DOMAIN s, Untouched(s, K, rec)
  PROVE  Untouched(RemoveAt(s, k), K, rec)
<1> DEFINE r == RemoveAt(s, k)
<1>1. r \in Seq(Nat)
  BY RemoveAtIs, Zenon
<1>2. \A i \in 1..Len(r) : /\ i \in 1..Len(s) /\ i + 1 \in 1..Len(s)
                           /\ r[i] = IF i < k THEN s[i] ELSE s[i + 1]
  BY RemoveAtIs
<1> HIDE DEF r
<1>3. ASSUME NEW i \in 1..Len(r), i > K PROVE r[i] \notin ToSet(rec)
  <2>1. i \in Int /\ i + 1 > K
    BY <1>1, <1>3
  <2>2. s[i] \notin ToSet(rec) /\ s[i + 1] \notin ToSet(rec)
    BY <1>2, <1>3, <2>1 DEF Untouched
  <2> QED
    BY <1>2, <2>2
<1> QED
  BY <1>3 DEF Untouched, r
(* What was read counts only as a set. *)
LEMMA ReachedBy ==
  ASSUME NEW s, NEW K, NEW rec, NEW more, NEW W, Reached(s, K, rec, W),
         ToSet(rec) \cap W \subseteq ToSet(more)
  PROVE  Reached(s, K, more, W)
BY DEF Reached

(* A list whose every entry is greater than the one before it. *)
LEMMA AscendingSteps ==
  ASSUME NEW s \in Seq(Nat), NEW least \in Nat,
         \A i \in 1..Len(s) : s[i] > IF i = 1 THEN least ELSE s[i - 1]
  PROVE  Ascending(s) /\ \A i \in 1..Len(s) : least < s[i] /\ s[i] <= s[Len(s)]
<1>0. Len(s) \in Nat /\ \A i \in 1..Len(s) : s[i] \in Nat
  OBVIOUS
<1>a. \A i \in 1..Len(s) : (i = 1 => least < s[i]) /\ (i # 1 => s[i - 1] < s[i])
  BY <1>0
<1> DEFINE P(d) == \A i, j \in 1..Len(s) : i < j /\ j <= i + d => s[i] < s[j]
           Q(d) == \A i \in 1..Len(s) : i <= d => least < s[i]
<1>1. P(0) /\ Q(0)
  BY <1>0
<1>2. ASSUME NEW d \in Nat, P(d), Q(d) PROVE P(d + 1) /\ Q(d + 1)
  <2>1. ASSUME NEW i \in 1..Len(s), NEW j \in 1..Len(s), i < j, j <= i + (d + 1) PROVE s[i] < s[j]
    <3>1. CASE j <= i + d
      BY <1>2, <2>1, <3>1
    <3>2. CASE j = i + (d + 1) /\ d # 0
      <4>1. j - 1 \in 1..Len(s) /\ i < j - 1 /\ j - 1 <= i + d /\ j # 1
        BY <1>0, <2>1, <3>2
      <4>2. s[i] < s[j - 1] /\ s[j - 1] < s[j]
        BY <1>2, <1>a, <2>1, <4>1
      <4> QED
        BY <1>0, <2>1, <4>1, <4>2
    <3>3. CASE j = i + 1
      <4>1. j # 1 /\ j - 1 = i
        BY <2>1, <3>3
      <4> QED
        BY <1>a, <2>1, <4>1
    <3> QED
      BY <1>2, <2>1, <3>1, <3>2, <3>3
  <2>2. ASSUME NEW i \in 1..Len(s), i <= d + 1 PROVE least < s[i]
    <3>1. CASE i <= d
      BY <1>2, <2>2, <3>1
    <3>2. CASE i = 1
      BY <1>a, <2>2, <3>2
    <3>3. CASE i = d + 1 /\ i # 1
      <4>1. i - 1 \in 1..Len(s) /\ i - 1 <= d
        BY <1>0, <1>2, <2>2, <3>3
      <4>2. least < s[i - 1] /\ s[i - 1] < s[i]
        BY <1>2, <1>a, <2>2, <3>3, <4>1
      <4> QED
        BY <1>0, <2>2, <4>1, <4>2
    <3> QED
      BY <1>2, <2>2, <3>1, <3>2, <3>3
  <2> QED
    BY <2>1, <2>2
<1>3. \A d \in Nat : P(d) /\ Q(d)
  <2> HIDE DEF P, Q
  <2> DEFINE S == {d \in Nat : P(d) /\ Q(d)}
  <2>1. S \in SUBSET Nat /\ 0 \in S /\ \A d \in S : d + 1 \in S
    BY <1>1, <1>2
  <2> HIDE DEF S
  <2>2. S = Nat
    BY <2>1, Induction
  <2> QED
    BY <2>2 DEF S
<1>4. P(Len(s)) /\ Q(Len(s))
  BY <1>0, <1>3
<1>5. Ascending(s)
  <2> SUFFICES ASSUME NEW i \in 1..Len(s), NEW j \in 1..Len(s), i < j PROVE s[i] < s[j]
    BY DEF Ascending
  <2>1. j <= i + Len(s)
    BY <1>0
  <2> QED
    BY <1>4, <2>1
<1>6. ASSUME NEW i \in 1..Len(s) PROVE least < s[i] /\ s[i] <= s[Len(s)]
  <2>1. i <= Len(s) /\ Len(s) \in 1..Len(s) /\ (i = Len(s) \/ i < Len(s))
    BY <1>0, <1>6
  <2>2. s[i] <= s[Len(s)]
    <3>1. CASE i = Len(s)
      BY <1>0, <1>6, <3>1
    <3>2. CASE i < Len(s)
      BY <1>0, <1>5, <1>6, <2>1, <3>2 DEF Ascending
    <3> QED
      BY <2>1, <3>1, <3>2
  <2> QED
    BY <1>4, <2>1, <2>2
<1> QED
  BY <1>5, <1>6

(* The number of different entries of a list. *)
LEMMA ListCardinality ==
  ASSUME NEW s \in Seq(Nat)
  PROVE  /\ IsFiniteSet(ToSet(s)) /\ Cardinality(ToSet(s)) <= Len(s)
         /\ IsInjective(s) => Cardinality(ToSet(s)) = Len(s)
<1>1. Len(s) \in Nat /\ DOMAIN s = 1..Len(s) /\ s \in [1..Len(s) -> Nat]
  OBVIOUS
<1>2. IsFiniteSet(1..Len(s)) /\ Cardinality(1..Len(s)) = Len(s)
  <2>1. 1 \in Int /\ Len(s) \in Int
    BY <1>1
  <2>2. IsFiniteSet(1..Len(s)) /\ Cardinality(1..Len(s)) = IF 1 > Len(s) THEN 0 ELSE Len(s) - 1 + 1
    BY <2>1, FS_Interval
  <2> QED
    BY <1>1, <2>2
<1>3. s \in Surjection(1..Len(s), ToSet(s))
  BY <1>1 DEF Surjection, ToSet
<1>4. IsInjective(s) => s \in Injection(1..Len(s), ToSet(s))
  BY <1>1, <1>3 DEF IsInjective, Injection, Surjection
<1> DEFINE D == 1..Len(s)
<1> HIDE DEF D
<1>5. /\ IsFiniteSet(ToSet(s)) /\ Cardinality(ToSet(s)) <= Cardinality(D)
      /\ Cardinality(ToSet(s)) = Cardinality(D) <=> s \in Injection(D, ToSet(s))
  <2>1. s \in Surjection(D, ToSet(s)) /\ IsFiniteSet(D)
    BY <1>2, <1>3 DEF D
  <2> QED
    BY <2>1, FS_Surjection
<1> QED
  BY <1>2, <1>4, <1>5 DEF D
=============================================================================
