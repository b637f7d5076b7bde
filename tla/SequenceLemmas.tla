--------------------------- MODULE SequenceLemmas ---------------------------
(***************************************************************************)
(* What InsertAt() and RemoveAt(), the changes of a container in the order *)
(* of its by_index view, do with the elements of a sequence; and induction *)
(* and recursion up to a bound, for the operators that walk along a path   *)
(* or from link to link.                                                   *)
(*                                                                         *)
(* The induction is stated for a set and the recursion for a function that *)
(* is given as data, so that neither has an operator as a parameter.       *)
(***************************************************************************)
EXTENDS Integers, SequencesExt, SequenceTheorems, FiniteSetTheorems,
        WellFoundedInduction, TLAPS

\* A function on 1..n is a sequence of length n.
LEMMA FunctionIsSeq ==
    ASSUME NEW S, NEW n \in Nat, NEW f \in [1..n -> S]
    PROVE  f \in Seq(S) /\ Len(f) = n
OBVIOUS

\* A sequence whose elements are in S.
LEMMA SeqOfElements ==
    ASSUME NEW S, NEW T, NEW s \in Seq(T), \A i \in 1..Len(s) : s[i] \in S
    PROVE  s \in Seq(S)
<1>1. Len(s) \in Nat /\ s \in [1..Len(s) -> T]
    BY LenProperties
<1>2. s \in [1..Len(s) -> S]
    BY <1>1
<1> QED
    BY <1>1, <1>2, FunctionIsSeq

\* InsertAt() at a position of the sequence, or just behind it.
LEMMA InsertAtElements ==
    ASSUME NEW S, NEW s \in Seq(S), NEW i \in 1..(Len(s) + 1), NEW e \in S
    PROVE  /\ InsertAt(s, i, e) \in Seq(S)
           /\ DOMAIN InsertAt(s, i, e) = 1..(Len(s) + 1)
           /\ \A j \in 1..(Len(s) + 1) :
                InsertAt(s, i, e)[j] = IF j < i THEN s[j] ELSE IF j = i THEN e ELSE s[j - 1]
<1> DEFINE l == SubSeq(s, 1, i - 1)
           m == <<e>>
           r == SubSeq(s, i, Len(s))
           lm == l \o m
           all == lm \o r
<1>0. Len(s) \in Nat /\ i \in Int
    BY LenProperties
<1>1. l \in Seq(S) /\ Len(l) = i - 1 /\ \A j \in 1..(i - 1) : l[j] = s[j]
    BY <1>0, SubSeqProperties, ElementOfSeq
<1>2. r \in Seq(S) /\ Len(r) = Len(s) - i + 1
      /\ \A j \in 1..(Len(s) - i + 1) : r[j] = s[i + j - 1]
    BY <1>0, SubSeqProperties, ElementOfSeq
<1>3. m \in Seq(S) /\ Len(m) = 1 /\ m[1] = e
    OBVIOUS
<1>4. InsertAt(s, i, e) = all
    BY DEF InsertAt
<1> HIDE DEF l, m, r
<1>5. /\ lm \in Seq(S) /\ Len(lm) = Len(l) + Len(m)
      /\ \A j \in 1..(Len(l) + Len(m)) : lm[j] = IF j <= Len(l) THEN l[j] ELSE m[j - Len(l)]
    BY <1>1, <1>3, ConcatProperties
<1>6. Len(lm) = i /\ lm[i] = e /\ \A j \in 1..(i - 1) : lm[j] = s[j]
    BY <1>0, <1>1, <1>3, <1>5
<1> HIDE DEF lm
<1>7. /\ all \in Seq(S) /\ Len(all) = Len(lm) + Len(r)
      /\ \A j \in 1..(Len(lm) + Len(r)) : all[j] = IF j <= Len(lm) THEN lm[j] ELSE r[j - Len(lm)]
  <2>1. lm \in Seq(S) /\ r \in Seq(S)
    BY <1>2, <1>5
  <2> QED BY <2>1, ConcatProperties
<1> HIDE DEF all
<1>8. Len(all) = Len(s) + 1 /\ DOMAIN all = 1..(Len(s) + 1)
    BY <1>0, <1>2, <1>6, <1>7
<1>9. ASSUME NEW j \in 1..(Len(s) + 1)
      PROVE  all[j] = IF j < i THEN s[j] ELSE IF j = i THEN e ELSE s[j - 1]
  <2>1. all[j] = IF j <= i THEN lm[j] ELSE r[j - i]
    BY <1>0, <1>2, <1>6, <1>7
  <2>2. CASE j <= i
    BY <2>1, <2>2, <1>0, <1>6
  <2>3. CASE ~(j <= i)
    <3>1. j - i \in 1..(Len(s) - i + 1) /\ i + (j - i) - 1 = j - 1
      BY <2>3, <1>0
    <3>2. r[j - i] = s[i + (j - i) - 1]
      BY <3>1, <1>2
    <3> QED BY <2>1, <2>3, <3>1, <3>2, <1>0
  <2> QED BY <2>2, <2>3
<1> QED BY <1>4, <1>7, <1>8, <1>9

LEMMA InsertAtValues ==
    ASSUME NEW S, NEW s \in Seq(S), NEW i \in 1..(Len(s) + 1), NEW e \in S
    PROVE  /\ DOMAIN InsertAt(s, i, e) = 1..(Len(s) + 1)
           /\ \A j \in 1..(Len(s) + 1) :
                InsertAt(s, i, e)[j] = IF j < i THEN s[j] ELSE IF j = i THEN e ELSE s[j - 1]
<1>1. /\ InsertAt(s, i, e) \in Seq(S)
      /\ DOMAIN InsertAt(s, i, e) = 1..(Len(s) + 1)
      /\ \A j \in 1..(Len(s) + 1) :
            InsertAt(s, i, e)[j] = IF j < i THEN s[j] ELSE IF j = i THEN e ELSE s[j - 1]
    BY InsertAtElements
<1> QED
    BY <1>1

\* The sequence is longer by one.
LEMMA InsertAtSeq ==
    ASSUME NEW S, NEW s \in Seq(S), NEW i \in 1..(Len(s) + 1), NEW e \in S
    PROVE  /\ InsertAt(s, i, e) \in Seq(S)
           /\ Len(InsertAt(s, i, e)) = Len(s) + 1
<1>1. InsertAt(s, i, e) \in Seq(S) /\ DOMAIN InsertAt(s, i, e) = 1..(Len(s) + 1)
    BY InsertAtElements
<1> QED
    BY <1>1, LenProperties

\* RemoveAt() at a position of the sequence.
LEMMA RemoveAtSeq ==
    ASSUME NEW S, NEW s \in Seq(S), NEW i \in 1..Len(s)
    PROVE  /\ RemoveAt(s, i) \in Seq(S)
           /\ Len(RemoveAt(s, i)) = Len(s) - 1
           /\ DOMAIN RemoveAt(s, i) = 1..(Len(s) - 1)
           /\ \A j \in 1..(Len(s) - 1) :
                RemoveAt(s, i)[j] = IF j < i THEN s[j] ELSE s[j + 1]
<1> DEFINE l == SubSeq(s, 1, i - 1)
           r == SubSeq(s, i + 1, Len(s))
           lr == l \o r
<1>1. /\ l \in Seq(S)
      /\ Len(l) = i - 1
      /\ \A j \in 1..(i - 1) : l[j] = s[j]
    BY SubSeqProperties, ElementOfSeq, LenProperties
<1>2. /\ r \in Seq(S)
      /\ Len(r) = Len(s) - i
      /\ \A j \in 1..(Len(s) - i) : r[j] = s[i + j]
    BY SubSeqProperties, ElementOfSeq, LenProperties
<1>3. RemoveAt(s, i) = lr
    BY DEF RemoveAt
<1> HIDE DEF l, r
<1>4. /\ lr \in Seq(S)
      /\ Len(lr) = Len(l) + Len(r)
      /\ \A j \in 1..(Len(l) + Len(r)) :
            lr[j] = IF j <= Len(l) THEN l[j] ELSE r[j - Len(l)]
    BY <1>1, <1>2, ConcatProperties
<1> HIDE DEF lr
<1>5. Len(s) \in Nat
    BY LenProperties
<1>6. ASSUME NEW j \in 1..(Len(s) - 1)
      PROVE  lr[j] = IF j < i THEN s[j] ELSE s[j + 1]
    <2>1. i \in Int /\ j \in Int /\ Len(l) + Len(r) = Len(s) - 1
        BY <1>1, <1>2, <1>5
    <2>2. lr[j] = IF j <= Len(l) THEN l[j] ELSE r[j - Len(l)]
        BY <1>4, <2>1
    <2>3. CASE j < i
        <3>1. j <= Len(l) /\ j \in 1..(i - 1)
            BY <1>1, <2>1, <2>3
        <3> QED
            BY <1>1, <2>2, <2>3, <3>1
    <2>4. CASE ~(j < i)
        <3>1. /\ ~(j <= Len(l))
              /\ j - Len(l) \in 1..(Len(s) - i)
              /\ i + (j - Len(l)) = j + 1
            BY <1>1, <1>5, <2>1, <2>4
        <3>2. r[j - Len(l)] = s[i + (j - Len(l))]
            BY <1>2, <3>1
        <3> QED
            BY <2>2, <2>4, <3>1, <3>2
    <2> QED
        BY <2>3, <2>4
<1> QED
    BY <1>1, <1>2, <1>3, <1>4, <1>5, <1>6

----------------------------------------------------------------------------
(* Induction and recursion. *)

\* Every non-empty set of numbers has a least one.
LEMMA LeastNumber ==
    ASSUME NEW T \in SUBSET Nat, T # {}
    PROVE  \E m \in T : \A k \in T : ~(k < m)
<1>1. PICK m \in T : \A k \in T : <<k, m>> \notin OpToRel(<, Nat)
    BY WFMin, NatLessThanWellFounded, Zenon
<1> QED
    BY <1>1, Zenon DEF OpToRel

\* Induction from 0 up to n: what 0 is in and no step leaves holds all numbers.
LEMMA BoundedInduction ==
    ASSUME NEW n \in Nat, NEW S, 0 \in S, \A i \in 0..(n - 1) : i \in S => i + 1 \in S
    PROVE  0..n \subseteq S
<1> DEFINE T == (0..n) \ S
<1> SUFFICES ASSUME T # {} PROVE FALSE
    OBVIOUS
<1>1. PICK m \in T : \A k \in T : ~(k < m)
    <2>1. T \in SUBSET Nat
        OBVIOUS
    <2> QED
        BY <2>1, LeastNumber
<1>2. m \in 0..n /\ m # 0
    OBVIOUS
<1>3. m - 1 \in 0..(n - 1) /\ m - 1 \in 0..n /\ m - 1 < m /\ (m - 1) + 1 = m
    BY <1>2
<1>4. m - 1 \in S
    BY <1>1, <1>3
<1> QED
    BY <1>3, <1>4

\* A function starts with a and step i takes f[i-1] to F[i][f[i-1]].
Recurs(n, T, a, F) ==
    \E f \in [0..n -> T] : f[0] = a /\ \A i \in 1..n : f[i] = F[i][f[i-1]]

\* Recursion from 0 up to n.
LEMMA BoundedRecursion ==
    ASSUME NEW n \in Nat, NEW T, NEW a \in T, NEW F \in [1..n -> [T -> T]]
    PROVE  Recurs(n, T, a, F)
<1> DEFINE Made(k) == \E f \in [0..k -> T] : f[0] = a /\ \A i \in 1..k : f[i] = F[i][f[i-1]]
           S == {k \in 0..n : Made(k)}
<1>1. Made(0)
    <2>1. /\ [i \in 0..0 |-> a] \in [0..0 -> T]
          /\ [i \in 0..0 |-> a][0] = a
          /\ 1..0 = {}
        OBVIOUS
    <2> QED
        BY <2>1
<1>2. ASSUME NEW k \in 0..(n - 1), Made(k)
      PROVE  Made(k + 1)
    <2>1. PICK f \in [0..k -> T] : f[0] = a /\ \A i \in 1..k : f[i] = F[i][f[i-1]]
        BY <1>2
    <2> DEFINE g == [i \in 0..(k + 1) |-> IF i = k + 1 THEN F[k+1][f[k]] ELSE f[i]]
    <2>2. k \in 0..k /\ k + 1 \in 1..n /\ (k + 1) - 1 = k
        OBVIOUS
    <2>3. g \in [0..(k + 1) -> T] /\ g[0] = a
        BY <2>1, <2>2
    <2>4. ASSUME NEW i \in 1..(k + 1)
          PROVE  g[i] = F[i][g[i-1]]
        <3>1. CASE i = k + 1
            BY <2>2, <3>1
        <3>2. CASE i # k + 1
            <4>1. i \in 1..k /\ i - 1 \in 0..k /\ i - 1 # k + 1
                BY <3>2
            <4>2. g[i] = f[i] /\ g[i-1] = f[i-1]
                BY <3>2, <4>1
            <4> QED
                BY <2>1, <4>1, <4>2
        <3> QED
            BY <3>1, <3>2
    <2> HIDE DEF g
    <2>5. \E h \in [0..(k + 1) -> T] :
            h[0] = a /\ \A i \in 1..(k + 1) : h[i] = F[i][h[i-1]]
        BY <2>3, <2>4
    <2> QED
        BY <2>5
<1> HIDE DEF Made
<1>3. 0 \in S /\ \A i \in 0..(n - 1) : i \in S => i + 1 \in S
    BY <1>1, <1>2
<1> HIDE DEF S
<1>4. 0..n \subseteq S
    BY <1>3, BoundedInduction
<1>5. n \in S
    BY <1>4
<1> QED
    BY <1>5 DEF S, Made, Recurs

\* n sets that only grow and have no more than n elements: one is as large as the next.
LEMMA ChainStops ==
    ASSUME NEW n \in Nat, NEW T, IsFiniteSet(T), Cardinality(T) <= n,
           NEW f \in [0..n -> SUBSET T], f[0] # {},
           \A d \in 1..n : f[d-1] \subseteq f[d]
    PROVE  \E d \in 1..n : f[d] = f[d-1]
<1> SUFFICES ASSUME \A d \in 1..n : f[d] # f[d-1] PROVE FALSE
    OBVIOUS
<1> DEFINE card(d) == Cardinality(f[d])
           S == {d \in 0..n : card(d) > d}
<1>1. ASSUME NEW d \in 0..n
      PROVE  f[d] \in SUBSET T /\ IsFiniteSet(f[d]) /\ card(d) \in Nat /\ card(d) <= n
    <2>1. f[d] \in SUBSET T
        OBVIOUS
    <2>2. IsFiniteSet(f[d]) /\ card(d) <= Cardinality(T)
        BY <2>1, FS_Subset
    <2>3. card(d) \in Nat /\ Cardinality(T) \in Nat
        BY <2>2, FS_CardinalityType
    <2> QED
        BY <2>1, <2>2, <2>3
<1>2. 0 \in S
    <2>1. 0 \in 0..n
        OBVIOUS
    <2>2. card(0) # 0
        BY <1>1, <2>1, FS_EmptySet
    <2> QED
        BY <1>1, <2>1, <2>2
<1>3. ASSUME NEW d \in 0..(n - 1), d \in S PROVE d + 1 \in S
    <2> DEFINE e == d + 1
    <2>1. e \in 1..n /\ e \in 0..n /\ e - 1 = d /\ e = d + 1 /\ d \in 0..n
        OBVIOUS
    <2> HIDE DEF e
    <2>2. f[d] \in SUBSET f[e] /\ f[d] # f[e]
        BY <2>1
    <2>3. card(d) <= card(e) /\ card(e) # card(d)
        BY <1>1, <2>1, <2>2, FS_Subset
    <2>4. card(d) \in Nat /\ card(e) \in Nat
        BY <1>1, <2>1
    <2>5. card(d) > d
        BY <1>3
    <2> HIDE DEF card
    <2> QED
        BY <2>1, <2>3, <2>4, <2>5
<1>4. 0..n \subseteq S
    <2> HIDE DEF S
    <2> QED
        BY <1>2, <1>3, BoundedInduction
<1>5. n \in 0..n /\ n \in S
    BY <1>4
<1>6. card(n) \in Nat /\ card(n) <= n /\ card(n) > n
    BY <1>1, <1>5
<1> QED
    BY <1>6
-----------------------------------------------------------------------------
(* Paths: a sequence in front of another one.                              *)

\* A path in front of another one, and what is left of it behind.
LEMMA PrefixConcat ==
    ASSUME NEW S, NEW p \in Seq(S), NEW q \in Seq(S)
    PROVE  /\ IsPrefix(p, p \o q)
           /\ SubSeq(p \o q, Len(p) + 1, Len(p \o q)) = q
<1> DEFINE x == p \o q
           r == SubSeq(x, Len(p) + 1, Len(x))
<1>1. /\ x \in Seq(S) /\ Len(x) = Len(p) + Len(q)
      /\ \A i \in 1..(Len(p) + Len(q)) : x[i] = IF i <= Len(p) THEN p[i] ELSE q[i - Len(p)]
    BY ConcatProperties
<1>2. Len(p) \in Nat /\ Len(q) \in Nat
    BY LenProperties
<1> HIDE DEF x
<1>3. \A i \in 1..Len(x) : x[i] \in S
    BY <1>1, ElementOfSeq
<1>4. /\ SubSeq(x, 1, Len(p)) \in Seq(S)
      /\ Len(SubSeq(x, 1, Len(p))) = Len(p)
      /\ \A i \in 1..Len(p) : SubSeq(x, 1, Len(p))[i] = x[i]
    <2>1. \A i \in 1..Len(p) : x[i] \in S
        BY <1>1, <1>2, <1>3
    <2> QED
        BY <1>2, <2>1, SubSeqProperties
<1>5. SubSeq(x, 1, Len(p)) = p
    BY <1>1, <1>2, <1>4, SeqEqual
<1>6. SubSeq(p, 1, Len(p)) = p
    BY SubSeqFull
<1>7. IsPrefix(p, x)
    BY <1>1, <1>2, <1>5, <1>6 DEF IsPrefix
<1>8. /\ r \in Seq(S)
      /\ Len(r) = Len(q)
      /\ \A i \in 1..Len(q) : r[i] = x[Len(p) + i]
    <2>1. \A i \in (Len(p) + 1)..Len(x) : x[i] \in S
        BY <1>1, <1>2, <1>3
    <2>2. /\ r \in Seq(S)
          /\ Len(r) = IF Len(p) + 1 <= Len(x) THEN Len(x) - (Len(p) + 1) + 1 ELSE 0
          /\ \A i \in 1..(Len(x) - (Len(p) + 1) + 1) : r[i] = x[(Len(p) + 1) + i - 1]
        BY <1>1, <1>2, <2>1, SubSeqProperties
    <2> HIDE DEF r
    <2>3. Len(x) - (Len(p) + 1) + 1 = Len(q)
        BY <1>1, <1>2
    <2>4. \A i \in 1..Len(q) : (Len(p) + 1) + i - 1 = Len(p) + i
        BY <1>2
    <2> QED
        BY <1>1, <1>2, <2>2, <2>3, <2>4
<1> HIDE DEF r
<1>9. \A i \in 1..Len(q) : r[i] = q[i]
    <2> TAKE i \in 1..Len(q)
    <2>1. Len(p) + i \in 1..(Len(p) + Len(q)) /\ ~(Len(p) + i <= Len(p)) /\ (Len(p) + i) - Len(p) = i
        BY <1>2
    <2> QED
        BY <1>1, <1>8, <2>1
<1>10. r = q
    BY <1>8, <1>9, SeqEqual
<1> QED
    BY <1>7, <1>10 DEF x, r

\* What is left of a sequence behind a prefix makes it up again.
LEMMA PrefixRest ==
    ASSUME NEW S, NEW p \in Seq(S), NEW x \in Seq(S), IsPrefix(p, x)
    PROVE  /\ SubSeq(x, Len(p) + 1, Len(x)) \in Seq(S)
           /\ x = p \o SubSeq(x, Len(p) + 1, Len(x))
           /\ Len(SubSeq(x, Len(p) + 1, Len(x))) = Len(x) - Len(p)
<1>1. Len(p) \in Nat /\ Len(x) \in Nat /\ Len(p) <= Len(x)
    BY LenProperties DEF IsPrefix
<1>2. SubSeq(x, 1, Len(p)) = p
    BY SubSeqFull DEF IsPrefix
<1>3. SubSeq(x, 1, Len(p)) \o SubSeq(x, Len(p) + 1, Len(x)) = SubSeq(x, 1, Len(x))
    <2>1. 1 \in 1..(Len(x) + 1) /\ Len(p) \in (1 - 1)..Len(x) /\ Len(x) \in Len(p)..Len(x)
        BY <1>1
    <2> QED
        BY <2>1, ConcatAdjacentSubSeq
<1>4. SubSeq(x, 1, Len(x)) = x
    BY SubSeqFull
<1>5. \A i \in (Len(p) + 1)..Len(x) : x[i] \in S
    BY <1>1, ElementOfSeq
<1>6. /\ SubSeq(x, Len(p) + 1, Len(x)) \in Seq(S)
      /\ Len(SubSeq(x, Len(p) + 1, Len(x))) = IF Len(p) + 1 <= Len(x) THEN Len(x) - (Len(p) + 1) + 1 ELSE 0
    BY <1>1, <1>5, SubSeqProperties
<1> DEFINE r == SubSeq(x, Len(p) + 1, Len(x))
<1>7. r \in Seq(S) /\ x = p \o r
    BY <1>2, <1>3, <1>4, <1>6
<1>8. Len(r) = Len(x) - Len(p)
    BY <1>1, <1>6
<1> QED
    BY <1>7, <1>8

\* Prefixes by their elements.
LEMMA PrefixElements ==
    ASSUME NEW S, NEW p \in Seq(S), NEW x \in Seq(S)
    PROVE  IsPrefix(p, x) <=> Len(p) <= Len(x) /\ \A i \in 1..Len(p) : p[i] = x[i]
<1>1. Len(p) \in Nat /\ Len(x) \in Nat /\ SubSeq(p, 1, Len(p)) = p
    BY LenProperties, SubSeqFull
<1>2. ASSUME Len(p) <= Len(x)
      PROVE  /\ SubSeq(x, 1, Len(p)) \in Seq(S)
             /\ Len(SubSeq(x, 1, Len(p))) = Len(p)
             /\ \A i \in 1..Len(p) : SubSeq(x, 1, Len(p))[i] = x[i]
    <2>1. \A i \in 1..Len(p) : x[i] \in S
        BY <1>1, <1>2, ElementOfSeq
    <2> QED
        BY <1>1, <2>1, SubSeqProperties
<1>3. ASSUME Len(p) <= Len(x), \A i \in 1..Len(p) : p[i] = x[i]
      PROVE  SubSeq(x, 1, Len(p)) = p
    BY <1>2, <1>3, SeqEqual
<1> QED
    BY <1>1, <1>2, <1>3 DEF IsPrefix

\* Prefixes are an order, and those of one sequence are a chain.
LEMMA PrefixOrder ==
    ASSUME NEW S
    PROVE  /\ \A p \in Seq(S) : IsPrefix(p, p) /\ IsPrefix(<<>>, p)
           /\ \A p, q, x \in Seq(S) : IsPrefix(p, q) /\ IsPrefix(q, x) => IsPrefix(p, x)
           /\ \A p, q, x \in Seq(S) :
                IsPrefix(p, x) /\ IsPrefix(q, x) /\ Len(p) <= Len(q) => IsPrefix(p, q)
           /\ \A p, q \in Seq(S) : IsPrefix(p, q) /\ Len(q) <= Len(p) => p = q
<1>1. \A p \in Seq(S) : Len(p) \in Nat /\ <<>> \in Seq(S) /\ Len(<<>>) = 0
    BY LenProperties
<1>2. ASSUME NEW p \in Seq(S) PROVE IsPrefix(p, p) /\ IsPrefix(<<>>, p)
    <2>1. IsPrefix(p, p)
        BY <1>1, PrefixElements
    <2>2. <<>> \in Seq(S) /\ Len(<<>>) <= Len(p) /\ \A i \in 1..Len(<<>>) : <<>>[i] = p[i]
        BY <1>1
    <2> QED
        BY <2>1, <2>2, PrefixElements
<1>3. ASSUME NEW p \in Seq(S), NEW q \in Seq(S), NEW x \in Seq(S), IsPrefix(p, q), IsPrefix(q, x)
      PROVE  IsPrefix(p, x)
    <2>1. Len(p) <= Len(q) /\ \A i \in 1..Len(p) : p[i] = q[i]
        BY <1>3, PrefixElements
    <2>2. Len(q) <= Len(x) /\ \A i \in 1..Len(q) : q[i] = x[i]
        BY <1>3, PrefixElements
    <2>3. Len(p) <= Len(x) /\ \A i \in 1..Len(p) : p[i] = x[i]
        BY <1>1, <2>1, <2>2
    <2> QED
        BY <2>3, PrefixElements
<1>4. ASSUME NEW p \in Seq(S), NEW q \in Seq(S), NEW x \in Seq(S),
             IsPrefix(p, x), IsPrefix(q, x), Len(p) <= Len(q)
      PROVE  IsPrefix(p, q)
    <2>1. \A i \in 1..Len(p) : p[i] = x[i]
        BY <1>4, PrefixElements
    <2>2. \A i \in 1..Len(q) : q[i] = x[i]
        BY <1>4, PrefixElements
    <2>3. \A i \in 1..Len(p) : p[i] = q[i]
        BY <1>1, <1>4, <2>1, <2>2
    <2> QED
        BY <1>4, <2>3, PrefixElements
<1>5. ASSUME NEW p \in Seq(S), NEW q \in Seq(S), IsPrefix(p, q), Len(q) <= Len(p)
      PROVE  p = q
    <2>1. Len(p) = Len(q) /\ \A i \in 1..Len(p) : p[i] = q[i]
        BY <1>1, <1>5, PrefixElements
    <2> QED
        BY <2>1, SeqEqual
<1> QED
    BY <1>2, <1>3, <1>4, <1>5

\* The path to the parent and the name behind it.
LEMMA FrontLast ==
    ASSUME NEW S, NEW p \in Seq(S), p # <<>>
    PROVE  /\ Front(p) \in Seq(S) /\ Last(p) \in S /\ Len(Front(p)) = Len(p) - 1
           /\ p = Append(Front(p), Last(p))
           /\ IsPrefix(Front(p), p)
           /\ \A i \in 1..(Len(p) - 1) : Front(p)[i] = p[i]
<1>1. Len(p) \in Nat \ {0}
    BY EmptySeq
<1>2. \A i \in 1..(Len(p) - 1) : p[i] \in S
    BY <1>1, ElementOfSeq
<1>3. /\ Front(p) \in Seq(S)
      /\ Len(Front(p)) = Len(p) - 1
      /\ \A i \in 1..(Len(p) - 1) : Front(p)[i] = p[i]
    <2>1. Len(p) - 1 \in Int /\ (Len(p) - 1) - 1 + 1 = Len(p) - 1
        BY <1>1
    <2>2. /\ SubSeq(p, 1, Len(p) - 1) \in Seq(S)
          /\ Len(SubSeq(p, 1, Len(p) - 1)) = IF 1 <= Len(p) - 1 THEN (Len(p) - 1) - 1 + 1 ELSE 0
          /\ \A i \in 1..((Len(p) - 1) - 1 + 1) : SubSeq(p, 1, Len(p) - 1)[i] = p[1 + i - 1]
        BY <1>2, <2>1, SubSeqProperties
    <2> QED
        BY <1>1, <2>1, <2>2 DEF Front
<1>4. Last(p) \in S /\ Last(p) = p[Len(p)]
    BY <1>1, ElementOfSeq DEF Last
<1>5. /\ Append(Front(p), Last(p)) \in Seq(S)
      /\ Len(Append(Front(p), Last(p))) = Len(p)
      /\ \A i \in 1..(Len(p) - 1) : Append(Front(p), Last(p))[i] = p[i]
      /\ Append(Front(p), Last(p))[Len(p)] = p[Len(p)]
    BY <1>1, <1>3, <1>4, AppendProperties
<1>6. p = Append(Front(p), Last(p))
    BY <1>1, <1>5, SeqEqual
<1>7. IsPrefix(Front(p), p)
    BY <1>1, <1>3, PrefixElements
<1> QED
    BY <1>3, <1>4, <1>6, <1>7

\* The parts of a sequence with one more element.
LEMMA AppendFront ==
    ASSUME NEW S, NEW p \in Seq(S), NEW c \in S
    PROVE  /\ Append(p, c) \in Seq(S) /\ Append(p, c) # <<>> /\ Len(Append(p, c)) = Len(p) + 1
           /\ Front(Append(p, c)) = p /\ Last(Append(p, c)) = c
           /\ IsPrefix(p, Append(p, c))
<1> DEFINE x == Append(p, c)
<1>1. /\ x \in Seq(S) /\ x # <<>> /\ Len(x) = Len(p) + 1 /\ Len(p) \in Nat
      /\ \A i \in 1..Len(p) : x[i] = p[i]
      /\ x[Len(p) + 1] = c
    BY AppendProperties, LenProperties
<1> HIDE DEF x
<1>2. /\ Front(x) \in Seq(S) /\ Len(Front(x)) = Len(x) - 1
      /\ \A i \in 1..(Len(x) - 1) : Front(x)[i] = x[i]
    BY <1>1, FrontLast
<1>3. Front(x) = p
    BY <1>1, <1>2, SeqEqual
<1>4. IsPrefix(p, x)
    BY <1>1, PrefixElements
<1> QED
    BY <1>1, <1>3, <1>4 DEF Last, x

\* A prefix of a path is the path itself or a prefix of that of the parent.
LEMMA PrefixFront ==
    ASSUME NEW S, NEW p \in Seq(S), NEW x \in Seq(S), IsPrefix(p, x), p # x
    PROVE  x # <<>> /\ IsPrefix(p, Front(x)) /\ Len(p) < Len(x)
<1>1. Len(p) <= Len(x) /\ \A i \in 1..Len(p) : p[i] = x[i]
    BY PrefixElements
<1>2. Len(p) \in Nat /\ Len(x) \in Nat
    BY LenProperties
<1>3. Len(p) < Len(x)
    <2> SUFFICES ASSUME Len(x) <= Len(p) PROVE FALSE
        BY <1>2
    <2> QED
        BY <1>1, <1>2, SeqEqual
<1>4. x # <<>>
    BY <1>2, <1>3, EmptySeq
<1>5. /\ Front(x) \in Seq(S) /\ Len(Front(x)) = Len(x) - 1
      /\ \A i \in 1..(Len(x) - 1) : Front(x)[i] = x[i]
    BY <1>4, FrontLast
<1>6. Len(p) <= Len(Front(x)) /\ \A i \in 1..Len(p) : p[i] = Front(x)[i]
    BY <1>1, <1>2, <1>3, <1>5
<1> QED
    BY <1>3, <1>4, <1>5, <1>6, PrefixElements

\* The first name behind a prefix.
LEMMA PrefixNext ==
    ASSUME NEW S, NEW p \in Seq(S), NEW x \in Seq(S), IsPrefix(p, x), p # x
    PROVE  /\ x[Len(p) + 1] \in S /\ Len(p) + 1 \in 1..Len(x)
           /\ IsPrefix(Append(p, x[Len(p) + 1]), x)
<1> DEFINE c == x[Len(p) + 1]
<1>1. Len(p) \in Nat /\ Len(x) \in Nat /\ Len(p) < Len(x)
    BY PrefixFront, LenProperties
<1>2. Len(p) + 1 \in 1..Len(x) /\ c \in S
    BY <1>1, ElementOfSeq
<1>3. \A i \in 1..Len(p) : p[i] = x[i]
    BY PrefixElements
<1>4. /\ Append(p, c) \in Seq(S) /\ Len(Append(p, c)) = Len(p) + 1
      /\ \A i \in 1..Len(p) : Append(p, c)[i] = p[i]
      /\ Append(p, c)[Len(p) + 1] = c
    BY <1>2, AppendProperties
<1>5. \A i \in 1..(Len(p) + 1) : Append(p, c)[i] = x[i]
    BY <1>1, <1>3, <1>4
<1>6. IsPrefix(Append(p, c), x)
    <2> DEFINE y == Append(p, c)
    <2>1. y \in Seq(S) /\ Len(y) = Len(p) + 1 /\ Len(y) <= Len(x) /\ \A i \in 1..Len(y) : y[i] = x[i]
        BY <1>1, <1>4, <1>5
    <2> HIDE DEF y
    <2>2. IsPrefix(y, x)
        BY <2>1, PrefixElements
    <2> QED
        BY <2>2 DEF y
<1> QED
    BY <1>2, <1>6

\* Concatenation.
LEMMA ConcatPaths ==
    ASSUME NEW S, NEW p \in Seq(S), NEW q \in Seq(S)
    PROVE  /\ p \o q \in Seq(S) /\ Len(p \o q) = Len(p) + Len(q)
           /\ p \o <<>> = p /\ <<>> \o p = p
           /\ p \o q = p <=> q = <<>>
           /\ \A r \in Seq(S) : (p \o q) \o r = p \o (q \o r)
           /\ \A r \in Seq(S) : p \o q = p \o r => q = r
           /\ \A r \in Seq(S) : IsPrefix(p \o q, p \o r) <=> IsPrefix(q, r)
           /\ \A c \in S : p \o Append(q, c) = Append(p \o q, c)
           /\ q # <<>> => p \o q # <<>> /\ Front(p \o q) = p \o Front(q) /\ Last(p \o q) = Last(q)
<1>0. Len(p) \in Nat /\ Len(q) \in Nat
    BY LenProperties
<1>1. p \o q \in Seq(S) /\ Len(p \o q) = Len(p) + Len(q)
    BY ConcatProperties
<1>2. p \o <<>> = p /\ <<>> \o p = p
    BY ConcatEmptySeq
<1>3. p \o q = p <=> q = <<>>
    BY ConcatEqualIffEmpty
<1>4. \A r \in Seq(S) : (p \o q) \o r = p \o (q \o r)
    BY ConcatAssociative
<1>5. ASSUME NEW s \in Seq(S), NEW r \in Seq(S), p \o s = p \o r PROVE s = r
    <2>1. SubSeq(p \o s, Len(p) + 1, Len(p \o s)) = s
        BY PrefixConcat
    <2>2. SubSeq(p \o r, Len(p) + 1, Len(p \o r)) = r
        BY PrefixConcat
    <2> QED
        BY <1>5, <2>1, <2>2
<1>6. ASSUME NEW r \in Seq(S) PROVE IsPrefix(p \o q, p \o r) <=> IsPrefix(q, r)
    <2>1. ASSUME IsPrefix(q, r) PROVE IsPrefix(p \o q, p \o r)
        <3>1. PICK s \in Seq(S) : r = q \o s
            <4> DEFINE s == SubSeq(r, Len(q) + 1, Len(r))
            <4>1. s \in Seq(S) /\ r = q \o s
                BY <2>1, PrefixRest
            <4> QED
                BY <4>1
        <3>2. p \o r = (p \o q) \o s
            BY <3>1, ConcatAssociative
        <3> QED
            BY <1>1, <3>2, PrefixConcat
    <2>2. ASSUME IsPrefix(p \o q, p \o r) PROVE IsPrefix(q, r)
        <3>1. p \o r \in Seq(S)
            BY ConcatProperties
        <3> DEFINE pq == p \o q
                   pr == p \o r
        <3>2. PICK s \in Seq(S) : pr = pq \o s
            <4> DEFINE s == SubSeq(pr, Len(pq) + 1, Len(pr))
            <4>1. pq \in Seq(S) /\ pr \in Seq(S) /\ IsPrefix(pq, pr)
                BY <1>1, <2>2, <3>1
            <4> HIDE DEF pq, pr
            <4>2. s \in Seq(S) /\ pr = pq \o s
                BY <4>1, PrefixRest
            <4> QED
                BY <4>2
        <3>3. p \o r = p \o (q \o s) /\ q \o s \in Seq(S)
            BY <3>2, ConcatAssociative, ConcatProperties
        <3>4. r = q \o s
            BY <3>3, <1>5
        <3> QED
            BY <3>4, PrefixConcat
    <2> QED
        BY <2>1, <2>2
<1>7. ASSUME NEW c \in S PROVE p \o Append(q, c) = Append(p \o q, c)
    <2>1. Append(q, c) = q \o <<c>> /\ <<c>> \in Seq(S)
        BY AppendIsConcat
    <2>2. Append(p \o q, c) = (p \o q) \o <<c>>
        BY <1>1, AppendIsConcat
    <2> QED
        BY <2>1, <2>2, ConcatAssociative
<1>8. ASSUME q # <<>>
      PROVE  p \o q # <<>> /\ Front(p \o q) = p \o Front(q) /\ Last(p \o q) = Last(q)
    <2>1. Front(q) \in Seq(S) /\ Last(q) \in S /\ q = Append(Front(q), Last(q))
        BY <1>8, FrontLast
    <2>2. p \o Front(q) \in Seq(S)
        BY <2>1, ConcatProperties
    <2>3. p \o q = Append(p \o Front(q), Last(q))
        <3>1. Append(Front(q), Last(q)) = Front(q) \o <<Last(q)>> /\ <<Last(q)>> \in Seq(S)
            BY <2>1, AppendIsConcat
        <3>2. Append(p \o Front(q), Last(q)) = (p \o Front(q)) \o <<Last(q)>>
            BY <2>1, <2>2, AppendIsConcat
        <3>3. (p \o Front(q)) \o <<Last(q)>> = p \o (Front(q) \o <<Last(q)>>)
            BY <2>1, <3>1, ConcatAssociative
        <3> QED
            BY <2>1, <3>1, <3>2, <3>3
    <2> DEFINE f == p \o Front(q)
               c == Last(q)
    <2>4. f \in Seq(S) /\ c \in S /\ p \o q = Append(f, c)
        BY <2>1, <2>2, <2>3
    <2> HIDE DEF f, c
    <2>5. Append(f, c) # <<>> /\ Front(Append(f, c)) = f /\ Last(Append(f, c)) = c
        BY <2>4, AppendFront
    <2> QED
        BY <2>4, <2>5 DEF f, c
<1> QED
    BY <1>1, <1>2, <1>3, <1>4, <1>5, <1>6, <1>7, <1>8

\* An element behind two sequences.
LEMMA ConcatAppend ==
    ASSUME NEW S, NEW p \in Seq(S), NEW q \in Seq(S), NEW c \in S
    PROVE  p \o Append(q, c) = Append(p \o q, c)
BY ConcatPaths

\* All but the last element of two sequences, and the last one.
LEMMA ConcatFront ==
    ASSUME NEW S, NEW p \in Seq(S), NEW q \in Seq(S), q # <<>>
    PROVE  p \o q # <<>> /\ Front(p \o q) = p \o Front(q) /\ Last(p \o q) = Last(q)
BY ConcatPaths

\* A path in front of another one with one more name.
LEMMA HeadTail ==
    ASSUME NEW S, NEW c \in S, NEW q \in Seq(S)
    PROVE  /\ <<c>> \in Seq(S) /\ <<c>> \o q \in Seq(S) /\ <<c>> \o q # <<>>
           /\ Head(<<c>> \o q) = c /\ Tail(<<c>> \o q) = q
           /\ Len(<<c>> \o q) = Len(q) + 1
           /\ <<c>> \o <<>> = <<c>> /\ <<c>> = Append(<<>>, c)
<1> DEFINE s == <<c>>
           x == s \o q
<1>1. s \in Seq(S) /\ Len(s) = 1 /\ s[1] = c /\ Len(q) \in Nat /\ s = Append(<<>>, c)
    BY LenProperties
<1> HIDE DEF s
<1>2. /\ x \in Seq(S) /\ Len(x) = 1 + Len(q)
      /\ \A i \in 1..(1 + Len(q)) : x[i] = IF i <= 1 THEN s[i] ELSE q[i - 1]
    BY <1>1, ConcatProperties
<1>3. s \o <<>> = s
    BY <1>1, ConcatPaths
<1> HIDE DEF x
<1>4. x # <<>> /\ x[1] = c
    <2>1. 1 \in 1..(1 + Len(q))
        BY <1>1
    <2>2. x # <<>>
        BY <1>1, <1>2
    <2> QED
        BY <1>1, <1>2, <2>1, <2>2
<1>5. Head(x) = x[1]
    BY <1>2, <1>4
<1>6. Tail(x) \in Seq(S) /\ Len(Tail(x)) = Len(x) - 1 /\ \A i \in 1..Len(Tail(x)) : Tail(x)[i] = x[i + 1]
    BY <1>2, <1>4, HeadTailProperties
<1>7. \A i \in 1..Len(q) : Tail(x)[i] = q[i]
    <2> TAKE i \in 1..Len(q)
    <2>1. i \in 1..Len(Tail(x)) /\ i + 1 \in 1..(1 + Len(q)) /\ ~(i + 1 <= 1) /\ (i + 1) - 1 = i
        BY <1>1, <1>2, <1>6
    <2> QED
        BY <1>2, <1>6, <2>1
<1>8. Len(Tail(x)) = Len(q)
    BY <1>1, <1>2, <1>6
<1>9. Tail(x) = q
    BY <1>6, <1>7, <1>8, SeqEqual
<1>10. Len(x) = Len(q) + 1
    BY <1>1, <1>2
<1> QED
    BY <1>1, <1>2, <1>3, <1>4, <1>5, <1>9, <1>10 DEF x, s

\* A sequence is its head in front of its tail.
LEMMA TailConcat ==
    ASSUME NEW S, NEW x \in Seq(S), x # <<>>
    PROVE  Head(x) \in S /\ Tail(x) \in Seq(S) /\ x = <<Head(x)>> \o Tail(x)
<1> DEFINE h == Head(x)
           r == Tail(x)
           s == <<h>>
           y == s \o r
<1>1. h \in S /\ r \in Seq(S) /\ Len(r) = Len(x) - 1 /\ \A i \in 1..Len(r) : r[i] = x[i + 1]
    BY HeadTailProperties
<1>2. Len(x) \in Nat /\ Len(x) # 0 /\ h = x[1]
    BY LenProperties, EmptySeq
<1> HIDE DEF h, r
<1>3. s \in Seq(S) /\ Len(s) = 1 /\ s[1] = h
    BY <1>1
<1> HIDE DEF s
<1>4. /\ y \in Seq(S) /\ Len(y) = 1 + Len(r)
      /\ \A i \in 1..(1 + Len(r)) : y[i] = IF i <= 1 THEN s[i] ELSE r[i - 1]
    <2>1. r \in Seq(S) /\ s \in Seq(S) /\ Len(s) = 1
        BY <1>1, <1>3
    <2>2. /\ s \o r \in Seq(S) /\ Len(s \o r) = Len(s) + Len(r)
          /\ \A i \in 1..(Len(s) + Len(r)) : (s \o r)[i] = IF i <= Len(s) THEN s[i] ELSE r[i - Len(s)]
        BY <2>1, ConcatProperties
    <2> QED
        BY <2>1, <2>2
<1> HIDE DEF y
<1>5. Len(y) = Len(x)
    BY <1>1, <1>2, <1>4
<1>6. \A i \in 1..Len(x) : x[i] = y[i]
    <2> TAKE i \in 1..Len(x)
    <2>1. i \in 1..(1 + Len(r))
        BY <1>1, <1>2
    <2>2. CASE i = 1
        BY <1>2, <1>3, <1>4, <2>1, <2>2
    <2>3. CASE i # 1
        <3>1. i - 1 \in 1..Len(r) /\ (i - 1) + 1 = i /\ ~(i <= 1)
            BY <1>1, <1>2, <2>3
        <3> QED
            BY <1>1, <1>4, <2>1, <3>1
    <2> QED
        BY <2>2, <2>3
<1>7. x = y
    BY <1>4, <1>5, <1>6, SeqEqual
<1> QED
    BY <1>1, <1>7 DEF h, r, s, y
=============================================================================
