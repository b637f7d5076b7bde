------------------------ MODULE HDCSerializers_lemmas ------------------------
(***************************************************************************)
(* What the operators of HDCSerializers do to a tree, for every tree the   *)
(* library can hold, whatever its depth: the arithmetic of row-major       *)
(* places, documents written to JSON and what is read from them, HDF5 and  *)
(* flatbuffers node by node, add_child() and insert().                     *)
(*                                                                         *)
(* A tree is a function from paths, so that what a recursion over its      *)
(* children would compute is here a statement about each path.             *)
(***************************************************************************)
EXTENDS HDCSerializers, SequenceLemmas

-----------------------------------------------------------------------------
(* Row-major places.                                                       *)

\* Digits in a mixed radix.
LEMMA DigitNumber ==
    ASSUME NEW a \in Nat, NEW s \in Nat, NEW x \in Nat
    PROVE  a * s + x \in Nat
<1>1. a * s \in Nat
    OBVIOUS
<1> QED
    BY <1>1

\* A number with a smaller first digit is smaller.
LEMMA DigitBound ==
    ASSUME NEW a \in Nat, NEW b \in Nat, NEW s \in Nat, NEW x \in Nat, a < b, x < s
    PROVE  a * s + x \in Nat /\ a * s + x < b * s
<1>1. a * s \in Nat /\ b * s \in Nat
    OBVIOUS
<1>2. PICK c \in Nat : b = a + 1 + c
    <2>1. b - a - 1 \in Nat /\ b = a + 1 + (b - a - 1)
        OBVIOUS
    <2> QED
        BY <2>1
<1>3. b * s = a * s + s + c * s
    BY <1>2
<1>4. c * s \in Nat
    BY <1>2
<1> QED
    BY <1>1, <1>3, <1>4

\* A number has its digits in one way only.
LEMMA DigitUnique ==
    ASSUME NEW a \in Nat, NEW b \in Nat, NEW s \in Nat, NEW x \in Nat, NEW y \in Nat,
           x < s, y < s, a * s + x = b * s + y
    PROVE  a = b /\ x = y
<1>1. ~(a < b)
    <2> SUFFICES ASSUME a < b PROVE FALSE
        OBVIOUS
    <2>1. a * s + x < b * s
        BY DigitBound
    <2>2. b * s \in Nat
        OBVIOUS
    <2> QED
        BY <2>1, <2>2
<1>2. ~(b < a)
    <2> SUFFICES ASSUME b < a PROVE FALSE
        OBVIOUS
    <2>1. b * s + y < a * s
        BY DigitBound
    <2>2. a * s \in Nat
        OBVIOUS
    <2> QED
        BY <2>1, <2>2
<1>3. a = b
    BY <1>1, <1>2
<1>4. a * s \in Nat
    OBVIOUS
<1> QED
    BY <1>3, <1>4

\* Every number below a product has two digits.
LEMMA DigitExists ==
    ASSUME NEW b \in Nat, NEW s \in Nat, NEW m \in Nat, m < b * s
    PROVE  \E a \in Nat, x \in Nat : a < b /\ x < s /\ m = a * s + x
<1>1. s # 0
    <2> SUFFICES ASSUME s = 0 PROVE FALSE
        OBVIOUS
    <2>1. b * s = 0
        OBVIOUS
    <2> QED
        BY <2>1
<1> DEFINE a == m \div s
           x == m % s
<1>2. a \in Nat /\ x \in Nat /\ x < s /\ m = a * s + x
    BY <1>1
<1> HIDE DEF a, x
<1>3. a < b
    <2> SUFFICES ASSUME b <= a PROVE FALSE
        BY <1>2
    <2>1. PICK c \in Nat : a = b + c
        <3>1. a - b \in Nat /\ a = b + (a - b)
            BY <1>2
        <3> QED
            BY <3>1
    <2>2. a * s = b * s + c * s /\ c * s \in Nat /\ b * s \in Nat
        BY <2>1
    <2> QED
        BY <1>2, <2>2
<1> QED
    BY <1>2, <1>3

----------------------------------------------------------------------------
(* The size of an array and the places of its elements. *)

\* The sizes of the first dimensions.
Sizes(shape, size) ==
    /\ size \in [0..Len(shape) -> Nat]
    /\ size[0] = 1
    /\ \A d \in 1..Len(shape) : size[d] = size[d-1] * shape[d]

\* Product is the last of the sizes of the parts of a shape.
LEMMA ProductSizes ==
    ASSUME NEW shape \in Seq(Nat)
    PROVE  \E size : Sizes(shape, size) /\ Product(shape) = size[Len(shape)]
<1> DEFINE n == Len(shape)
           F == [d \in 1..n |-> [x \in Nat |-> x * shape[d]]]
           Body(f) == [d \in 0..n |-> IF d = 0 THEN 1 ELSE f[d-1] * shape[d]]
           at == CHOOSE g : g = Body(g)
<1>1. n \in Nat /\ \A d \in 1..n : shape[d] \in Nat
    BY LenProperties, ElementOfSeq
<1>2. F \in [1..n -> [Nat -> Nat]]
    BY <1>1
<1>3. PICK f \in [0..n -> Nat] : f[0] = 1 /\ \A i \in 1..n : f[i] = F[i][f[i-1]]
    <2> HIDE DEF F, n
    <2>1. Recurs(n, Nat, 1, F)
        BY <1>1, <1>2, BoundedRecursion
    <2> QED
        BY <2>1 DEF Recurs
<1>4. ASSUME NEW i \in 1..n PROVE f[i] = f[i-1] * shape[i]
    <2>1. i - 1 \in 0..n
        BY <1>1
    <2>2. f[i-1] \in Nat
        BY <2>1
    <2>3. F[i] = [x \in Nat |-> x * shape[i]]
        OBVIOUS
    <2> HIDE DEF F, n
    <2> QED
        BY <1>3, <2>2, <2>3
<1>5. f = Body(f)
    <2>1. \A i \in 0..n : i = 0 \/ i \in 1..n
        BY <1>1
    <2>2. \A i \in 0..n : f[i] = Body(f)[i]
        <3> HIDE DEF n
        <3> QED
            BY <1>3, <1>4, <2>1
    <2>3. DOMAIN f = 0..n /\ f = [i \in 0..n |-> f[i]]
        OBVIOUS
    <2> QED
        BY <2>2, <2>3
<1>6. Product(shape) = at[n]
    BY DEF Product
<1>7. at = Body(at)
    <2> HIDE DEF Body, at
    <2>1. \E g : g = Body(g)
        BY <1>5
    <2> QED
        BY <2>1 DEF at
<1> HIDE DEF at, F
<1>8. /\ DOMAIN at = 0..n /\ at[0] = 1
      /\ \A d \in 1..n : at[d] = at[d-1] * shape[d]
    <2>1. 0 \in 0..n /\ \A d \in 1..n : d \in 0..n /\ d # 0
        BY <1>1
    <2> QED
        BY <1>7, <2>1
<1>9. 0..n \subseteq {d \in 0..n : at[d] \in Nat}
    <2> DEFINE S == {d \in 0..n : at[d] \in Nat}
    <2>1. 0 \in S
        BY <1>1, <1>8
    <2>2. ASSUME NEW d \in 0..(n-1), d \in S PROVE d + 1 \in S
        <3>1. d + 1 \in 1..n /\ (d + 1) - 1 = d /\ d + 1 \in 0..n
            BY <1>1
        <3>2. at[d+1] = at[d] * shape[d+1]
            BY <1>8, <3>1
        <3>3. at[d] \in Nat /\ shape[d+1] \in Nat
            BY <2>2, <3>1, <1>1
        <3> QED
            BY <3>1, <3>2, <3>3
    <2> HIDE DEF S
    <2>3. 0..n \subseteq S
        BY <1>1, <2>1, <2>2, BoundedInduction
    <2> QED
        BY <2>3 DEF S
<1>10. at \in [0..n -> Nat]
    <2>1. at = [d \in 0..n |-> at[d]]
        <3>1. at = [d \in 0..n |-> IF d = 0 THEN 1 ELSE at[d-1] * shape[d]]
            BY <1>7
        <3> QED
            BY <3>1
    <2> HIDE DEF n
    <2> QED
        BY <1>9, <2>1
<1> QED
    BY <1>6, <1>8, <1>10 DEF Sizes

\* The places of the first parts of an index.
Places(shape, i, g) ==
    /\ g \in [0..Len(shape) -> Nat]
    /\ g[0] = 0
    /\ \A d \in 1..Len(shape) : g[d] = g[d-1] * shape[d] + i[d]

\* RowMajor is the last of the places of the parts of an index.
LEMMA RowMajorPlaces ==
    ASSUME NEW shape \in Seq(Nat), NEW i \in Seq(Nat), Len(i) = Len(shape)
    PROVE  \E g : Places(shape, i, g) /\ RowMajor(shape, i) = g[Len(shape)]
<1> DEFINE n == Len(shape)
           F == [d \in 1..n |-> [x \in Nat |-> x * shape[d] + i[d]]]
           Body(f) == [d \in 0..n |-> IF d = 0 THEN 0 ELSE f[d-1] * shape[d] + i[d]]
           at == CHOOSE g : g = Body(g)
<1>1. n \in Nat /\ \A d \in 1..n : shape[d] \in Nat /\ i[d] \in Nat
    BY LenProperties, ElementOfSeq
<1>2. F \in [1..n -> [Nat -> Nat]]
    BY <1>1
<1>3. PICK f \in [0..n -> Nat] : f[0] = 0 /\ \A d \in 1..n : f[d] = F[d][f[d-1]]
    <2> HIDE DEF F, n
    <2>1. Recurs(n, Nat, 0, F)
        BY <1>1, <1>2, BoundedRecursion
    <2> QED
        BY <2>1 DEF Recurs
<1>4. ASSUME NEW d \in 1..n PROVE f[d] = f[d-1] * shape[d] + i[d]
    <2>1. d - 1 \in 0..n
        BY <1>1
    <2>2. f[d-1] \in Nat
        BY <2>1
    <2>3. F[d] = [x \in Nat |-> x * shape[d] + i[d]]
        OBVIOUS
    <2> HIDE DEF F, n
    <2> QED
        BY <1>3, <2>2, <2>3
<1>5. f = Body(f)
    <2>1. \A d \in 0..n : d = 0 \/ d \in 1..n
        BY <1>1
    <2>2. \A d \in 0..n : f[d] = Body(f)[d]
        <3> HIDE DEF n
        <3> QED
            BY <1>3, <1>4, <2>1
    <2>3. DOMAIN f = 0..n /\ f = [d \in 0..n |-> f[d]]
        OBVIOUS
    <2> QED
        BY <2>2, <2>3
<1>6. RowMajor(shape, i) = at[n]
    BY DEF RowMajor
<1>7. at = Body(at)
    <2> HIDE DEF Body, at
    <2>1. \E g : g = Body(g)
        BY <1>5
    <2> QED
        BY <2>1 DEF at
<1> HIDE DEF at, F
<1>8. /\ DOMAIN at = 0..n /\ at[0] = 0
      /\ \A d \in 1..n : at[d] = at[d-1] * shape[d] + i[d]
    <2>1. 0 \in 0..n /\ \A d \in 1..n : d \in 0..n /\ d # 0
        BY <1>1
    <2> QED
        BY <1>7, <2>1
<1>9. 0..n \subseteq {d \in 0..n : at[d] \in Nat}
    <2> DEFINE S == {d \in 0..n : at[d] \in Nat}
    <2>1. 0 \in S
        BY <1>1, <1>8
    <2>2. ASSUME NEW d \in 0..(n-1), d \in S PROVE d + 1 \in S
        <3>1. d + 1 \in 1..n /\ (d + 1) - 1 = d /\ d + 1 \in 0..n
            BY <1>1
        <3>2. at[d+1] = at[d] * shape[d+1] + i[d+1]
            BY <1>8, <3>1
        <3>3. at[d] \in Nat /\ shape[d+1] \in Nat /\ i[d+1] \in Nat
            BY <2>2, <3>1, <1>1
        <3>4. at[d] * shape[d+1] + i[d+1] \in Nat
            <4> DEFINE a == at[d]
                       b == shape[d+1]
                       c == i[d+1]
            <4>1. a \in Nat /\ b \in Nat /\ c \in Nat
                BY <3>3
            <4> HIDE DEF a, b, c
            <4>2. a * b + c \in Nat
                BY <4>1, DigitNumber
            <4> QED
                BY <4>2 DEF a, b, c
        <3> QED
            BY <3>1, <3>2, <3>4
    <2> HIDE DEF S
    <2>3. 0..n \subseteq S
        BY <1>1, <2>1, <2>2, BoundedInduction
    <2> QED
        BY <2>3 DEF S
<1>10. at \in [0..n -> Nat]
    <2>1. at = [d \in 0..n |-> at[d]]
        <3>1. at = [d \in 0..n |-> IF d = 0 THEN 0 ELSE at[d-1] * shape[d] + i[d]]
            BY <1>7
        <3> QED
            BY <3>1
    <2> HIDE DEF n
    <2> QED
        BY <1>9, <2>1
<1> QED
    BY <1>6, <1>8, <1>10 DEF Places

\* There is one such list of places.
LEMMA PlacesUnique ==
    ASSUME NEW shape \in Seq(Nat), NEW i \in Seq(Nat), NEW g, NEW h,
           Places(shape, i, g), Places(shape, i, h)
    PROVE  g[Len(shape)] = h[Len(shape)]
<1> DEFINE n == Len(shape)
           S == {d \in 0..n : g[d] = h[d]}
<1>1. n \in Nat
    BY LenProperties
<1>2. 0 \in S
    BY <1>1 DEF Places
<1>3. ASSUME NEW d \in 0..(n-1), d \in S PROVE d + 1 \in S
    <2>1. d + 1 \in 1..n /\ (d + 1) - 1 = d /\ d + 1 \in 0..n
        BY <1>1
    <2> QED
        BY <1>3, <2>1 DEF Places
<1> HIDE DEF S
<1>4. 0..n \subseteq S
    BY <1>1, <1>2, <1>3, BoundedInduction
<1>5. n \in 0..n
    BY <1>1
<1> QED
    BY <1>4, <1>5 DEF S

\* The places of an index are those of its parts.
LEMMA RowMajorIs ==
    ASSUME NEW shape \in Seq(Nat), NEW i \in Seq(Nat), Len(i) = Len(shape), NEW g,
           Places(shape, i, g)
    PROVE  RowMajor(shape, i) = g[Len(shape)]
BY RowMajorPlaces, PlacesUnique

\* An index has a number below the extent for each dimension.
LEMMA IndicesAre ==
    ASSUME NEW shape \in Seq(Nat)
    PROVE  \A i : i \in Indices(shape) <=>
                     /\ i \in Seq(Nat) /\ Len(i) = Len(shape)
                     /\ \A d \in 1..Len(shape) : i[d] \in 0..(shape[d] - 1)
<1> DEFINE n == Len(shape)
           R == UNION {0..(shape[d] - 1) : d \in DOMAIN shape}
<1>1. n \in Nat /\ DOMAIN shape = 1..n /\ \A d \in 1..n : shape[d] \in Nat
    BY LenProperties, ElementOfSeq
<1>2. R \subseteq Nat
    BY <1>1
<1>3. ASSUME NEW i, i \in Indices(shape)
      PROVE  /\ i \in Seq(Nat) /\ Len(i) = n
             /\ \A d \in 1..n : i[d] \in 0..(shape[d] - 1)
    <2>1. i \in [1..n -> R] /\ \A d \in 1..n : i[d] < shape[d]
        BY <1>1, <1>3 DEF Indices
    <2>2. i \in [1..n -> Nat]
        BY <1>2, <2>1
    <2>3. i \in Seq(Nat) /\ Len(i) = n
        BY <1>1, <2>2, FunctionIsSeq
    <2>4. \A d \in 1..n : i[d] \in 0..(shape[d] - 1)
        <3> TAKE d \in 1..n
        <3>1. i[d] \in Nat /\ shape[d] \in Nat /\ i[d] < shape[d]
            BY <1>1, <2>1, <2>2
        <3> QED
            BY <3>1
    <2> QED
        BY <2>3, <2>4
<1>4. ASSUME NEW i, i \in Seq(Nat), Len(i) = n, \A d \in 1..n : i[d] \in 0..(shape[d] - 1)
      PROVE  i \in Indices(shape)
    <2>1. i \in [1..n -> Nat]
        BY <1>4, LenProperties
    <2>2. \A d \in 1..n : i[d] \in R
        BY <1>1, <1>4
    <2>3. i \in [1..n -> R]
        BY <2>1, <2>2
    <2>4. \A d \in 1..n : i[d] < shape[d]
        BY <1>1, <1>4
    <2> QED
        BY <1>1, <2>3, <2>4 DEF Indices
<1> QED
    BY <1>3, <1>4

\* The place of an index is within the array.
LEMMA RowMajorRange ==
    ASSUME NEW shape \in Seq(Nat), NEW i \in Indices(shape)
    PROVE  RowMajor(shape, i) \in 0..(Product(shape) - 1)
<1> DEFINE n == Len(shape)
<1>1. /\ i \in Seq(Nat) /\ Len(i) = n /\ n \in Nat
      /\ \A d \in 1..n : i[d] \in 0..(shape[d] - 1) /\ shape[d] \in Nat
    BY IndicesAre, LenProperties, ElementOfSeq
<1>2. PICK g : Places(shape, i, g) /\ RowMajor(shape, i) = g[n]
    BY <1>1, RowMajorPlaces
<1>3. PICK size : Sizes(shape, size) /\ Product(shape) = size[n]
    BY ProductSizes
<1> DEFINE S == {d \in 0..n : g[d] < size[d]}
<1>4. 0 \in S
    BY <1>1, <1>2, <1>3 DEF Places, Sizes
<1>5. ASSUME NEW d \in 0..(n-1), d \in S PROVE d + 1 \in S
    <2>1. d + 1 \in 1..n /\ (d + 1) - 1 = d /\ d + 1 \in 0..n /\ d \in 0..n
        BY <1>1
    <2>2. g[d+1] = g[d] * shape[d+1] + i[d+1] /\ size[d+1] = size[d] * shape[d+1]
        BY <1>2, <1>3, <2>1 DEF Places, Sizes
    <2>3. g[d] \in Nat /\ size[d] \in Nat /\ g[d] < size[d]
        BY <1>2, <1>3, <1>5, <2>1 DEF Places, Sizes
    <2>4. shape[d+1] \in Nat /\ i[d+1] \in Nat /\ i[d+1] < shape[d+1]
        BY <1>1, <2>1
    <2>5. g[d] * shape[d+1] + i[d+1] < size[d] * shape[d+1]
        BY <2>3, <2>4, DigitBound
    <2> QED
        BY <2>1, <2>2, <2>5
<1> HIDE DEF S
<1>6. 0..n \subseteq S
    BY <1>1, <1>4, <1>5, BoundedInduction
<1>7. n \in 0..n /\ g[n] < size[n] /\ g[n] \in Nat /\ size[n] \in Nat
    BY <1>1, <1>2, <1>3, <1>6 DEF S, Places, Sizes
<1> QED
    BY <1>2, <1>3, <1>7

\* Two indexes have two places.
LEMMA RowMajorInjective ==
    ASSUME NEW shape \in Seq(Nat), NEW i \in Indices(shape), NEW k \in Indices(shape),
           RowMajor(shape, i) = RowMajor(shape, k)
    PROVE  i = k
<1> DEFINE n == Len(shape)
<1>1. /\ i \in Seq(Nat) /\ Len(i) = n /\ n \in Nat /\ k \in Seq(Nat) /\ Len(k) = n
      /\ \A d \in 1..n : i[d] \in 0..(shape[d] - 1) /\ k[d] \in 0..(shape[d] - 1) /\ shape[d] \in Nat
    BY IndicesAre, LenProperties, ElementOfSeq
<1>2. PICK g : Places(shape, i, g) /\ RowMajor(shape, i) = g[n]
    BY <1>1, RowMajorPlaces
<1>3. PICK h : Places(shape, k, h) /\ RowMajor(shape, k) = h[n]
    BY <1>1, RowMajorPlaces
<1> DEFINE S == {m \in 0..n : g[n - m] = h[n - m] /\ \A d \in 1..n : d > n - m => i[d] = k[d]}
<1>4. 0 \in S
    <2>1. 0 \in 0..n /\ n - 0 = n /\ ~\E d \in 1..n : d > n
        BY <1>1
    <2>2. g[n] = h[n]
        BY <1>2, <1>3
    <2> HIDE DEF n
    <2> QED
        BY <2>1, <2>2
<1>5. ASSUME NEW m \in 0..(n-1), m \in S PROVE m + 1 \in S
    <2> DEFINE d == n - m
    <2>1. d \in 1..n /\ d - 1 = n - (m + 1) /\ m + 1 \in 0..n /\ d - 1 \in 0..n
        BY <1>1, SMTT(30)
    <2>2. g[d] = h[d]
        BY <1>5
    <2> HIDE DEF d
    <2>3. g[d] = g[d-1] * shape[d] + i[d] /\ h[d] = h[d-1] * shape[d] + k[d]
        BY <1>2, <1>3, <2>1 DEF Places
    <2>4. g[d-1] \in Nat /\ h[d-1] \in Nat
        BY <1>2, <1>3, <2>1 DEF Places
    <2>5. shape[d] \in Nat /\ i[d] \in Nat /\ k[d] \in Nat /\ i[d] < shape[d] /\ k[d] < shape[d]
        <3>1. shape[d] \in Nat /\ i[d] \in 0..(shape[d] - 1) /\ k[d] \in 0..(shape[d] - 1)
            BY <1>1, <2>1
        <3> QED
            BY <3>1
    <2>6. g[d-1] = h[d-1] /\ i[d] = k[d]
        <3>1. g[d-1] * shape[d] + i[d] = h[d-1] * shape[d] + k[d]
            BY <2>2, <2>3
        <3> QED
            <4> DEFINE a == g[d-1]
                       b == h[d-1]
                       e == shape[d]
                       x == i[d]
                       y == k[d]
            <4>1. a \in Nat /\ b \in Nat /\ e \in Nat /\ x \in Nat /\ y \in Nat /\ x < e /\ y < e
                  /\ a * e + x = b * e + y
                BY <2>4, <2>5, <3>1
            <4> HIDE DEF a, b, e, x, y
            <4>2. a = b /\ x = y
                BY <4>1, DigitUnique
            <4> QED
                BY <4>2 DEF a, b, x, y
    <2>7. ASSUME NEW e \in 1..n, e > n - (m + 1) PROVE i[e] = k[e]
        <3>1. e = d \/ e > n - m
            BY <1>1, <2>1, <2>7 DEF d
        <3>2. \A x \in 1..n : x > n - m => i[x] = k[x]
            BY <1>5
        <3> QED
            BY <2>6, <3>1, <3>2
    <2> QED
        BY <2>1, <2>6, <2>7
<1> HIDE DEF S
<1>6. 0..n \subseteq S
    BY <1>1, <1>4, <1>5, BoundedInduction
<1>7. \A d \in 1..n : i[d] = k[d]
    <2>1. n \in S
        BY <1>1, <1>6
    <2> QED
        BY <1>1, <2>1 DEF S
<1> QED
    BY <1>1, <1>7, SeqEqual

\* Every place is that of an index.
LEMMA RowMajorOnto ==
    ASSUME NEW shape \in Seq(Nat), NEW m \in 0..(Product(shape) - 1)
    PROVE  \E i \in Indices(shape) : RowMajor(shape, i) = m
<1> DEFINE n == Len(shape)
<1>1. n \in Nat /\ \A d \in 1..n : shape[d] \in Nat
    BY LenProperties, ElementOfSeq
<1>2. PICK size : Sizes(shape, size) /\ Product(shape) = size[n]
    BY ProductSizes
<1> DEFINE Found(k, x) ==
             \E g \in [0..k -> Nat], i \in [1..k -> Nat] :
               /\ g[0] = 0 /\ g[k] = x
               /\ \A d \in 1..k : g[d] = g[d-1] * shape[d] + i[d] /\ i[d] < shape[d]
           S == {k \in 0..n : \A x \in Nat : x < size[k] => Found(k, x)}
<1>3. 0 \in S
    <2>1. size[0] = 1
        BY <1>2 DEF Sizes
    <2>2. Found(0, 0)
        <3> DEFINE g == [d \in 0..0 |-> 0]
                   i == [d \in 1..0 |-> 0]
        <3>1. g \in [0..0 -> Nat] /\ g[0] = 0 /\ i \in [1..0 -> Nat] /\ 1..0 = {}
            OBVIOUS
        <3> QED
            BY <3>1
    <2> HIDE DEF Found
    <2>3. \A x \in Nat : x < size[0] => x = 0
        BY <2>1
    <2> QED
        BY <1>1, <2>2, <2>3
<1>4. ASSUME NEW k \in 0..(n-1), k \in S PROVE k + 1 \in S
    <2>1. k + 1 \in 1..n /\ (k + 1) - 1 = k /\ k + 1 \in 0..n /\ k \in 0..n /\ k \in Nat
        BY <1>1
    <2>2. size[k+1] = size[k] * shape[k+1] /\ size[k] \in Nat /\ shape[k+1] \in Nat
        BY <1>1, <1>2, <2>1 DEF Sizes
    <2>3. ASSUME NEW x \in Nat, x < size[k+1] PROVE Found(k + 1, x)
        <3>1. PICK a \in Nat, c \in Nat : a < size[k] /\ c < shape[k+1] /\ x = a * shape[k+1] + c
            <4> DEFINE b == size[k]
                       e == shape[k+1]
            <4>1. b \in Nat /\ e \in Nat /\ x < b * e
                BY <2>2, <2>3
            <4> HIDE DEF b, e
            <4>2. \E a \in Nat, c \in Nat : a < b /\ c < e /\ x = a * e + c
                BY <4>1, DigitExists
            <4> QED
                BY <4>2 DEF b, e
        <3>2. Found(k, a)
            BY <1>4, <3>1
        <3>3. PICK g \in [0..k -> Nat], i \in [1..k -> Nat] :
                /\ g[0] = 0 /\ g[k] = a
                /\ \A d \in 1..k : g[d] = g[d-1] * shape[d] + i[d] /\ i[d] < shape[d]
            BY <3>2
        <3> DEFINE gg == [d \in 0..(k+1) |-> IF d = k + 1 THEN x ELSE g[d]]
                   ii == [d \in 1..(k+1) |-> IF d = k + 1 THEN c ELSE i[d]]
        <3>4. gg \in [0..(k+1) -> Nat] /\ ii \in [1..(k+1) -> Nat] /\ gg[0] = 0 /\ gg[k+1] = x
            <4>1. \A d \in 0..(k+1) : d # k + 1 => d \in 0..k
                BY <2>1
            <4>2. \A d \in 1..(k+1) : d # k + 1 => d \in 1..k
                BY <2>1
            <4>3. 0 \in 0..(k+1) /\ 0 # k + 1 /\ k + 1 \in 0..(k+1)
                BY <2>1
            <4>4. \A d \in 0..(k+1) : gg[d] \in Nat
                BY <4>1
            <4>5. \A d \in 1..(k+1) : ii[d] \in Nat
                BY <4>2
            <4> QED
                BY <3>3, <4>3, <4>4, <4>5
        <3>5. ASSUME NEW d \in 1..(k+1)
              PROVE  gg[d] = gg[d-1] * shape[d] + ii[d] /\ ii[d] < shape[d]
            <4>1. CASE d = k + 1
                <5>1. gg[d] = x /\ ii[d] = c /\ d - 1 = k /\ k \in 0..(k+1) /\ k # k + 1
                    BY <2>1, <4>1
                <5>2. gg[d-1] = a
                    BY <3>3, <5>1
                <5> QED
                    BY <3>1, <4>1, <5>1, <5>2
            <4>2. CASE d # k + 1
                <5>1. d \in 1..k /\ d - 1 \in 0..(k+1) /\ d - 1 # k + 1 /\ d \in 0..(k+1)
                    BY <2>1, <4>2
                <5>2. gg[d] = g[d] /\ gg[d-1] = g[d-1] /\ ii[d] = i[d]
                    BY <4>2, <5>1
                <5> QED
                    BY <3>3, <5>1, <5>2
            <4> QED
                BY <4>1, <4>2
        <3> HIDE DEF gg, ii
        <3> QED
            BY <3>4, <3>5
    <2> HIDE DEF Found
    <2> QED
        BY <2>1, <2>3
<1> HIDE DEF S
<1>5. 0..n \subseteq S
    BY <1>1, <1>3, <1>4, BoundedInduction
<1>6. Found(n, m)
    <2>1. n \in S /\ size[n] \in Nat /\ m \in Nat /\ m < size[n]
        BY <1>1, <1>2, <1>5 DEF Sizes
    <2> HIDE DEF Found
    <2> QED
        BY <2>1 DEF S
<1>7. PICK g \in [0..n -> Nat], i \in [1..n -> Nat] :
        /\ g[0] = 0 /\ g[n] = m
        /\ \A d \in 1..n : g[d] = g[d-1] * shape[d] + i[d] /\ i[d] < shape[d]
    BY <1>6
<1>8. i \in Seq(Nat) /\ Len(i) = n
    BY <1>1, <1>7, FunctionIsSeq
<1>9. i \in Indices(shape)
    <2>1. \A d \in 1..n : i[d] \in 0..(shape[d] - 1)
        BY <1>1, <1>7, SMTT(30)
    <2> QED
        BY <1>8, <2>1, IndicesAre
<1>10. Places(shape, i, g)
    BY <1>7 DEF Places
<1> QED
    BY <1>7, <1>8, <1>9, <1>10, RowMajorIs

\* The number of elements is a natural number.
LEMMA ProductNumber ==
    ASSUME NEW shape \in Seq(Nat)
    PROVE  Product(shape) \in Nat
<1>1. PICK size : Sizes(shape, size) /\ Product(shape) = size[Len(shape)]
    BY ProductSizes
<1>2. Len(shape) \in 0..Len(shape)
    BY LenProperties
<1> QED
    BY <1>1, <1>2 DEF Sizes

\* A scalar has one element.
LEMMA ScalarProduct == Product(<<>>) = 1
<1>1. <<>> \in Seq(Nat) /\ Len(<<>>) = 0
    OBVIOUS
<1>2. PICK size : Sizes(<<>>, size) /\ Product(<<>>) = size[Len(<<>>)]
    BY <1>1, ProductSizes
<1> QED
    BY <1>1, <1>2 DEF Sizes

\* An array without elements has no indexes.
LEMMA NoElements ==
    ASSUME NEW shape \in Seq(Nat)
    PROVE  Product(shape) = 0 <=> Indices(shape) = {}
<1>1. ASSUME NEW i \in Indices(shape) PROVE Product(shape) # 0
    BY RowMajorRange, ProductNumber
<1>2. ASSUME Product(shape) # 0 PROVE Indices(shape) # {}
    <2>1. 0 \in 0..(Product(shape) - 1)
        BY <1>2, ProductNumber
    <2> QED
        BY <2>1, RowMajorOnto
<1> QED
    BY <1>1, <1>2

\* The place of an index determines it.
LEMMA IndexOfPlace ==
    ASSUME NEW shape \in Seq(Nat)
    PROVE  /\ \A m \in 0..(Product(shape) - 1) :
                IndexOf(shape, m) \in Indices(shape) /\ RowMajor(shape, IndexOf(shape, m)) = m
           /\ \A i \in Indices(shape) : IndexOf(shape, RowMajor(shape, i)) = i
<1>1. ASSUME NEW m \in 0..(Product(shape) - 1)
      PROVE  IndexOf(shape, m) \in Indices(shape) /\ RowMajor(shape, IndexOf(shape, m)) = m
    <2>1. \E i \in Indices(shape) : RowMajor(shape, i) = m
        BY RowMajorOnto
    <2> QED
        BY <2>1 DEF IndexOf
<1>2. ASSUME NEW i \in Indices(shape) PROVE IndexOf(shape, RowMajor(shape, i)) = i
    <2>1. RowMajor(shape, i) \in 0..(Product(shape) - 1)
        BY RowMajorRange
    <2>2. /\ IndexOf(shape, RowMajor(shape, i)) \in Indices(shape)
          /\ RowMajor(shape, IndexOf(shape, RowMajor(shape, i))) = RowMajor(shape, i)
        BY <1>1, <2>1
    <2> QED
        BY <2>2, RowMajorInjective
<1> QED
    BY <1>1, <1>2

----------------------------------------------------------------------------
\* The elements of a reversed sequence.
LEMMA Reversed ==
    ASSUME NEW S, NEW s \in Seq(S)
    PROVE  /\ Reverse(s) \in Seq(S) /\ Len(Reverse(s)) = Len(s)
           /\ \A i \in 1..Len(s) : Len(s) + 1 - i \in 1..Len(s) /\ Reverse(s)[i] = s[Len(s) + 1 - i]
<1> DEFINE n == Len(s)
<1>1. n \in Nat /\ \A i \in 1..n : n + 1 - i \in 1..n /\ s[n + 1 - i] \in S /\ (n - i) + 1 = n + 1 - i
    BY LenProperties, ElementOfSeq
<1>2. Reverse(s) = [i \in 1..n |-> s[(n - i) + 1]]
    BY DEF Reverse
<1> HIDE DEF n
<1>3. Reverse(s) \in [1..n -> S] /\ \A i \in 1..n : Reverse(s)[i] = s[n + 1 - i]
    BY <1>1, <1>2
<1>4. Reverse(s) \in Seq(S) /\ Len(Reverse(s)) = n
    BY <1>1, <1>3, FunctionIsSeq
<1> QED
    BY <1>1, <1>3, <1>4 DEF n

\* Reversing twice changes nothing.
LEMMA ReversedTwice ==
    ASSUME NEW S, NEW s \in Seq(S)
    PROVE  Reverse(Reverse(s)) = s
<1> DEFINE n == Len(s)
           r == Reverse(s)
<1>1. n \in Nat
    BY LenProperties
<1>2. r \in Seq(S) /\ Len(r) = n /\ \A i \in 1..n : n + 1 - i \in 1..n /\ r[i] = s[n + 1 - i]
    BY Reversed
<1> HIDE DEF r
<1>3. Reverse(r) \in Seq(S) /\ Len(Reverse(r)) = n /\ \A i \in 1..n : Reverse(r)[i] = r[n + 1 - i]
    BY <1>2, Reversed
<1>4. \A i \in 1..n : Reverse(r)[i] = s[i]
    <2> TAKE i \in 1..n
    <2>1. n + 1 - i \in 1..n /\ n + 1 - (n + 1 - i) = i
        BY <1>1
    <2> QED
        BY <1>2, <1>3, <2>1
<1> QED
    BY <1>3, <1>4, SeqEqual DEF r

\* Reversed extents have as many elements.
LEMMA ReversedProduct ==
    ASSUME NEW shape \in Seq(Nat)
    PROVE  Product(Reverse(shape)) = Product(shape)
<1> DEFINE n == Len(shape)
           mirror == Reverse(shape)
<1>1. n \in Nat /\ \A d \in 1..n : shape[d] \in Nat
    BY LenProperties, ElementOfSeq
<1>2. mirror \in Seq(Nat) /\ Len(mirror) = n /\ \A d \in 1..n : mirror[d] = shape[n + 1 - d]
    BY Reversed
<1> HIDE DEF mirror
<1>3. PICK size : Sizes(shape, size) /\ Product(shape) = size[n]
    BY ProductSizes
<1>4. PICK rev : Sizes(mirror, rev) /\ Product(mirror) = rev[n]
    BY <1>2, ProductSizes
<1> DEFINE S == {k \in 0..n : rev[k] * size[n - k] = size[n]}
<1>5. 0 \in S
    <2>1. rev[0] = 1 /\ size[n - 0] = size[n] /\ size[n] \in Nat
        BY <1>1, <1>3, <1>4 DEF Sizes
    <2> DEFINE a == size[n]
    <2> HIDE DEF a
    <2>2. a \in Nat /\ rev[0] * size[n - 0] = 1 * a
        BY <2>1 DEF a
    <2>3. 1 * a = a
        BY <2>2
    <2> QED
        BY <1>1, <2>2, <2>3 DEF a
<1>6. ASSUME NEW k \in 0..(n-1), k \in S PROVE k + 1 \in S
    <2>1. k + 1 \in 1..n /\ (k + 1) - 1 = k /\ k + 1 \in 0..n /\ k \in 0..n
          /\ n - k \in 1..n /\ (n - k) - 1 = n - (k + 1) /\ n - (k + 1) \in 0..n /\ n + 1 - (k + 1) = n - k
        BY <1>1
    <2> DEFINE a == rev[k]
               b == size[n - (k + 1)]
               e == shape[n - k]
    <2>2. a \in Nat /\ b \in Nat /\ e \in Nat
        BY <1>1, <1>2, <1>3, <1>4, <2>1 DEF Sizes
    <2>3. rev[k + 1] = a * e
        BY <1>2, <1>4, <2>1 DEF Sizes
    <2>4. size[n - k] = b * e
        BY <1>3, <2>1 DEF Sizes
    <2>5. a * (b * e) = size[n]
        BY <1>6, <2>4
    <2> HIDE DEF a, b, e
    <2>6. (a * e) * b = a * (b * e)
        BY <2>2
    <2>7. rev[k + 1] * size[n - (k + 1)] = size[n]
        BY <2>3, <2>5, <2>6 DEF b
    <2> QED
        BY <2>1, <2>7
<1> HIDE DEF S
<1>7. 0..n \subseteq S
    BY <1>1, <1>5, <1>6, BoundedInduction
<1>8. n \in S /\ n - n = 0
    BY <1>1, <1>7
<1>9. rev[n] * size[0] = size[n] /\ size[0] = 1 /\ rev[n] \in Nat
    BY <1>1, <1>2, <1>3, <1>4, <1>8 DEF S, Sizes
<1> DEFINE a == rev[n]
<1> HIDE DEF a
<1>10. a \in Nat /\ a * 1 = size[n]
    BY <1>9 DEF a
<1>11. a = size[n]
    BY <1>10
<1> QED
    BY <1>3, <1>4, <1>11 DEF a, mirror

\* An index turned round is one of the shape turned round.
LEMMA ReversedIndex ==
    ASSUME NEW shape \in Seq(Nat), NEW i \in Indices(shape)
    PROVE  Reverse(i) \in Indices(Reverse(shape))
<1> DEFINE n == Len(shape)
           mirror == Reverse(shape)
           r == Reverse(i)
<1>1. n \in Nat
    BY LenProperties
<1>2. i \in Seq(Nat) /\ Len(i) = n /\ \A d \in 1..n : i[d] \in 0..(shape[d] - 1)
    BY IndicesAre
<1>3. /\ mirror \in Seq(Nat) /\ Len(mirror) = n
      /\ \A d \in 1..n : n + 1 - d \in 1..n /\ mirror[d] = shape[n + 1 - d]
    BY Reversed
<1>4. r \in Seq(Nat) /\ Len(r) = n /\ \A d \in 1..n : r[d] = i[n + 1 - d]
    BY <1>2, Reversed, SMTT(30)
<1> HIDE DEF mirror, r
<1>5. \A d \in 1..n : r[d] \in 0..(mirror[d] - 1)
    BY <1>2, <1>3, <1>4
<1>6. r \in Indices(mirror)
    BY <1>3, <1>4, <1>5, IndicesAre
<1> QED
    BY <1>6 DEF r, mirror

\* The place of an element is inside of the buffer, in either order.
LEMMA OffsetRange ==
    ASSUME NEW u, u.shape \in Seq(Nat), NEW i \in Indices(u.shape)
    PROVE  Offset(u, i) \in 0..(Product(u.shape) - 1)
<1> DEFINE shape == u.shape
<1>1. shape \in Seq(Nat) /\ i \in Indices(shape)
    OBVIOUS
<1> HIDE DEF shape
<1>2. RowMajor(shape, i) \in 0..(Product(shape) - 1)
    BY <1>1, RowMajorRange
<1>3. Reverse(shape) \in Seq(Nat) /\ Reverse(i) \in Indices(Reverse(shape))
    BY <1>1, Reversed, ReversedIndex
<1>4. RowMajor(Reverse(shape), Reverse(i)) \in 0..(Product(Reverse(shape)) - 1)
    BY <1>3, RowMajorRange
<1>5. Product(Reverse(shape)) = Product(shape)
    BY <1>1, ReversedProduct
<1> QED
    BY <1>2, <1>4, <1>5 DEF Offset, shape

\* What is found at an index is an element of the array.
LEMMA AtElement ==
    ASSUME NEW u, NEW T, u.shape \in Seq(Nat), u.elems \in Seq(T), Len(u.elems) = Product(u.shape),
           NEW i \in Indices(u.shape)
    PROVE  At(u, i) \in Elements(u) /\ At(u, i) \in T
<1>1. Offset(u, i) \in 0..(Product(u.shape) - 1) /\ Product(u.shape) \in Nat
    BY OffsetRange, ProductNumber
<1> DEFINE o == Offset(u, i)
           m == Product(u.shape)
<1>2. o \in 0..(m - 1) /\ m \in Nat /\ Len(u.elems) = m
    BY <1>1
<1> HIDE DEF o, m
<1>3. 1 + o \in 1..m
    BY <1>2
<1>4. 1 + o \in DOMAIN u.elems /\ u.elems[1 + o] \in T
    BY <1>2, <1>3, LenProperties, ElementOfSeq
<1> QED
    BY <1>4 DEF At, Elements, o

\* The order does not matter for one dimension or none.
LEMMA OneDimension ==
    ASSUME NEW s \in Seq(Nat), Len(s) <= 1
    PROVE  Reverse(s) = s
<1> DEFINE n == Len(s)
<1>1. n \in {0, 1}
    <2>1. n \in Nat /\ n <= 1
        BY LenProperties
    <2> HIDE DEF n
    <2> QED
        BY <2>1
<1>2. Reverse(s) \in Seq(Nat) /\ Len(Reverse(s)) = n /\ \A i \in 1..n : Reverse(s)[i] = s[n + 1 - i]
    BY Reversed
<1>3. \A i \in 1..n : n + 1 - i = i
    BY <1>1
<1>4. \A i \in 1..n : Reverse(s)[i] = s[i]
    BY <1>2, <1>3
<1> QED
    BY <1>2, <1>4, SeqEqual

-----------------------------------------------------------------------------
(* Trees as functions from paths.                                          *)

\* The paths of a tree.
Paths == Seq(Int)

\* The beginnings of a path.
LEMMA SubSeqPaths ==
    ASSUME NEW x \in Paths, NEW n \in 0..Len(x)
    PROVE  /\ SubSeq(x, 1, n) \in Paths /\ Len(SubSeq(x, 1, n)) = n
           /\ \A i \in 1..n : SubSeq(x, 1, n)[i] = x[i]
           /\ IsPrefix(SubSeq(x, 1, n), x)
<1>1. Len(x) \in Nat /\ n \in Nat /\ n <= Len(x) /\ x \in Seq(Int)
    BY LenProperties DEF Paths
<1>2. \A i \in 1..n : x[i] \in Int
    BY <1>1, ElementOfSeq
<1> DEFINE y == SubSeq(x, 1, n)
<1>3. y \in Seq(Int) /\ Len(y) = n /\ \A i \in 1..n : y[i] = x[i]
    BY <1>1, <1>2, SubSeqProperties
<1> HIDE DEF y
<1>4. IsPrefix(y, x)
    BY <1>1, <1>3, PrefixElements
<1> QED
    BY <1>3, <1>4 DEF y, Paths

\* A tree has a node for each prefix of a path.
LEMMA LinkedPrefix ==
    ASSUME NEW t, Linked(t), NEW x \in DOMAIN t, NEW p \in Paths, IsPrefix(p, x)
    PROVE  p \in DOMAIN t /\ x \in Paths
<1>1. x \in Paths
    BY DEF Linked, Paths
<1>2. Len(x) \in Nat /\ Len(p) \in Nat /\ Len(p) <= Len(x)
    BY <1>1, LenProperties DEF IsPrefix, Paths
<1> DEFINE n == Len(x) - Len(p)
           S == {k \in 0..n : SubSeq(x, 1, Len(x) - k) \in DOMAIN t}
<1>3. 0 \in S
    <2>1. Len(x) - 0 = Len(x) /\ SubSeq(x, 1, Len(x)) = x /\ 0 \in 0..n
        BY <1>1, <1>2, SubSeqFull DEF Paths
    <2> QED
        BY <2>1
<1>4. ASSUME NEW k \in 0..(n-1), k \in S PROVE k + 1 \in S
    <2> DEFINE m == Len(x) - k
               y == SubSeq(x, 1, m)
    <2>1. m \in 0..Len(x) /\ m # 0 /\ m - 1 = Len(x) - (k + 1) /\ k + 1 \in 0..n /\ m - 1 \in 0..Len(x)
        BY <1>2
    <2> HIDE DEF m
    <2>2. y \in Paths /\ Len(y) = m /\ \A i \in 1..m : y[i] = x[i]
        BY <1>1, <2>1, SubSeqPaths
    <2>3. y # <<>>
        BY <2>1, <2>2
    <2>4. y \in DOMAIN t
        BY <1>4 DEF m
    <2> HIDE DEF y
    <2>5. Front(y) \in DOMAIN t
        BY <2>3, <2>4 DEF Linked
    <2>6. Front(y) \in Seq(Int) /\ Len(Front(y)) = m - 1 /\ \A i \in 1..(m - 1) : Front(y)[i] = y[i]
        BY <2>2, <2>3, FrontLast DEF Paths
    <2>7. /\ SubSeq(x, 1, m - 1) \in Seq(Int) /\ Len(SubSeq(x, 1, m - 1)) = m - 1
          /\ \A i \in 1..(m - 1) : SubSeq(x, 1, m - 1)[i] = x[i]
        BY <1>1, <2>1, SubSeqPaths DEF Paths
    <2>8. \A i \in 1..(m - 1) : Front(y)[i] = SubSeq(x, 1, m - 1)[i]
        <3> TAKE i \in 1..(m - 1)
        <3>1. i \in 1..m
            BY <2>1
        <3> QED
            BY <2>2, <2>6, <2>7, <3>1
    <2>9. Front(y) = SubSeq(x, 1, m - 1)
        BY <2>6, <2>7, <2>8, SeqEqual
    <2> QED
        BY <2>1, <2>5, <2>9
<1>5. n \in Nat
    BY <1>2
<1>6. 0..n \subseteq S
    <2> HIDE DEF S, n
    <2> QED
        BY <1>3, <1>4, <1>5, BoundedInduction
<1> HIDE DEF S
<1>8. n \in S /\ Len(x) - n = Len(p)
    BY <1>2, <1>5, <1>6
<1>7. SubSeq(x, 1, Len(p)) = p
    BY <1>1, SubSeqFull DEF IsPrefix, Paths
<1> QED
    BY <1>1, <1>7, <1>8 DEF S

\* On the way to a node each node names the next one.
LEMMA LinkedNext ==
    ASSUME NEW t, Linked(t), NEW x \in DOMAIN t, NEW p \in Paths, IsPrefix(p, x), p # x
    PROVE  /\ Append(p, x[Len(p) + 1]) \in DOMAIN t
           /\ IsPrefix(Append(p, x[Len(p) + 1]), x)
           /\ x[Len(p) + 1] \in Range(t[p].names)
           /\ t[p].names # <<>>
<1>1. x \in Seq(Int) /\ p \in Seq(Int)
    BY DEF Linked, Paths
<1> DEFINE c == x[Len(p) + 1]
           y == Append(p, c)
<1>2. c \in Int /\ IsPrefix(y, x)
    BY <1>1, PrefixNext
<1> HIDE DEF c
<1>3. y \in Seq(Int) /\ y # <<>> /\ Front(y) = p /\ Last(y) = c
    BY <1>1, <1>2, AppendFront
<1> HIDE DEF y
<1>4. y \in DOMAIN t
    BY <1>2, <1>3, LinkedPrefix DEF Paths
<1>5. c \in Range(t[p].names)
    BY <1>3, <1>4 DEF Linked
<1>6. t[p].names # <<>>
    BY <1>5 DEF Range
<1> QED
    BY <1>2, <1>4, <1>5, <1>6 DEF y, c

\* The node that a path leads to, and that it is the only one.
LEMMA DeepestOn ==
    ASSUME NEW t, DOMAIN t \subseteq Paths, <<>> \in DOMAIN t, NEW x \in Paths
    PROVE  /\ Deepest(t, x) \in DOMAIN t /\ IsPrefix(Deepest(t, x), x)
           /\ \A q \in DOMAIN t : IsPrefix(q, x) => Len(q) <= Len(Deepest(t, x))
<1> DEFINE T == {Len(x) - Len(q) : q \in {r \in DOMAIN t : IsPrefix(r, x)}}
<1>1. T \in SUBSET Nat
    <2>1. \A q \in DOMAIN t : IsPrefix(q, x) => Len(q) \in Nat /\ Len(x) \in Nat /\ Len(q) <= Len(x)
        BY LenProperties DEF IsPrefix, Paths
    <2> QED
        BY <2>1
<1>2. T # {}
    <2>1. IsPrefix(<<>>, x)
        BY PrefixOrder DEF Paths
    <2> QED
        BY <2>1
<1> HIDE DEF T
<1>3. PICK m \in T : \A k \in T : ~(k < m)
    BY <1>1, <1>2, LeastNumber
<1>4. PICK p \in DOMAIN t : IsPrefix(p, x) /\ m = Len(x) - Len(p)
    BY <1>3 DEF T
<1>5. \A q \in DOMAIN t : IsPrefix(q, x) => Len(q) <= Len(p)
    <2> TAKE q \in DOMAIN t
    <2> HAVE IsPrefix(q, x)
    <2>1. Len(x) - Len(q) \in T
        BY DEF T
    <2>2. Len(x) \in Nat /\ Len(q) \in Nat /\ Len(p) \in Nat
        BY LenProperties DEF Paths
    <2> QED
        BY <1>3, <1>4, <2>1, <2>2
<1> QED
    BY <1>4, <1>5 DEF Deepest

\* The deepest node on the way is the longest path that leads along it.
LEMMA DeepestIs ==
    ASSUME NEW t, DOMAIN t \subseteq Paths, <<>> \in DOMAIN t, NEW x \in Paths,
           NEW p \in DOMAIN t, IsPrefix(p, x),
           \A q \in DOMAIN t : IsPrefix(q, x) => Len(q) <= Len(p)
    PROVE  Deepest(t, x) = p
<1>1. /\ Deepest(t, x) \in DOMAIN t /\ IsPrefix(Deepest(t, x), x)
      /\ Len(p) <= Len(Deepest(t, x))
    BY DeepestOn
<1>2. Len(Deepest(t, x)) <= Len(p)
    BY <1>1
<1>3. p \in Seq(Int) /\ Deepest(t, x) \in Seq(Int) /\ x \in Seq(Int)
    BY <1>1 DEF Paths
<1>4. IsPrefix(p, Deepest(t, x))
    BY <1>1, <1>3, PrefixOrder
<1> QED
    BY <1>2, <1>3, <1>4, PrefixOrder
----------------------------------------------------------------------------
\* There is one order of the keys.
LEMMA SortedExists ==
    ASSUME NEW keys \in Seq(Nat), IsInjective(keys)
    PROVE  \E s \in [DOMAIN keys -> Range(keys)] : \A a, b \in DOMAIN keys : a < b => s[a] < s[b]
<1> DEFINE n == Len(keys)
           D == 1..n
           upto(i) == {j \in D : keys[j] <= keys[i]}
           rank == [i \in D |-> Cardinality(upto(i))]
<1>1. n \in Nat /\ DOMAIN keys = D /\ \A i \in D : keys[i] \in Nat
    BY LenProperties, ElementOfSeq
<1>2. IsFiniteSet(D) /\ Cardinality(D) = n
    <2>1. IsFiniteSet(1..n) /\ Cardinality(1..n) = IF 1 > n THEN 0 ELSE n - 1 + 1
        BY <1>1, FS_Interval
    <2> QED
        BY <1>1, <2>1
<1> HIDE DEF n, D
<1>3. ASSUME NEW i \in D PROVE IsFiniteSet(upto(i)) /\ Cardinality(upto(i)) \in 1..n
    <2>1. upto(i) \in SUBSET D /\ i \in upto(i)
        BY <1>1
    <2> HIDE DEF upto
    <2>2. IsFiniteSet(upto(i)) /\ Cardinality(upto(i)) <= n
        BY <1>2, <2>1, FS_Subset
    <2>3. Cardinality(upto(i)) \in Nat /\ Cardinality(upto(i)) # 0
        BY <2>1, <2>2, FS_CardinalityType, FS_EmptySet
    <2> QED
        BY <1>1, <2>2, <2>3
<1>4. ASSUME NEW i \in D, NEW j \in D, keys[i] < keys[j]
      PROVE  rank[i] < rank[j]
    <2>1. upto(i) \in SUBSET upto(j) /\ j \in upto(j) /\ j \notin upto(i)
        BY <1>1, <1>4
    <2>2. upto(i) # upto(j)
        BY <2>1
    <2>3. rank[i] = Cardinality(upto(i)) /\ rank[j] = Cardinality(upto(j))
        OBVIOUS
    <2>4. IsFiniteSet(upto(j)) /\ Cardinality(upto(j)) \in 1..n /\ Cardinality(upto(i)) \in 1..n
        BY <1>3
    <2> DEFINE A == upto(i)
               B == upto(j)
    <2>5. A \in SUBSET B /\ A # B /\ IsFiniteSet(B) /\ Cardinality(A) \in Nat /\ Cardinality(B) \in Nat
        BY <1>1, <2>1, <2>2, <2>4
    <2> HIDE DEF A, B
    <2>6. Cardinality(A) <= Cardinality(B) /\ Cardinality(A) # Cardinality(B)
        BY <2>5, FS_Subset
    <2>7. Cardinality(A) < Cardinality(B)
        BY <2>5, <2>6
    <2> QED
        BY <2>3, <2>7 DEF A, B
<1>5. rank \in Injection(D, 1..n)
    <2>1. rank \in [D -> 1..n]
        BY <1>3
    <2>2. ASSUME NEW i \in D, NEW j \in D, rank[i] = rank[j] PROVE i = j
        <3>1. rank[i] \in 1..n /\ rank[j] \in 1..n
            BY <2>1
        <3>2. ~(rank[i] < rank[j]) /\ ~(rank[j] < rank[i])
            BY <2>2, <3>1, <1>1
        <3> HIDE DEF rank
        <3>3. ~(keys[i] < keys[j]) /\ ~(keys[j] < keys[i])
            BY <3>2, <1>4
        <3>4. keys[i] = keys[j]
            BY <1>1, <3>3
        <3> QED
            BY <1>1, <3>4 DEF IsInjective
    <2> QED
        BY <2>1, <2>2 DEF Injection, IsInjective
<1> HIDE DEF rank
<1>6. rank \in Surjection(D, 1..n)
    <2>1. IsFiniteSet(1..n) /\ Cardinality(1..n) = n
        BY <1>2 DEF D
    <2> QED
        BY <1>2, <1>5, <2>1, FS_Injection
<1> DEFINE s == [a \in D |-> keys[CHOOSE i \in D : rank[i] = a]]
<1>7. ASSUME NEW a \in D PROVE \E i \in D : rank[i] = a /\ s[a] = keys[i]
    <2>1. \E i \in D : rank[i] = a
        BY <1>6 DEF Surjection, D
    <2> QED
        BY <2>1
<1>8. s \in [D -> Range(keys)]
    <2>1. \A a \in D : s[a] \in Range(keys)
        BY <1>1, <1>7 DEF Range
    <2> QED
        BY <2>1
<1>9. ASSUME NEW a \in D, NEW b \in D, a < b PROVE s[a] < s[b]
    <2>1. PICK i \in D : rank[i] = a /\ s[a] = keys[i]
        BY <1>7
    <2>2. PICK j \in D : rank[j] = b /\ s[b] = keys[j]
        BY <1>7
    <2> HIDE DEF s
    <2>3. a \in Nat /\ b \in Nat /\ keys[i] \in Nat /\ keys[j] \in Nat
        BY <1>1 DEF D
    <2>4. ~(keys[j] < keys[i])
        <3>1. keys[j] < keys[i] => rank[j] < rank[i]
            BY <1>4
        <3> QED
            BY <1>9, <2>1, <2>2, <2>3, <3>1
    <2>5. keys[i] # keys[j]
        <3>1. keys[i] = keys[j] => i = j
            BY <1>1 DEF IsInjective
        <3> QED
            BY <1>9, <2>1, <2>2, <2>3, <3>1
    <2> QED
        BY <2>1, <2>2, <2>3, <2>4, <2>5
<1> QED
    BY <1>1, <1>8, <1>9

\* The sorted keys are the keys.
LEMMA SortedKeys ==
    ASSUME NEW keys \in Seq(Nat), IsInjective(keys)
    PROVE  /\ Sorted(keys) \in Seq(Nat) /\ IsInjective(Sorted(keys))
           /\ Len(Sorted(keys)) = Len(keys) /\ Range(Sorted(keys)) = Range(keys)
           /\ (Sorted(keys) = <<>> <=> keys = <<>>)
           /\ Sorted(Sorted(keys)) = Sorted(keys)
<1> DEFINE n == Len(keys)
           D == 1..n
           s == Sorted(keys)
           R == Range(keys)
<1>1. n \in Nat /\ DOMAIN keys = D /\ \A i \in D : keys[i] \in Nat
    BY LenProperties, ElementOfSeq
<1>2. IsFiniteSet(D) /\ Cardinality(D) = n
    <2>1. IsFiniteSet(1..n) /\ Cardinality(1..n) = IF 1 > n THEN 0 ELSE n - 1 + 1
        BY <1>1, FS_Interval
    <2> QED
        BY <1>1, <2>1
<1>3. s \in [DOMAIN keys -> R] /\ \A a, b \in DOMAIN keys : a < b => s[a] < s[b]
    BY SortedExists DEF Sorted
<1>4. s \in [D -> R] /\ \A a, b \in D : a < b => s[a] < s[b]
    BY <1>1, <1>3
<1> HIDE DEF s, n, R
<1>5. R \subseteq Nat
    BY <1>1 DEF Range, R
<1>6. s \in [1..n -> Nat]
    BY <1>4, <1>5
<1>7. s \in Seq(Nat) /\ Len(s) = n
    BY <1>1, <1>6, FunctionIsSeq
<1>8. s \in Injection(D, R)
    <2>1. ASSUME NEW a \in D, NEW b \in D, s[a] = s[b] PROVE a = b
        <3>1. a \in Nat /\ b \in Nat /\ s[a] \in Nat /\ s[b] \in Nat
            BY <1>1, <1>6
        <3>2. ~(a < b) /\ ~(b < a)
            BY <1>4, <2>1, <3>1
        <3> QED
            BY <3>1, <3>2
    <2> QED
        BY <1>4, <2>1 DEF Injection, IsInjective
<1>9. keys \in Injection(D, R)
    <2>1. keys \in [D -> R]
        <3>1. keys = [i \in 1..Len(keys) |-> keys[i]]
            BY LenProperties
        <3> QED
            BY <1>1, <3>1 DEF Range, R, n
    <2> QED
        BY <1>1, <2>1 DEF Injection, IsInjective
<1>10. keys \in Surjection(D, R)
    BY <1>1, <1>9 DEF Surjection, Injection, Range, R
<1> HIDE DEF D
<1>11. IsFiniteSet(R) /\ Cardinality(R) = n
    BY <1>2, <1>9, <1>10, FS_Surjection
<1>12. s \in Surjection(D, R)
    BY <1>2, <1>8, <1>11, FS_Injection
<1>13. DOMAIN s = D
    BY <1>4
<1>14. Range(s) = R
    <2>1. \A r \in R : \E a \in D : s[a] = r
        BY <1>12 DEF Surjection
    <2>2. \A a \in D : s[a] \in R
        BY <1>4
    <2> QED
        BY <1>13, <2>1, <2>2 DEF Range
<1>15. Sorted(s) = Sorted(keys)
    BY <1>1, <1>13, <1>14 DEF Sorted, R
<1>16. IsInjective(s)
    BY <1>8 DEF Injection
<1>17. s = <<>> <=> keys = <<>>
    BY <1>7, EmptySeq DEF n
<1> QED
    BY <1>7, <1>14, <1>15, <1>16, <1>17 DEF s, n, R

-----------------------------------------------------------------------------
(* Documents.                                                              *)

\* The nodes of a JSON document, and a document.
JsonNodeOK(v) ==
    /\ v.type \in {"null", "bool", "int", "real", "string", "array", "object"}
    /\ v.n \in Int \cup {NaN}
    /\ v.type \in {"bool", "int", "real"} => v.n \in Int /\ v.n # NaN
    /\ v.type = "bool" => v.n \in {0, 2}
    /\ v.names \in Seq(Int) /\ IsInjective(v.names)
    /\ v.type = "array" => v.names = ItemNames(Len(v.names))
    /\ v.type = "object" => v.names \in Seq(Nat)
    /\ v.type \notin {"array", "object"} => v.names = <<>>
Document(j) == Linked(j) /\ \A p \in DOMAIN j : JsonNodeOK(j[p])

\* The names of the items of a list: numbers below zero, all different.
LEMMA ItemNamesAre ==
    ASSUME NEW n \in Nat
    PROVE  /\ ItemNames(n) \in Seq(Int) /\ Len(ItemNames(n)) = n
           /\ \A k \in 1..n : ItemNames(n)[k] = -k
           /\ IsInjective(ItemNames(n))
           /\ DOMAIN ItemNames(n) = 1..n
           /\ \A c \in Int : c \in Range(ItemNames(n)) <=> ListItem(c) \in 0..(n - 1)
<1>1. ItemNames(n) = [k \in 1..n |-> -k]
    BY DEF ItemNames, ListItem
<1>2. ItemNames(n) \in [1..n -> Int]
    BY <1>1
<1>3. ItemNames(n) \in Seq(Int) /\ Len(ItemNames(n)) = n
    BY <1>2, FunctionIsSeq
<1>4. IsInjective(ItemNames(n))
    BY <1>1 DEF IsInjective
<1>5. ASSUME NEW c \in Int
      PROVE  c \in Range(ItemNames(n)) <=> ListItem(c) \in 0..(n - 1)
    <2>1. ASSUME c \in Range(ItemNames(n)) PROVE ListItem(c) \in 0..(n - 1)
        BY <1>1, <2>1 DEF Range, ListItem
    <2>2. ASSUME ListItem(c) \in 0..(n - 1) PROVE c \in Range(ItemNames(n))
        <3>1. -c \in 1..n /\ -(-c) = c
            BY <2>2 DEF ListItem
        <3>2. ItemNames(n)[-c] = c
            BY <1>1, <3>1
        <3> QED
            BY <1>1, <3>1, <3>2 DEF Range
    <2> QED
        BY <2>1, <2>2
<1> QED
    BY <1>1, <1>3, <1>4, <1>5

\* The index behind a path of names of items, and back.
LEMMA ItemPathIs ==
    ASSUME NEW x \in Paths
    PROVE  /\ ItemPath(x) \in Paths /\ Len(ItemPath(x)) = Len(x)
           /\ \A d \in 1..Len(x) : ItemPath(x)[d] = -1 - x[d]
           /\ ItemPath(ItemPath(x)) = x
<1>1. Len(x) \in Nat /\ DOMAIN x = 1..Len(x) /\ \A d \in 1..Len(x) : x[d] \in Int
    BY LenProperties, ElementOfSeq DEF Paths
<1> DEFINE y == ItemPath(x)
           n == Len(x)
<1>2. y = [d \in 1..n |-> -1 - x[d]]
    BY <1>1 DEF ItemPath, ListItem
<1>3. y \in [1..n -> Int]
    BY <1>1, <1>2
<1>4. y \in Seq(Int) /\ Len(y) = n
    BY <1>1, <1>3, FunctionIsSeq
<1>5. ItemPath(y) = [d \in 1..n |-> -1 - y[d]]
    BY <1>2 DEF ItemPath, ListItem
<1>6. ItemPath(y) = [d \in 1..n |-> x[d]]
    <2>1. \A d \in 1..n : -1 - (-1 - x[d]) = x[d]
        BY <1>1
    <2> QED
        BY <1>2, <1>5, <2>1
<1>7. x = [d \in 1..n |-> x[d]]
    BY LenProperties DEF Paths
<1> QED
    BY <1>2, <1>4, <1>6, <1>7 DEF Paths

\* The parts of the indexes of an array, as paths of names of items.
PartPath(shape, x) ==
    /\ x \in Paths /\ Len(x) <= Len(shape)
    /\ \A d \in 1..Len(x) : ListItem(x[d]) \in 0..(shape[d] - 1)

\* The nodes of a nested array are the parts of the indexes.
LEMMA PartPaths ==
    ASSUME NEW shape \in Seq(Nat), NEW x
    PROVE  PartPath(shape, x) <=>
             \E n \in 0..Len(shape) : \E i \in Indices(SubSeq(shape, 1, n)) : x = ItemPath(i)
<1>1. Len(shape) \in Nat /\ \A d \in 1..Len(shape) : shape[d] \in Nat
    BY LenProperties, ElementOfSeq
<1>2. ASSUME NEW n \in 0..Len(shape)
      PROVE  /\ SubSeq(shape, 1, n) \in Seq(Nat) /\ Len(SubSeq(shape, 1, n)) = n
             /\ \A d \in 1..n : SubSeq(shape, 1, n)[d] = shape[d]
    <2>1. \A d \in 1..n : shape[d] \in Nat
        BY <1>1
    <2> QED
        BY <1>1, <2>1, SubSeqProperties
<1>3. ASSUME PartPath(shape, x)
      PROVE  \E n \in 0..Len(shape) : \E i \in Indices(SubSeq(shape, 1, n)) : x = ItemPath(i)
    <2> DEFINE n == Len(x)
               i == ItemPath(x)
    <2>1. x \in Paths /\ n \in 0..Len(shape) /\ \A d \in 1..n : -1 - x[d] \in 0..(shape[d] - 1)
        BY <1>1, <1>3, LenProperties DEF PartPath, Paths, ListItem
    <2>2. i \in Paths /\ Len(i) = n /\ \A d \in 1..n : i[d] = -1 - x[d]
        BY <2>1, ItemPathIs
    <2>3. ItemPath(i) = x
        BY <2>1, ItemPathIs
    <2> HIDE DEF i, n
    <2>4. \A d \in 1..n : i[d] \in 0..(shape[d] - 1) /\ i[d] \in Nat
        <3> TAKE d \in 1..n
        <3>1. d \in 1..Len(shape) /\ shape[d] \in Nat
            BY <1>1, <2>1
        <3> QED
            BY <2>1, <2>2, <3>1
    <2>5. i \in Seq(Nat)
        BY <2>2, <2>4, SeqOfElements DEF Paths
    <2>6. i \in Indices(SubSeq(shape, 1, n))
        <3> DEFINE part == SubSeq(shape, 1, n)
        <3>1. part \in Seq(Nat) /\ Len(part) = n /\ \A d \in 1..n : part[d] = shape[d]
            BY <1>2, <2>1
        <3> HIDE DEF part
        <3>2. \A d \in 1..Len(part) : i[d] \in 0..(part[d] - 1)
            BY <2>4, <3>1
        <3>3. i \in Indices(part)
            BY <2>2, <2>5, <3>1, <3>2, IndicesAre
        <3> QED
            BY <3>3 DEF part
    <2> QED
        BY <2>1, <2>3, <2>6
<1>4. ASSUME NEW n \in 0..Len(shape), NEW i \in Indices(SubSeq(shape, 1, n)), x = ItemPath(i)
      PROVE  PartPath(shape, x)
    <2> DEFINE part == SubSeq(shape, 1, n)
    <2>1. part \in Seq(Nat) /\ Len(part) = n /\ \A d \in 1..n : part[d] = shape[d]
        BY <1>2
    <2>2. i \in Indices(part)
        OBVIOUS
    <2> HIDE DEF part
    <2>3. i \in Seq(Nat) /\ Len(i) = n /\ \A d \in 1..n : i[d] \in 0..(part[d] - 1)
        BY <2>1, <2>2, IndicesAre
    <2>4. i \in Paths /\ n \in Nat /\ n <= Len(shape) /\ \A d \in 1..n : i[d] \in Nat
        <3>1. \A d \in 1..Len(i) : i[d] \in Int
            BY <2>3, ElementOfSeq
        <3>2. i \in Seq(Int)
            BY <2>3, <3>1, SeqOfElements
        <3> QED
            BY <1>1, <2>3, <3>2, ElementOfSeq DEF Paths
    <2>5. x \in Paths /\ Len(x) = n /\ \A d \in 1..n : x[d] = -1 - i[d]
        BY <1>4, <2>3, <2>4, ItemPathIs
    <2>6. \A d \in 1..n : -1 - x[d] \in 0..(shape[d] - 1)
        <3> TAKE d \in 1..n
        <3>1. i[d] \in Nat /\ x[d] = -1 - i[d] /\ i[d] \in 0..(shape[d] - 1)
            BY <2>1, <2>3, <2>4, <2>5
        <3>2. -1 - x[d] = i[d]
            BY <3>1
        <3> QED
            BY <3>1, <3>2
    <2> QED
        BY <2>4, <2>5, <2>6 DEF PartPath, ListItem
<1> QED
    BY <1>3, <1>4

\* A whole path is an index.
LEMMA WholePath ==
    ASSUME NEW shape \in Seq(Nat), NEW x
    PROVE  /\ PartPath(shape, x) /\ Len(x) = Len(shape) => ItemPath(x) \in Indices(shape)
           /\ \A i \in Indices(shape) : /\ PartPath(shape, ItemPath(i)) /\ Len(ItemPath(i)) = Len(shape)
                                        /\ ItemPath(ItemPath(i)) = i
<1>1. Len(shape) \in Nat /\ \A d \in 1..Len(shape) : shape[d] \in Nat
    BY LenProperties, ElementOfSeq
<1>2. ASSUME PartPath(shape, x), Len(x) = Len(shape)
      PROVE  ItemPath(x) \in Indices(shape)
    <2> DEFINE i == ItemPath(x)
               n == Len(shape)
    <2>1. i \in Paths /\ Len(i) = n /\ \A d \in 1..n : i[d] = -1 - x[d]
        BY <1>2, ItemPathIs DEF PartPath
    <2>2. \A d \in 1..n : -1 - x[d] \in 0..(shape[d] - 1)
        BY <1>2 DEF PartPath, ListItem
    <2> HIDE DEF i
    <2>3. \A d \in 1..n : i[d] \in 0..(shape[d] - 1) /\ i[d] \in Nat
        BY <1>1, <2>1, <2>2
    <2>4. i \in Seq(Nat)
        BY <2>1, <2>3, SeqOfElements DEF Paths
    <2>5. i \in Indices(shape)
        BY <2>1, <2>3, <2>4, IndicesAre
    <2> QED
        BY <2>5 DEF i
<1>3. ASSUME NEW i \in Indices(shape)
      PROVE  PartPath(shape, ItemPath(i)) /\ Len(ItemPath(i)) = Len(shape) /\ ItemPath(ItemPath(i)) = i
    <2>1. Len(shape) \in 0..Len(shape) /\ SubSeq(shape, 1, Len(shape)) = shape
        BY <1>1, SubSeqFull
    <2>2. PartPath(shape, ItemPath(i))
        BY <2>1, PartPaths
    <2>3. i \in Seq(Nat) /\ Len(i) = Len(shape)
        BY IndicesAre
    <2>4. i \in Paths
        <3>1. \A d \in 1..Len(i) : i[d] \in Int
            BY <2>3, ElementOfSeq
        <3> QED
            BY <2>3, <3>1, SeqOfElements DEF Paths
    <2> QED
        BY <2>2, <2>3, <2>4, ItemPathIs
<1> QED
    BY <1>2, <1>3

\* What is in a nested array, and where.
LEMMA NestedAt ==
    ASSUME NEW u, u.shape \in Seq(Nat)
    PROVE  /\ \A x : x \in DOMAIN Nested(u) <=> PartPath(u.shape, x)
           /\ \A x \in DOMAIN Nested(u) :
                Nested(u)[x] = IF Len(x) < Len(u.shape)
                               THEN JInner("array", ItemNames(u.shape[Len(x) + 1]))
                               ELSE Number(u.type, At(u, ItemPath(x)))
<1>1. DOMAIN Nested(u) =
        {ItemPath(i) : i \in UNION {Indices(SubSeq(u.shape, 1, n)) : n \in 0..Len(u.shape)}}
    BY DEF Nested
<1>2. \A x : x \in DOMAIN Nested(u) <=>
             \E n \in 0..Len(u.shape) : \E i \in Indices(SubSeq(u.shape, 1, n)) : x = ItemPath(i)
    BY <1>1
<1>3. \A x \in DOMAIN Nested(u) :
                Nested(u)[x] = IF Len(x) < Len(u.shape)
                               THEN JInner("array", ItemNames(u.shape[Len(x) + 1]))
                               ELSE Number(u.type, At(u, ItemPath(x)))
    BY DEF Nested
<1> QED
    BY <1>2, <1>3, PartPaths

\* A number is a node of a document without children.
LEMMA NumberOK ==
    ASSUME NEW type, NEW n \in Int \cup {NaN}, type = "BOOL" => n \in {0, 2}
    PROVE  /\ JsonNodeOK(Number(type, n)) /\ Number(type, n).names = <<>>
           /\ Number(type, n).type \in {"null", "bool", "int", "real"}
<1>1. <<>> \in Seq(Int) /\ IsInjective(<<>>)
    BY DEF IsInjective
<1> QED
    BY <1>1 DEF Number, JNull, Json, JsonNodeOK

\* The fields of an array or an object.
LEMMA JInnerIs ==
    ASSUME NEW type, NEW names
    PROVE  /\ JInner(type, names) = [type |-> type, n |-> 0, names |-> names]
           /\ JInner(type, names).type = type /\ JInner(type, names).names = names
           /\ JInner(type, names).n = 0
BY DEF JInner

\* An array of a document names its items as a list does.
LEMMA ArrayNodeOK ==
    ASSUME NEW n \in Nat
    PROVE  JsonNodeOK(JInner("array", ItemNames(n)))
<1>1. ItemNames(n) \in Seq(Int) /\ Len(ItemNames(n)) = n /\ IsInjective(ItemNames(n))
    BY ItemNamesAre
<1> QED
    BY <1>1, JInnerIs DEF JsonNodeOK

\* The nodes that are arrays or scalars.
DataNode(u) == NodeOK(u) /\ ~Inner(u) /\ u.type # "EMPTY"

\* Nested arrays are a document.
LEMMA NestedOK ==
    ASSUME NEW u, DataNode(u)
    PROVE  Document(Nested(u))
<1> DEFINE j == Nested(u)
           shape == u.shape
           n == Len(shape)
<1>1. /\ shape \in Seq(Nat) /\ n \in Nat /\ \A d \in 1..n : shape[d] \in Nat
      /\ u.elems \in Seq(Int \cup {NaN}) /\ Len(u.elems) = Product(u.shape)
      /\ u.type = "BOOL" => Elements(u) \subseteq {0, 2}
    BY LenProperties, ElementOfSeq DEF DataNode, NodeOK
<1>2. \A x : x \in DOMAIN j <=> PartPath(shape, x)
    BY <1>1, NestedAt
<1>3. \A x \in DOMAIN j :
          j[x] = IF Len(x) < n THEN JInner("array", ItemNames(shape[Len(x) + 1]))
                 ELSE Number(u.type, At(u, ItemPath(x)))
    BY <1>1, NestedAt
<1> HIDE DEF j
<1>4. ASSUME NEW x \in DOMAIN j
      PROVE  /\ x \in Seq(Int) /\ Len(x) \in 0..n
             /\ Len(x) < n => shape[Len(x) + 1] \in Nat
             /\ Len(x) = n => ItemPath(x) \in Indices(shape)
    <2>1. x \in Paths /\ Len(x) <= n /\ Len(x) \in Nat
        BY <1>2, LenProperties DEF PartPath, Paths
    <2>2. Len(x) < n => Len(x) + 1 \in 1..n
        BY <1>1, <2>1
    <2> QED
        BY <1>1, <1>2, <2>1, <2>2, WholePath DEF Paths
<1>5. ASSUME NEW x \in DOMAIN j PROVE JsonNodeOK(j[x])
    <2>1. CASE Len(x) < n
        BY <1>3, <1>4, <2>1, ArrayNodeOK
    <2>2. CASE ~(Len(x) < n)
        <3>1. ItemPath(x) \in Indices(u.shape)
            BY <1>1, <1>4, <2>2
        <3>2. At(u, ItemPath(x)) \in Elements(u) /\ At(u, ItemPath(x)) \in Int \cup {NaN}
            BY <1>1, <3>1, AtElement
        <3>3. u.type = "BOOL" => At(u, ItemPath(x)) \in {0, 2}
            BY <1>1, <3>2
        <3> QED
            BY <1>3, <2>2, <3>2, <3>3, NumberOK
    <2> QED
        BY <2>1, <2>2
<1>6. <<>> \in DOMAIN j
    <2>1. <<>> \in Paths /\ Len(<<>>) = 0 /\ 1..0 = {}
        BY DEF Paths
    <2> QED
        BY <1>1, <1>2, <2>1 DEF PartPath
<1>7. ASSUME NEW x \in DOMAIN j, x # <<>>
      PROVE  Front(x) \in DOMAIN j /\ Last(x) \in Range(j[Front(x)].names)
    <2>1. /\ x \in Seq(Int) /\ Len(x) \in 0..n /\ Len(x) # 0
          /\ \A d \in 1..Len(x) : ListItem(x[d]) \in 0..(shape[d] - 1)
        BY <1>2, <1>4, <1>7, EmptySeq DEF PartPath
    <2>2. /\ Front(x) \in Seq(Int) /\ Last(x) \in Int /\ Len(Front(x)) = Len(x) - 1
          /\ \A d \in 1..(Len(x) - 1) : Front(x)[d] = x[d]
        BY <1>7, <2>1, FrontLast
    <2>3. PartPath(shape, Front(x))
        <3>1. \A d \in 1..(Len(x) - 1) : d \in 1..Len(x)
            BY <2>1
        <3>2. Len(Front(x)) <= n
            BY <1>1, <2>1, <2>2
        <3>3. \A d \in 1..Len(Front(x)) : ListItem(Front(x)[d]) \in 0..(shape[d] - 1)
            <4> TAKE d \in 1..Len(Front(x))
            <4>1. d \in 1..(Len(x) - 1)
                BY <2>2
            <4>2. Front(x)[d] = x[d] /\ d \in 1..Len(x)
                BY <2>2, <3>1, <4>1
            <4> QED
                BY <2>1, <4>2
        <3> QED
            BY <1>1, <2>1, <2>2, <3>2, <3>3 DEF PartPath, Paths
    <2>4. Front(x) \in DOMAIN j
        BY <1>2, <2>3
    <2>5. Len(Front(x)) < n /\ Len(Front(x)) + 1 = Len(x) /\ shape[Len(x)] \in Nat
        BY <1>1, <2>1, <2>2
    <2>6. j[Front(x)] = JInner("array", ItemNames(shape[Len(x)]))
        BY <1>3, <2>4, <2>5
    <2>7. j[Front(x)].names = ItemNames(shape[Len(x)])
        BY <2>6, JInnerIs
    <2>8. ListItem(Last(x)) \in 0..(shape[Len(x)] - 1)
        <3>1. Len(x) \in 1..Len(x)
            BY <2>1
        <3> QED
            BY <2>1, <3>1 DEF Last
    <2>9. Last(x) \in Range(ItemNames(shape[Len(x)]))
        BY <2>2, <2>5, <2>8, ItemNamesAre
    <2> QED
        BY <2>4, <2>7, <2>9
<1>8. ASSUME NEW x \in DOMAIN j, NEW i \in DOMAIN j[x].names
      PROVE  Append(x, j[x].names[i]) \in DOMAIN j
    <2>1. /\ x \in Seq(Int) /\ Len(x) \in 0..n
          /\ \A d \in 1..Len(x) : ListItem(x[d]) \in 0..(shape[d] - 1)
        BY <1>2, <1>4 DEF PartPath
    <2>2. Len(x) < n
        <3> SUFFICES ASSUME ~(Len(x) < n) PROVE FALSE
            OBVIOUS
        <3>1. ItemPath(x) \in Indices(u.shape)
            BY <1>1, <1>4, <2>1
        <3>2. At(u, ItemPath(x)) \in Elements(u) /\ At(u, ItemPath(x)) \in Int \cup {NaN}
            BY <1>1, <3>1, AtElement
        <3>3. u.type = "BOOL" => At(u, ItemPath(x)) \in {0, 2}
            BY <1>1, <3>2
        <3> DEFINE a == At(u, ItemPath(x))
        <3>4. a \in Int \cup {NaN} /\ (u.type = "BOOL" => a \in {0, 2}) /\ j[x] = Number(u.type, a)
            BY <1>3, <3>2, <3>3
        <3> HIDE DEF a
        <3>5. j[x].names = <<>>
            BY <3>4, NumberOK
        <3> QED
            BY <1>8, <3>5
    <2> DEFINE m == shape[Len(x) + 1]
               c == j[x].names[i]
               y == Append(x, c)
    <2>3. m \in Nat /\ j[x].names = ItemNames(m)
        <3>1. m \in Nat /\ j[x] = JInner("array", ItemNames(m))
            BY <1>3, <1>4, <2>2
        <3> HIDE DEF m
        <3> QED
            BY <3>1, JInnerIs
    <2>4. c \in Int /\ c \in Range(ItemNames(m))
        <3>1. i \in DOMAIN ItemNames(m) /\ c = ItemNames(m)[i]
            BY <1>8, <2>3
        <3> HIDE DEF m, c
        <3>2. i \in 1..m /\ c = -i
            BY <2>3, <3>1, ItemNamesAre
        <3>3. c \in Int
            BY <2>3, <3>2
        <3>4. c \in Range(ItemNames(m))
            BY <3>1 DEF Range
        <3> QED
            BY <3>3, <3>4
    <2>5. ListItem(c) \in 0..(m - 1)
        BY <2>3, <2>4, ItemNamesAre
    <2>6. y \in Seq(Int) /\ Len(y) = Len(x) + 1 /\ \A d \in 1..(Len(x) + 1) : y[d] = IF d <= Len(x) THEN x[d] ELSE c
        BY <2>1, <2>4, AppendProperties
    <2> HIDE DEF m, c, y
    <2>7. \A d \in 1..Len(y) : ListItem(y[d]) \in 0..(shape[d] - 1)
        <3> TAKE d \in 1..Len(y)
        <3>1. CASE d <= Len(x)
            <4>1. d \in 1..Len(x) /\ d \in 1..(Len(x) + 1)
                BY <2>1, <3>1
            <4> QED
                BY <2>1, <2>6, <3>1, <4>1
        <3>2. CASE ~(d <= Len(x))
            <4>1. d = Len(x) + 1
                BY <2>1, <2>6, <3>2
            <4> QED
                BY <2>5, <2>6, <3>2, <4>1 DEF m
        <3> QED
            BY <3>1, <3>2
    <2>8. PartPath(shape, y)
        BY <1>1, <2>1, <2>2, <2>6, <2>7 DEF PartPath, Paths
    <2> QED
        BY <1>2, <2>8 DEF y, c
<1>9. Linked(j)
    BY <1>4, <1>6, <1>7, <1>8 DEF Linked
<1> QED
    BY <1>5, <1>9 DEF Document, j

\* A single node is a tree.
LEMMA AloneIs ==
    ASSUME NEW u
    PROVE  /\ DOMAIN Alone(u) = {<<>>} /\ Alone(u)[<<>>] = u
           /\ \A p \in DOMAIN Alone(u) : p = <<>> /\ Alone(u)[p] = u
           /\ u.names = <<>> => Linked(Alone(u))
<1>1. DOMAIN Alone(u) = {<<>>} /\ Alone(u)[<<>>] = u
    BY DEF Alone
<1>2. ASSUME u.names = <<>> PROVE Linked(Alone(u))
    BY <1>1, <1>2 DEF Linked
<1> QED
    BY <1>1, <1>2

\* Two single nodes that are one tree are one node.
LEMMA SameAlone ==
    ASSUME NEW u, NEW v, Alone(u) = Alone(v)
    PROVE  u = v
BY AloneIs

\* A node of a tree or a document is no failure.
LEMMA NotFailed ==
    ASSUME NEW t, <<>> \in DOMAIN t, t[<<>>].type # "failure"
    PROVE  ~Failed(t)
<1> SUFFICES ASSUME Failed(t) PROVE FALSE
    OBVIOUS
<1>1. t = Alone([type |-> "failure"])
    BY DEF Failed, Failure
<1>2. t[<<>>] = [type |-> "failure"]
    BY <1>1, AloneIs
<1> QED
    BY <1>2

\* The document of one node.
LEMMA NodeToJsonOK ==
    ASSUME NEW u, NodeOK(u), ~Failed(NodeToJson(u))
    PROVE  /\ \A x \in DOMAIN NodeToJson(u) :
                /\ x \in Paths /\ JsonNodeOK(NodeToJson(u)[x])
                /\ Len(x) <= MaxRank
           /\ <<>> \in DOMAIN NodeToJson(u)
           /\ Inner(u) => /\ DOMAIN NodeToJson(u) = {<<>>}
                          /\ Range(NodeToJson(u)[<<>>].names) = Range(u.names)
           /\ ~Inner(u) => Linked(NodeToJson(u))
<1> DEFINE j == NodeToJson(u)
           Goal(d) ==
             /\ \A x \in DOMAIN d : x \in Paths /\ JsonNodeOK(d[x]) /\ Len(x) <= MaxRank
             /\ <<>> \in DOMAIN d
             /\ Inner(u) => DOMAIN d = {<<>>} /\ Range(d[<<>>].names) = Range(u.names)
             /\ ~Inner(u) => Linked(d)
<1> SUFFICES Goal(j)
    OBVIOUS
<1>1. <<>> \in Paths /\ Len(<<>>) = 0 /\ MaxRank \in Nat /\ IsInjective(<<>>)
    BY SerializersAssumption DEF Paths, IsInjective
<1>2. ASSUME NEW v, JsonNodeOK(v), Inner(u) => Range(v.names) = Range(u.names),
             ~Inner(u) => v.names = <<>>
      PROVE  Goal(Alone(v))
    <2>1. DOMAIN Alone(v) = {<<>>} /\ Alone(v)[<<>>] = v
        BY AloneIs
    <2>2. ~Inner(u) => Linked(Alone(v))
        BY <1>2, AloneIs
    <2> QED
        BY <1>1, <1>2, <2>1, <2>2
<1>3. JsonNodeOK(JNull) /\ JNull.names = <<>>
    BY <1>1 DEF JNull, Json, JsonNodeOK
<1> HIDE DEF Goal
<1>4. CASE u.type = "EMPTY" \/ (u.type = "STRUCT" /\ u.names = <<>>)
    <2>1. j = Alone(JNull)
        BY <1>4 DEF NodeToJson
    <2>2. Inner(u) => Range(JNull.names) = Range(u.names)
        BY <1>3, <1>4 DEF Inner
    <2> QED
        BY <1>2, <1>3, <2>1, <2>2
<1>5. CASE u.type = "STRING"
    <2> DEFINE v == Json("string", u.elems[1])
    <2>1. j = Alone(v)
        BY <1>5 DEF NodeToJson
    <2>2. u.elems[1] \in Int \cup {NaN}
        <3>1. u.elems \in Seq(Int \cup {NaN}) /\ Len(u.elems) = 1
            BY <1>5, ScalarProduct DEF NodeOK, Inner
        <3> QED
            BY <3>1, ElementOfSeq
    <2>3. JsonNodeOK(v) /\ v.names = <<>>
        BY <1>1, <2>2 DEF Json, JsonNodeOK
    <2>4. ~Inner(u)
        BY <1>5 DEF Inner
    <2> HIDE DEF v
    <2> QED
        BY <1>2, <2>1, <2>3, <2>4
<1>6. CASE u.type = "STRUCT" /\ u.names # <<>>
    <2> DEFINE v == JInner("object", Sorted(u.names))
    <2>1. j = Alone(v)
        BY <1>6 DEF NodeToJson
    <2>2. u.names \in Seq(Nat) /\ IsInjective(u.names)
        BY <1>6 DEF NodeOK
    <2>3. Sorted(u.names) \in Seq(Nat) /\ IsInjective(Sorted(u.names)) /\ Range(Sorted(u.names)) = Range(u.names)
        BY <2>2, SortedKeys
    <2>4. Sorted(u.names) \in Seq(Int)
        <3> DEFINE s == Sorted(u.names)
        <3>1. s \in Seq(Nat)
            BY <2>3
        <3> HIDE DEF s
        <3>2. \A i \in 1..Len(s) : s[i] \in Int
            BY <3>1, ElementOfSeq
        <3>3. s \in Seq(Int)
            BY <3>1, <3>2, SeqOfElements
        <3> QED
            BY <3>3 DEF s
    <2>5. v.type = "object" /\ v.n = 0 /\ v.names = Sorted(u.names)
        BY JInnerIs
    <2> HIDE DEF v
    <2>6. JsonNodeOK(v)
        BY <2>3, <2>4, <2>5 DEF JsonNodeOK
    <2>7. Range(v.names) = Range(u.names) /\ Inner(u)
        BY <1>6, <2>3, <2>5 DEF Inner
    <2> QED
        BY <1>2, <2>1, <2>6, <2>7
<1>7. CASE u.type = "LIST"
    <2> DEFINE v == JInner("array", u.names)
    <2>1. j = Alone(v)
        BY <1>7 DEF NodeToJson
    <2>2. u.names \in Seq(Int) /\ IsInjective(u.names) /\ u = ListNode(Len(u.names))
        BY <1>7 DEF NodeOK
    <2>3. u.names = ItemNames(Len(u.names))
        BY <2>2 DEF ListNode, Node
    <2>4. v.type = "array" /\ v.n = 0 /\ v.names = u.names
        BY JInnerIs
    <2> HIDE DEF v
    <2>5. JsonNodeOK(v)
        BY <2>2, <2>3, <2>4 DEF JsonNodeOK
    <2>6. Range(v.names) = Range(u.names) /\ Inner(u)
        BY <1>7, <2>4 DEF Inner
    <2> QED
        BY <1>2, <2>1, <2>5, <2>6
<1>8. CASE u.type \notin {"EMPTY", "STRUCT", "STRING", "LIST"}
    <2>1. j = BufferToJson(u) /\ ~Inner(u)
        BY <1>8 DEF NodeToJson, Inner
    <2>2. CASE Len(u.shape) > MaxRank
        BY <2>1, <2>2 DEF BufferToJson, Failed
    <2>3. CASE ~(Len(u.shape) > MaxRank) /\ Product(u.shape) = 0
        <3>1. j = Alone(JNull)
            BY <2>1, <2>3 DEF BufferToJson
        <3> QED
            BY <1>2, <1>3, <2>1, <3>1
    <2>4. CASE ~(Len(u.shape) > MaxRank) /\ Product(u.shape) # 0
        <3>1. j = Nested(u)
            BY <2>1, <2>4 DEF BufferToJson
        <3>2. DataNode(u)
            BY <1>8, <2>1 DEF DataNode
        <3>3. Document(j)
            BY <3>1, <3>2, NestedOK
        <3>4. u.shape \in Seq(Nat) /\ Len(u.shape) \in Nat
            BY LenProperties DEF NodeOK
        <3>5. \A x \in DOMAIN j : x \in Paths /\ Len(x) <= Len(u.shape)
            BY <3>1, <3>4, NestedAt DEF PartPath
        <3>6. \A x \in DOMAIN j : Len(x) <= MaxRank
            <4> TAKE x \in DOMAIN j
            <4>1. Len(x) \in Nat /\ Len(x) <= Len(u.shape)
                BY <3>5, LenProperties DEF Paths
            <4> QED
                BY <1>1, <2>4, <3>4, <4>1
        <3> QED
            BY <2>1, <3>3, <3>5, <3>6 DEF Document, Linked, Goal
    <2> QED
        BY <2>2, <2>3, <2>4
<1> QED
    BY <1>4, <1>5, <1>6, <1>7, <1>8

\* A document has each node in its place.
LEMMA ToJsonAt ==
    ASSUME NEW t, Wellformed(t), ~Failed(ToJson(t))
    PROVE  /\ \A p \in DOMAIN t :
                /\ p \in Paths /\ ~Failed(NodeToJson(t[p]))
                /\ \A q \in DOMAIN NodeToJson(t[p]) :
                     /\ q \in Paths
                     /\ p \o q \in DOMAIN ToJson(t)
                     /\ ToJson(t)[p \o q] = NodeToJson(t[p])[q]
           /\ \A x \in DOMAIN ToJson(t) :
                \E p \in DOMAIN t : \E q \in DOMAIN NodeToJson(t[p]) : x = p \o q
<1> DEFINE doc == [p \in DOMAIN t |-> NodeToJson(t[p])]
           paths == UNION {{p \o q : q \in DOMAIN doc[p]} : p \in DOMAIN t}
           j == ToJson(t)
<1>1. ASSUME NEW p \in DOMAIN t PROVE ~Failed(doc[p])
    <2>1. ASSUME Failed(doc[p]) PROVE FALSE
        <3>1. j = Failure
            BY <2>1 DEF ToJson
        <3> QED
            BY <3>1 DEF Failed
    <2> QED
        BY <2>1
<1>2. j = [x \in paths |-> LET p == Deepest(t, x) IN doc[p][Rest(p, x)]]
    <2>1. ~\E p \in DOMAIN t : Failed(doc[p])
        BY <1>1
    <2> QED
        BY <2>1, Zenon DEF ToJson
<1>3. \A p \in DOMAIN t : doc[p] = NodeToJson(t[p]) /\ NodeOK(t[p]) /\ p \in Paths
    BY DEF Wellformed, Linked, Paths
<1>4. Linked(t) /\ <<>> \in DOMAIN t
    BY DEF Wellformed, Linked
<1> HIDE DEF doc
<1>5. ASSUME NEW p \in DOMAIN t, NEW q \in DOMAIN doc[p]
      PROVE  q \in Paths /\ p \o q \in DOMAIN j /\ j[p \o q] = doc[p][q]
    <2> DEFINE x == p \o q
    <2>1. q \in Paths /\ (Inner(t[p]) => q = <<>>)
        BY <1>1, <1>3, NodeToJsonOK
    <2>2. p \in Seq(Int) /\ q \in Seq(Int)
        BY <1>3, <2>1 DEF Paths
    <2>3. x \in Seq(Int) /\ Len(x) = Len(p) + Len(q) /\ IsPrefix(p, x) /\ Rest(p, x) = q
        BY <2>2, ConcatPaths, PrefixConcat DEF Rest
    <2>4. ASSUME NEW r \in DOMAIN t, IsPrefix(r, x), ~(Len(r) <= Len(p)) PROVE FALSE
        <3>1. r \in Seq(Int) /\ Len(r) \in Nat /\ Len(p) \in Nat
            BY <1>3, <2>2, LenProperties DEF Paths
        <3> HIDE DEF x
        <3>2. IsPrefix(p, r) /\ p # r
            BY <2>2, <2>3, <2>4, <3>1, PrefixOrder
        <3>3. t[p].names # <<>>
            BY <1>3, <1>4, <3>2, LinkedNext
        <3>4. q = <<>>
            BY <1>3, <2>1, <3>3 DEF NodeOK
        <3>5. Len(r) <= Len(x) /\ Len(x) = Len(p)
            BY <2>3, <2>4, <3>1, <3>4 DEF IsPrefix
        <3> QED
            BY <2>4, <3>1, <3>5
    <2>5. Deepest(t, x) = p
        <3> HIDE DEF x
        <3> QED
            BY <1>3, <1>4, <2>3, <2>4, DeepestIs DEF Paths
    <2>6. x \in paths
        OBVIOUS
    <2>7. j[x] = doc[p][q] /\ x \in DOMAIN j
        <3> HIDE DEF j, paths, x
        <3> QED
            BY <1>2, <2>3, <2>5, <2>6
    <2> QED
        BY <2>1, <2>7
<1>6. ASSUME NEW x \in DOMAIN j PROVE \E p \in DOMAIN t : \E q \in DOMAIN doc[p] : x = p \o q
    <2>1. x \in paths
        <3> HIDE DEF j, paths
        <3> QED
            BY <1>2
    <2> QED
        BY <2>1
<1> HIDE DEF j
<1>7. /\ \A p \in DOMAIN t :
                /\ p \in Paths /\ ~Failed(NodeToJson(t[p]))
                /\ \A q \in DOMAIN NodeToJson(t[p]) :
                     /\ q \in Paths
                     /\ p \o q \in DOMAIN j
                     /\ j[p \o q] = NodeToJson(t[p])[q]
      /\ \A x \in DOMAIN j :
                \E p \in DOMAIN t : \E q \in DOMAIN NodeToJson(t[p]) : x = p \o q
    BY <1>1, <1>3, <1>5, <1>6
<1> QED
    BY <1>7 DEF j

\* A tree is written as a document.
LEMMA ToJsonOK ==
    ASSUME NEW t, Wellformed(t), ~Failed(ToJson(t))
    PROVE  Document(ToJson(t))
<1> DEFINE j == ToJson(t)
           doc(p) == NodeToJson(t[p])
<1>1. /\ \A p \in DOMAIN t :
           /\ p \in Seq(Int) /\ ~Failed(doc(p)) /\ NodeOK(t[p])
           /\ \A q \in DOMAIN doc(p) :
                q \in Seq(Int) /\ p \o q \in DOMAIN j /\ j[p \o q] = doc(p)[q]
      /\ \A x \in DOMAIN j : \E p \in DOMAIN t : \E q \in DOMAIN doc(p) : x = p \o q
    BY ToJsonAt DEF Paths, Wellformed
<1>2. ASSUME NEW p \in DOMAIN t
      PROVE  /\ \A q \in DOMAIN doc(p) : JsonNodeOK(doc(p)[q])
             /\ <<>> \in DOMAIN doc(p)
             /\ Inner(t[p]) => DOMAIN doc(p) = {<<>>} /\ Range(doc(p)[<<>>].names) = Range(t[p].names)
             /\ ~Inner(t[p]) => Linked(doc(p))
    BY <1>1, NodeToJsonOK
<1>3. Linked(t)
    BY DEF Wellformed
<1> HIDE DEF j, doc
<1>4. ASSUME NEW x \in DOMAIN j
      PROVE  x \in Seq(Int) /\ JsonNodeOK(j[x]) /\ j[x].names \in Seq(Int)
    <2>0. PICK p \in DOMAIN t : \E q \in DOMAIN doc(p) : x = p \o q
        BY <1>1
    <2>1. PICK q \in DOMAIN doc(p) : x = p \o q
        BY <2>0
    <2>2. p \in Seq(Int) /\ q \in Seq(Int) /\ j[x] = doc(p)[q] /\ JsonNodeOK(j[x])
        BY <1>1, <1>2, <2>1
    <2>3. x \in Seq(Int)
        BY <2>1, <2>2, ConcatPaths
    <2> QED
        BY <2>2, <2>3 DEF JsonNodeOK
<1>5. ASSUME NEW p \in DOMAIN t PROVE p \in DOMAIN j /\ j[p] = doc(p)[<<>>]
    <2>1. p \o <<>> = p
        BY <1>1, EmptySeq, ConcatPaths
    <2>2. <<>> \in DOMAIN doc(p)
        BY <1>2
    <2> QED
        BY <1>1, <2>1, <2>2
<1>6. <<>> \in DOMAIN j
    BY <1>3, <1>5 DEF Linked
<1>7. ASSUME NEW x \in DOMAIN j, x # <<>>
      PROVE  Front(x) \in DOMAIN j /\ Last(x) \in Range(j[Front(x)].names)
    <2>0. PICK p \in DOMAIN t : \E q \in DOMAIN doc(p) : x = p \o q
        BY <1>1
    <2>1. PICK q \in DOMAIN doc(p) : x = p \o q
        BY <2>0
    <2>2. p \in Seq(Int) /\ q \in Seq(Int)
        BY <1>1
    <2>3. CASE q = <<>>
        <3>1. x = p
            BY <2>1, <2>2, <2>3, ConcatPaths
        <3>2. Front(p) \in DOMAIN t /\ Last(p) \in Range(t[Front(p)].names)
            BY <1>3, <1>7, <3>1 DEF Linked
        <3>3. t[Front(p)].names # <<>>
            BY <3>2 DEF Range
        <3>4. Inner(t[Front(p)])
            BY <1>1, <3>2, <3>3 DEF NodeOK
        <3>5. Range(doc(Front(p))[<<>>].names) = Range(t[Front(p)].names)
            BY <1>2, <3>2, <3>4
        <3>6. Front(p) \in DOMAIN j /\ j[Front(p)] = doc(Front(p))[<<>>]
            BY <1>5, <3>2
        <3> QED
            BY <3>1, <3>2, <3>5, <3>6
    <2>4. CASE q # <<>>
        <3>1. ~Inner(t[p])
            BY <1>2, <2>4
        <3>2. Linked(doc(p))
            BY <1>2, <3>1
        <3>3. Front(q) \in DOMAIN doc(p) /\ Last(q) \in Range(doc(p)[Front(q)].names)
            BY <2>4, <3>2 DEF Linked
        <3>4. Front(x) = p \o Front(q) /\ Last(x) = Last(q)
            BY <2>1, <2>2, <2>4, ConcatPaths
        <3>5. Front(x) \in DOMAIN j /\ j[Front(x)] = doc(p)[Front(q)]
            BY <1>1, <3>3, <3>4
        <3> QED
            BY <3>3, <3>4, <3>5
    <2> QED
        BY <2>3, <2>4
<1>8. ASSUME NEW x \in DOMAIN j, NEW i \in DOMAIN j[x].names
      PROVE  Append(x, j[x].names[i]) \in DOMAIN j
    <2>0. PICK p \in DOMAIN t : \E q \in DOMAIN doc(p) : x = p \o q
        BY <1>1
    <2>1. PICK q \in DOMAIN doc(p) : x = p \o q
        BY <2>0
    <2>2. p \in Seq(Int) /\ q \in Seq(Int) /\ j[x] = doc(p)[q]
        BY <1>1, <2>1
    <2> DEFINE c == j[x].names[i]
    <2>3. c \in Int
        BY <1>4, ElementOfSeq
    <2>4. CASE Inner(t[p])
        <3>1. q = <<>> /\ x = p
            BY <1>2, <2>1, <2>2, <2>4, ConcatPaths
        <3>2. c \in Range(t[p].names)
            <4>1. c \in Range(doc(p)[<<>>].names)
                BY <2>2, <3>1 DEF Range
            <4> QED
                BY <1>2, <2>4, <4>1
        <3>3. PICK k \in DOMAIN t[p].names : c = t[p].names[k]
            BY <3>2 DEF Range
        <3>4. Append(p, c) \in DOMAIN t
            BY <1>3, <3>3 DEF Linked
        <3> QED
            BY <1>5, <3>1, <3>4
    <2>5. CASE ~Inner(t[p])
        <3>1. Linked(doc(p))
            BY <1>2, <2>5
        <3>2. i \in DOMAIN doc(p)[q].names /\ c = doc(p)[q].names[i]
            BY <2>2
        <3> HIDE DEF c
        <3>3. Append(q, c) \in DOMAIN doc(p)
            BY <3>1, <3>2 DEF Linked
        <3>4. p \o Append(q, c) = Append(x, c)
            BY <2>1, <2>2, <2>3, ConcatPaths
        <3>5. Append(x, c) \in DOMAIN j
            BY <1>1, <3>3, <3>4
        <3> QED
            BY <3>5 DEF c
    <2> QED
        BY <2>4, <2>5
<1>9. Linked(j)
    BY <1>4, <1>6, <1>7, <1>8 DEF Linked
<1> QED
    BY <1>4, <1>9 DEF Document, j

\* What is written is no deeper than the tree and its arrays.
Within(t, depth) == \A p \in DOMAIN t : Len(p) <= depth

\* A document is at most MaxRank levels deeper than its tree.
LEMMA ToJsonWithin ==
    ASSUME NEW t, Wellformed(t), ~Failed(ToJson(t)), NEW depth \in Nat, Within(t, depth)
    PROVE  Within(ToJson(t), depth + MaxRank) /\ depth + MaxRank \in Nat
<1>1. MaxRank \in Nat
    BY SerializersAssumption
<1>2. ASSUME NEW x \in DOMAIN ToJson(t) PROVE Len(x) <= depth + MaxRank
    <2>0. PICK p \in DOMAIN t : \E q \in DOMAIN NodeToJson(t[p]) : x = p \o q
        BY ToJsonAt
    <2>1. PICK q \in DOMAIN NodeToJson(t[p]) : x = p \o q
        BY <2>0
    <2>2. p \in Seq(Int) /\ q \in Seq(Int) /\ ~Failed(NodeToJson(t[p])) /\ NodeOK(t[p])
        BY ToJsonAt DEF Paths, Wellformed
    <2>3. Len(q) <= MaxRank /\ Len(p) <= depth
        BY <2>2, NodeToJsonOK DEF Within
    <2>4. Len(x) = Len(p) + Len(q) /\ Len(p) \in Nat /\ Len(q) \in Nat
        BY <2>1, <2>2, ConcatPaths, LenProperties
    <2> QED
        BY <1>1, <2>3, <2>4
<1> QED
    BY <1>1, <1>2 DEF Within
----------------------------------------------------------------------------
\* The way from item to first item.
LEMMA FirstItemIs ==
    ASSUME NEW p \in Paths, NEW n \in Nat
    PROVE  /\ FirstItem(p, n) \in Paths /\ Len(FirstItem(p, n)) = Len(p) + n
           /\ IsPrefix(p, FirstItem(p, n))
           /\ n = 0 => FirstItem(p, n) = p
           /\ \A m \in Nat : FirstItem(FirstItem(p, n), m) = FirstItem(p, n + m)
           /\ \A m \in 0..n : IsPrefix(FirstItem(p, m), FirstItem(p, n))
           /\ \A i \in 1..(Len(p) + n) : FirstItem(p, n)[i] = IF i <= Len(p) THEN p[i] ELSE -1
<1> DEFINE tail(k) == [i \in 1..k |-> ListItem(0)]
<1>1. p \in Seq(Int) /\ Len(p) \in Nat
    BY LenProperties DEF Paths
<1>2. ASSUME NEW k \in Nat
      PROVE  tail(k) \in Seq(Int) /\ Len(tail(k)) = k /\ \A i \in 1..k : tail(k)[i] = -1
    <2>1. tail(k) \in [1..k -> Int] /\ \A i \in 1..k : tail(k)[i] = -1
        BY DEF ListItem
    <2> QED
        BY <2>1, FunctionIsSeq
<1>3. ASSUME NEW x \in Seq(Int), NEW k \in Nat
      PROVE  /\ FirstItem(x, k) \in Seq(Int) /\ Len(FirstItem(x, k)) = Len(x) + k
             /\ \A i \in 1..(Len(x) + k) : FirstItem(x, k)[i] = IF i <= Len(x) THEN x[i] ELSE -1
             /\ IsPrefix(x, FirstItem(x, k))
    <2>1. FirstItem(x, k) = x \o tail(k)
        BY DEF FirstItem
    <2>2. tail(k) \in Seq(Int) /\ Len(tail(k)) = k /\ \A i \in 1..k : tail(k)[i] = -1
        BY <1>2
    <2> HIDE DEF tail
    <2>3. /\ x \o tail(k) \in Seq(Int) /\ Len(x \o tail(k)) = Len(x) + k
          /\ \A i \in 1..(Len(x) + k) : (x \o tail(k))[i] = IF i <= Len(x) THEN x[i] ELSE tail(k)[i - Len(x)]
        BY <2>2, ConcatProperties, ZenonT(60)
    <2>4. ASSUME NEW i \in 1..(Len(x) + k)
          PROVE  FirstItem(x, k)[i] = IF i <= Len(x) THEN x[i] ELSE -1
        <3>1. CASE i <= Len(x)
            BY <2>1, <2>3, <3>1
        <3>2. CASE ~(i <= Len(x))
            <4>1. i - Len(x) \in 1..k
                BY <3>2, LenProperties
            <4> QED
                BY <2>1, <2>2, <2>3, <3>2, <4>1
        <3> QED
            BY <3>1, <3>2
    <2>5. IsPrefix(x, FirstItem(x, k))
        BY <2>1, <2>2, PrefixConcat
    <2> QED
        BY <2>1, <2>3, <2>4, <2>5
<1>4. ASSUME n = 0 PROVE FirstItem(p, n) = p
    <2>1. FirstItem(p, n) \in Seq(Int) /\ Len(FirstItem(p, n)) = Len(p) /\ IsPrefix(p, FirstItem(p, n))
        BY <1>1, <1>3, <1>4
    <2> QED
        BY <1>1, <2>1, PrefixOrder
<1>5. ASSUME NEW m \in Nat PROVE FirstItem(FirstItem(p, n), m) = FirstItem(p, n + m)
    <2> DEFINE x == FirstItem(p, n)
               y == FirstItem(x, m)
               z == FirstItem(p, n + m)
    <2>1. x \in Seq(Int) /\ Len(x) = Len(p) + n
          /\ \A i \in 1..(Len(p) + n) : x[i] = IF i <= Len(p) THEN p[i] ELSE -1
        BY <1>1, <1>3
    <2> HIDE DEF x
    <2>2. y \in Seq(Int) /\ Len(y) = Len(x) + m
          /\ \A i \in 1..(Len(x) + m) : y[i] = IF i <= Len(x) THEN x[i] ELSE -1
        BY <2>1, <1>3
    <2>3. z \in Seq(Int) /\ Len(z) = Len(p) + (n + m)
          /\ \A i \in 1..(Len(p) + (n + m)) : z[i] = IF i <= Len(p) THEN p[i] ELSE -1
        <3>1. n + m \in Nat
            OBVIOUS
        <3> QED
            BY <1>1, <1>3, <3>1
    <2> HIDE DEF y, z
    <2>4. Len(y) = Len(z)
        BY <1>1, <2>1, <2>2, <2>3
    <2>5. \A i \in 1..Len(y) : y[i] = z[i]
        <3> TAKE i \in 1..Len(y)
        <3>1. i \in 1..(Len(x) + m) /\ i \in 1..(Len(p) + (n + m))
            BY <2>2, <2>3, <2>4
        <3>2. y[i] = (IF i <= Len(x) THEN x[i] ELSE -1) /\ z[i] = IF i <= Len(p) THEN p[i] ELSE -1
            BY <2>2, <2>3, <3>1
        <3>3. CASE i <= Len(x)
            <4>1. i \in 1..(Len(p) + n)
                BY <1>1, <2>1, <3>1, <3>3
            <4> QED
                BY <2>1, <3>2, <3>3, <4>1
        <3>4. CASE ~(i <= Len(x))
            <4>1. ~(i <= Len(p))
                BY <1>1, <2>1, <3>1, <3>4
            <4> QED
                BY <3>2, <3>4, <4>1
        <3> QED
            BY <3>3, <3>4
    <2>6. y = z
        BY <2>2, <2>3, <2>4, <2>5, SeqEqual
    <2> QED
        BY <2>6 DEF x, y, z
<1>6. ASSUME NEW m \in 0..n PROVE IsPrefix(FirstItem(p, m), FirstItem(p, n))
    <2>1. m \in Nat /\ n - m \in Nat /\ m + (n - m) = n
        OBVIOUS
    <2> DEFINE x == FirstItem(p, m)
               y == FirstItem(p, n)
    <2>2. /\ x \in Seq(Int) /\ Len(x) = Len(p) + m
          /\ \A i \in 1..(Len(p) + m) : x[i] = IF i <= Len(p) THEN p[i] ELSE -1
          /\ y \in Seq(Int) /\ Len(y) = Len(p) + n
          /\ \A i \in 1..(Len(p) + n) : y[i] = IF i <= Len(p) THEN p[i] ELSE -1
        BY <1>1, <1>3, <2>1
    <2> HIDE DEF x, y
    <2>3. Len(x) <= Len(y) /\ \A i \in 1..Len(x) : x[i] = y[i]
        <3>1. Len(x) <= Len(y)
            BY <1>1, <2>1, <2>2
        <3>2. ASSUME NEW i \in 1..Len(x) PROVE x[i] = y[i]
            <4>1. i \in 1..(Len(p) + m) /\ i \in 1..(Len(p) + n)
                BY <1>1, <2>1, <2>2
            <4> QED
                BY <2>2, <4>1
        <3> QED
            BY <3>1, <3>2
    <2>4. IsPrefix(x, y)
        BY <2>2, <2>3, PrefixElements
    <2> QED
        BY <2>4 DEF x, y
<1> QED
    BY <1>1, <1>3, <1>4, <1>5, <1>6 DEF Paths

\* Following the first items comes to an end.
LEMMA InnermostIs ==
    ASSUME NEW t, Linked(t), NEW depth \in Nat, Within(t, depth), NEW p \in DOMAIN t
    PROVE  /\ Innermost(t, p) \in DOMAIN t /\ IsPrefix(p, Innermost(t, p))
           /\ Innermost(t, p) = FirstItem(p, Len(Innermost(t, p)) - Len(p))
           /\ Len(Innermost(t, p)) - Len(p) \in Nat
           /\ FirstItem(Innermost(t, p), 1) \notin DOMAIN t
<1>1. p \in Paths /\ Len(p) \in Nat
    BY LenProperties DEF Linked, Paths
<1> DEFINE T == {m \in 0..depth : FirstItem(p, depth - m) \in DOMAIN t}
<1>2. T \in SUBSET Nat
    OBVIOUS
<1>3. T # {}
    <2>1. FirstItem(p, 0) = p
        BY <1>1, FirstItemIs
    <2>2. depth \in 0..depth /\ depth - depth = 0
        OBVIOUS
    <2> QED
        BY <2>1, <2>2
<1> HIDE DEF T
<1>4. PICK m \in T : \A k \in T : ~(k < m)
    BY <1>2, <1>3, LeastNumber
<1> DEFINE n == depth - m
           q == FirstItem(p, n)
<1>5. n \in Nat /\ q \in DOMAIN t /\ m \in 0..depth
    BY <1>4 DEF T
<1>13. n + 1 \in Nat /\ m = depth - n
    BY <1>5
<1> HIDE DEF n
<1>6. q \in Paths /\ Len(q) = Len(p) + n /\ IsPrefix(p, q) /\ FirstItem(q, 1) = FirstItem(p, n + 1)
    BY <1>1, <1>5, FirstItemIs
<1>7. FirstItem(q, 1) \notin DOMAIN t
    <2> SUFFICES ASSUME FirstItem(p, n + 1) \in DOMAIN t PROVE FALSE
        BY <1>6
    <2>1. Len(FirstItem(p, n + 1)) = Len(p) + (n + 1)
        BY <1>1, <1>13, FirstItemIs
    <2>2. Len(p) + (n + 1) <= depth
        BY <2>1 DEF Within
    <2>3. m - 1 \in 0..depth /\ depth - (m - 1) = n + 1
        BY <1>1, <1>5, <1>13, <2>2
    <2>4. m - 1 \in T
        BY <2>3 DEF T
    <2> QED
        BY <1>4, <1>5, <2>4
<1>8. Len(q) - Len(p) = n
    BY <1>1, <1>5, <1>6
<1> DEFINE Goal(x) == /\ IsPrefix(p, x) /\ x = FirstItem(p, Len(x) - Len(p))
                      /\ FirstItem(x, 1) \notin DOMAIN t
<1>9. Goal(q)
    BY <1>6, <1>7, <1>8
<1>10. Innermost(t, p) \in DOMAIN t /\ Goal(Innermost(t, p))
    <2>1. Innermost(t, p) = CHOOSE x \in DOMAIN t : Goal(x)
        BY DEF Innermost
    <2> HIDE DEF Goal
    <2> QED
        BY <1>5, <1>9, <2>1
<1>11. Len(Innermost(t, p)) - Len(p) \in Nat
    <2>1. Innermost(t, p) \in Seq(Int)
        BY <1>10 DEF Linked
    <2>2. Len(Innermost(t, p)) \in Nat /\ Len(p) <= Len(Innermost(t, p))
        BY <1>10, <2>1, LenProperties DEF IsPrefix
    <2> QED
        BY <1>1, <2>2
<1> QED
    BY <1>10, <1>11

\* The counts of the items on the way to the innermost first item are numbers.
LEMMA ItemCountsAre ==
    ASSUME NEW t, Linked(t), NEW depth \in Nat, Within(t, depth), NEW p \in DOMAIN t,
           \A x \in DOMAIN t : t[x].names \in Seq(Int), NEW type
    PROVE  ItemCounts(t, p, type) \in Seq(Nat)
<1> DEFINE q == Innermost(t, p)
           n == Len(q) - Len(p)
           m == IF t[q].type = type THEN n + 1 ELSE n
           counts == [k \in 1..m |-> Len(t[FirstItem(p, k - 1)].names)]
<1>1. q \in DOMAIN t /\ q = FirstItem(p, n) /\ n \in Nat /\ p \in Paths
    BY InnermostIs DEF Linked, Paths
<1> HIDE DEF q, n
<1>2. m \in Nat /\ m <= n + 1
    BY <1>1
<1>3. ASSUME NEW k \in 1..m PROVE Len(t[FirstItem(p, k - 1)].names) \in Nat
    <2>1. k - 1 \in 0..n /\ k - 1 \in Nat
        BY <1>1, <1>2
    <2>2. FirstItem(p, k - 1) \in Paths /\ IsPrefix(FirstItem(p, k - 1), q)
        BY <1>1, <2>1, FirstItemIs
    <2>3. FirstItem(p, k - 1) \in DOMAIN t
        BY <1>1, <2>2, LinkedPrefix
    <2> QED
        BY <2>3, LenProperties
<1>4. counts \in [1..m -> Nat]
    BY <1>3
<1>5. counts \in Seq(Nat)
    BY <1>2, <1>4, FunctionIsSeq
<1>6. ItemCounts(t, p, type) = counts
    BY DEF ItemCounts, q, n
<1> QED
    BY <1>5, <1>6

\* What the nodes of a document are.
LEMMA DocumentNames ==
    ASSUME NEW j, Document(j)
    PROVE  /\ Linked(j) /\ DOMAIN j \subseteq Paths /\ <<>> \in DOMAIN j
           /\ \A x \in DOMAIN j : j[x].names \in Seq(Int) /\ JsonNodeOK(j[x])
BY DEF Document, JsonNodeOK, Linked, Paths

\* The path of an index.
LEMMA IndexPath ==
    ASSUME NEW shape \in Seq(Nat), NEW i \in Indices(shape), NEW p \in Paths
    PROVE  /\ i \in Paths /\ ItemPath(i) \in Paths /\ p \o ItemPath(i) \in Paths
           /\ Len(ItemPath(i)) = Len(shape)
<1>1. i \in Seq(Nat) /\ Len(i) = Len(shape)
    BY IndicesAre
<1>2. \A d \in 1..Len(i) : i[d] \in Int
    BY <1>1, ElementOfSeq
<1>3. i \in Paths
    BY <1>1, <1>2, SeqOfElements DEF Paths
<1>4. ItemPath(i) \in Paths /\ Len(ItemPath(i)) = Len(i)
    BY <1>3, ItemPathIs
<1> DEFINE y == ItemPath(i)
<1>5. y \in Seq(Int) /\ p \in Seq(Int)
    BY <1>4 DEF Paths
<1> HIDE DEF y
<1>6. p \o y \in Seq(Int)
    BY <1>5, ConcatPaths
<1> QED
    BY <1>1, <1>3, <1>4, <1>6 DEF Paths, y

\* What is found at an index is a node, or null, or the call throws.
LEMMA ItemAtOK ==
    ASSUME NEW j, Document(j), NEW p \in DOMAIN j, NEW shape \in Seq(Nat), NEW i \in Indices(shape)
    PROVE  \/ JsonNodeOK(ItemAt(j, p, i))
           \/ ItemAt(j, p, i) = [type |-> "failure"]
<1> DEFINE x == p \o ItemPath(i)
           at == Deepest(j, x)
<1>1. Linked(j) /\ DOMAIN j \subseteq Paths /\ <<>> \in DOMAIN j /\ \A y \in DOMAIN j : JsonNodeOK(j[y])
    BY DocumentNames
<1>2. x \in Paths
    BY <1>1, IndexPath
<1>3. at \in DOMAIN j
    BY <1>1, <1>2, DeepestOn
<1>4. JsonNodeOK(JNull)
    BY DEF JNull, Json, JsonNodeOK, IsInjective
<1>5. ItemAt(j, p, i) = IF at = x THEN j[x]
                        ELSE IF j[at].type \in {"array", "null"} THEN JNull
                        ELSE [type |-> "failure"]
    BY DEF ItemAt
<1> HIDE DEF x, at
<1> QED
    BY <1>1, <1>3, <1>4, <1>5

\* What a number is read as.
LEMMA ElementOK ==
    ASSUME NEW type \in {"DOUBLE", "INT32", "BOOL"}, NEW v,
           JsonNodeOK(v) \/ v = [type |-> "failure"], Element(type, v) # NaN
    PROVE  /\ Element(type, v) \in Int
           /\ type = "BOOL" => Element(type, v) \in {0, 2}
           /\ type = "INT32" => Element(type, v) <= 2 * IntMax
<1>1. 0 <= 2 * IntMax /\ IntMax \in Nat
    BY SerializersAssumption
<1>2. CASE v = [type |-> "failure"]
    <2>1. v.type = "failure"
        BY <1>2
    <2>2. Element(type, v) = NaN
        BY <2>1 DEF Element
    <2> QED
        BY <2>2
<1>3. CASE JsonNodeOK(v) /\ v.type = "null"
    BY <1>1, <1>3 DEF Element
<1>4. CASE JsonNodeOK(v) /\ v.type \in {"int", "real", "bool"}
    <2>1. v.n \in Int
        BY <1>4 DEF JsonNodeOK
    <2>2. ~(type = "INT32" /\ v.n > 2 * IntMax)
        BY <1>4 DEF Element
    <2>3. Element(type, v) = IF type = "BOOL" /\ v.n # 0 THEN 2 ELSE v.n
        BY <1>4, <2>2 DEF Element
    <2>4. type = "INT32" => v.n <= 2 * IntMax
        BY <1>1, <2>1, <2>2
    <2> QED
        BY <2>1, <2>3, <2>4
<1>5. CASE v.type \notin {"null", "int", "real", "bool"}
    BY <1>5 DEF Element
<1> QED
    BY <1>2, <1>3, <1>4, <1>5

\* Arrays and scalars that were read from a document.
ReadNode(u) ==
    /\ DataNode(u)
    /\ u.type \in {"STRING", "DOUBLE", "INT32", "BOOL"}
    /\ u.order = "C" /\ Len(u.shape) <= MaxRank
    /\ u.type # "STRING" => NaN \notin Elements(u)
    /\ u.type = "INT32" => \A n \in Elements(u) : n <= 2 * IntMax

\* An array made by the reader is a node the library can hold.
LEMMA ArrayOK ==
    ASSUME NEW type \in {"STRING", "DOUBLE", "INT32", "BOOL"}, NEW shape \in Seq(Nat),
           Len(shape) <= MaxRank, NEW elems \in Seq(Int \cup {NaN}), Len(elems) = Product(shape),
           type = "STRING" => shape = <<>>,
           \A e \in Range(elems) : /\ type # "STRING" => e # NaN
                                   /\ type = "BOOL" => e \in {0, 2}
                                   /\ type = "INT32" => e <= 2 * IntMax
    PROVE  ReadNode(Array(type, shape, elems)) /\ Array(type, shape, elems).names = <<>>
<1> DEFINE u == Array(type, shape, elems)
<1>1. /\ u.type = type /\ u.shape = shape /\ u.order = "C" /\ u.elems = elems /\ u.names = <<>>
      /\ u.external = FALSE
    BY DEF Array, Node
<1> HIDE DEF u
<1>2. <<>> \in Seq(Int) /\ IsInjective(<<>>)
    BY DEF IsInjective
<1>3. \A e \in Elements(u) : /\ type # "STRING" => e # NaN
                             /\ type = "BOOL" => e \in {0, 2}
                             /\ type = "INT32" => e <= 2 * IntMax
    BY <1>1 DEF Elements, Range
<1>4. ~Inner(u) /\ u.type # "EMPTY"
    BY <1>1 DEF Inner
<1>5. NodeOK(u)
    BY <1>1, <1>2, <1>3, <1>4 DEF NodeOK, Ints, Reals
<1>6. ReadNode(u) /\ u.names = <<>>
    BY <1>1, <1>3, <1>4, <1>5 DEF ReadNode, DataNode
<1> QED
    BY <1>6 DEF u

\* So is every array that JsonArray makes, and its parts are these.
LEMMA JsonArrayOK ==
    ASSUME NEW j, Document(j), NEW depth \in Nat, Within(j, depth), NEW p \in DOMAIN j,
           JsonArray(j, p).type # "failure"
    PROVE  /\ ReadNode(JsonArray(j, p)) /\ JsonArray(j, p).names = <<>>
           /\ JsonArray(j, p).shape = JsonShape(j, p) /\ JsonShape(j, p) \in Seq(Nat)
           /\ JsonArray(j, p).type = ArrayType(j, p)
           /\ \A n \in 1..Product(JsonShape(j, p)) :
                JsonArray(j, p).elems[n] =
                  Element(ArrayType(j, p), ItemAt(j, p, IndexOf(JsonShape(j, p), n - 1)))
<1> DEFINE shape == JsonShape(j, p)
           type == ArrayType(j, p)
           elem(n) == Element(type, ItemAt(j, p, IndexOf(shape, n - 1)))
           elems == [n \in 1..Product(shape) |-> elem(n)]
           bad == Len(shape) > MaxRank \/ \E n \in DOMAIN elems: elems[n] = NaN
<1>1. JsonArray(j, p) = IF bad THEN [type |-> "failure"] ELSE Array(type, shape, elems)
    BY DEF JsonArray
<1>2. ~bad
    <2> HIDE DEF bad
    <2> QED
        BY <1>1
<1>3. shape \in Seq(Nat)
    BY DocumentNames, ItemCountsAre DEF JsonShape
<1>4. type \in {"DOUBLE", "INT32", "BOOL"}
    BY DEF ArrayType
<1>5. JsonArray(j, p) = Array(type, shape, elems)
    <2> HIDE DEF bad
    <2> QED
        BY <1>1, <1>2
<1>6. Product(shape) \in Nat /\ Len(shape) \in Nat /\ MaxRank \in Nat
    BY <1>3, ProductNumber, LenProperties, SerializersAssumption
<1> HIDE DEF shape, type
<1>7. ASSUME NEW n \in 1..Product(shape)
      PROVE  /\ elem(n) # NaN /\ elem(n) \in Int
             /\ type = "BOOL" => elem(n) \in {0, 2}
             /\ type = "INT32" => elem(n) <= 2 * IntMax
    <2>1. n - 1 \in 0..(Product(shape) - 1)
        BY <1>6
    <2>2. IndexOf(shape, n - 1) \in Indices(shape)
        BY <1>3, <2>1, IndexOfPlace
    <2> DEFINE v == ItemAt(j, p, IndexOf(shape, n - 1))
    <2>3. JsonNodeOK(v) \/ v = [type |-> "failure"]
        BY <1>3, <2>2, ItemAtOK
    <2>4. Element(type, v) # NaN
        BY <1>2
    <2> HIDE DEF v
    <2> QED
        BY <1>4, <2>3, <2>4, ElementOK DEF v
<1> HIDE DEF elem
<1>8. elems \in [1..Product(shape) -> Int \cup {NaN}]
    BY <1>7
<1>9. elems \in Seq(Int \cup {NaN}) /\ Len(elems) = Product(shape)
    BY <1>6, <1>8, FunctionIsSeq
<1>10. \A n \in 1..Product(shape) : elems[n] = elem(n)
    OBVIOUS
<1>11. Len(shape) <= MaxRank
    BY <1>2, <1>6
<1>14. \A e \in Range(elems) : /\ type # "STRING" => e # NaN
                               /\ type = "BOOL" => e \in {0, 2}
                               /\ type = "INT32" => e <= 2 * IntMax
    BY <1>7 DEF Range
<1> HIDE DEF elems
<1>12. ReadNode(Array(type, shape, elems)) /\ Array(type, shape, elems).names = <<>>
    BY <1>3, <1>4, <1>9, <1>11, <1>14, ArrayOK
<1>13. /\ Array(type, shape, elems).type = type /\ Array(type, shape, elems).shape = shape
       /\ Array(type, shape, elems).elems = elems
    BY DEF Array, Node
<1> QED
    BY <1>3, <1>5, <1>10, <1>12, <1>13 DEF shape, type, elem

\* A single value made by the reader is such a node, too.
LEMMA ScalarOK ==
    ASSUME NEW type \in {"STRING", "DOUBLE", "INT32", "BOOL"}, NEW n \in Int \cup {NaN},
           type # "STRING" => n # NaN, type = "BOOL" => n \in {0, 2}, type = "INT32" => n <= 2 * IntMax
    PROVE  ReadNode(Array(type, <<>>, <<n>>)) /\ Array(type, <<>>, <<n>>).names = <<>>
<1>1. <<>> \in Seq(Nat) /\ Len(<<>>) <= MaxRank /\ Len(<<n>>) = Product(<<>>)
    BY ScalarProduct, SerializersAssumption
<1>2. <<n>> \in Seq(Int \cup {NaN}) /\ Len(<<n>>) = 1 /\ <<n>>[1] = n
    OBVIOUS
<1> HIDE DEF ReadNode
<1> DEFINE e == <<n>>
<1>3. e \in Seq(Int \cup {NaN}) /\ Len(e) = Product(<<>>)
    BY <1>1, <1>2
<1>4. Range(e) = {n}
    BY <1>2 DEF Range
<1>6. <<>> \in Seq(Nat) /\ Len(<<>>) <= MaxRank
    BY <1>1
<1> HIDE DEF e
<1> DEFINE shape == <<>>
<1>7. /\ shape \in Seq(Nat) /\ Len(shape) <= MaxRank /\ Len(e) = Product(shape)
      /\ type = "STRING" => shape = <<>>
    BY <1>3, <1>6
<1> HIDE DEF shape
<1>5. ReadNode(Array(type, shape, e)) /\ Array(type, shape, e).names = <<>>
    BY <1>3, <1>4, <1>7, ArrayOK, SMTT(30)
<1> QED
    BY <1>5 DEF e, shape

\* A node that is read is one the library can hold.
LEMMA JsonToNodeOK ==
    ASSUME NEW j, Document(j), NEW depth \in Nat, Within(j, depth), NEW p \in DOMAIN j,
           JsonToNode(j, p).type # "failure"
    PROVE  /\ NodeOK(JsonToNode(j, p))
           /\ JsonToNode(j, p).names = IF Numeric(j, p) THEN <<>> ELSE j[p].names
           /\ JsonToNode(j, p).type \notin {"EMPTY", "STRUCT", "LIST"} => ReadNode(JsonToNode(j, p))
<1> DEFINE v == j[p]
           u == JsonToNode(j, p)
           Goal(x) == /\ NodeOK(x) /\ x.names = (IF Numeric(j, p) THEN <<>> ELSE v.names)
                      /\ x.type \notin {"EMPTY", "STRUCT", "LIST"} => ReadNode(x)
<1> SUFFICES Goal(u)
    OBVIOUS
<1>1. JsonNodeOK(v)
    BY DocumentNames
<1>2. IntMax \in Nat
    BY SerializersAssumption
<1>3. <<>> \in Seq(Nat) /\ <<>> \in Seq(Int) /\ <<>> \in Seq(Int \cup {NaN}) /\ IsInjective(<<>>)
    BY DEF IsInjective
<1>4. v.type \notin {"array", "object"} => v.names = <<>> /\ ~Numeric(j, p)
    BY <1>1 DEF JsonNodeOK, Numeric
<1> DEFINE w == v.type
<1>5. CASE w = "null"
    <2>1. u = EmptyNode
        BY <1>5 DEF JsonToNode
    <2>2. NodeOK(EmptyNode) /\ EmptyNode.names = <<>> /\ EmptyNode.type = "EMPTY"
        BY <1>3 DEF EmptyNode, Array, Node, NodeOK, Inner
    <2> QED
        BY <1>4, <1>5, <2>1, <2>2
<1>6. ASSUME NEW type \in {"STRING", "DOUBLE", "INT32", "BOOL"}, u = Array(type, <<>>, <<v.n>>),
             v.type \notin {"array", "object"},
             type # "STRING" => v.n # NaN, type = "BOOL" => v.n \in {0, 2},
             type = "INT32" => v.n <= 2 * IntMax
      PROVE  Goal(u)
    <2>1. v.n \in Int \cup {NaN}
        BY <1>1 DEF JsonNodeOK
    <2> HIDE DEF u, v
    <2>2. ReadNode(u) /\ u.names = <<>>
        BY <1>6, <2>1, ScalarOK
    <2> QED
        BY <1>4, <1>6, <2>2 DEF ReadNode, DataNode
<1>7. CASE w = "string"
    <2>1. u = Array("STRING", <<>>, <<v.n>>)
        BY <1>7 DEF JsonToNode
    <2> HIDE DEF u, v, Goal
    <2> QED
        BY <1>6, <1>7, <2>1
<1>8. CASE w = "bool"
    <2>1. u = Array("BOOL", <<>>, <<v.n>>) /\ v.n # NaN /\ v.n \in {0, 2}
        BY <1>1, <1>8 DEF JsonToNode, JsonNodeOK
    <2> HIDE DEF u, v, Goal
    <2> QED
        BY <1>6, <1>8, <2>1
<1>9. CASE w = "real"
    <2>1. u = Array("DOUBLE", <<>>, <<v.n>>) /\ v.n # NaN
        BY <1>1, <1>9 DEF JsonToNode, JsonNodeOK
    <2> HIDE DEF u, v, Goal
    <2> QED
        BY <1>6, <1>9, <2>1
<1>10. CASE w = "int" /\ v.n <= 2 * IntMax
    <2>1. u = Array("INT32", <<>>, <<v.n>>) /\ v.n # NaN
        BY <1>1, <1>10 DEF JsonToNode, JsonNodeOK
    <2> HIDE DEF u, v, Goal
    <2> QED
        BY <1>6, <1>10, <2>1
<1>11. CASE w = "int" /\ ~(v.n <= 2 * IntMax)
    <2>1. u = [type |-> "failure"]
        BY <1>4, <1>11 DEF JsonToNode
    <2>2. u.type = "failure"
        BY <2>1
    <2> QED
        BY <2>2
<1>12. CASE Numeric(j, p)
    <2>1. u = JsonArray(j, p)
        BY <1>12 DEF JsonToNode, Numeric
    <2>2. ReadNode(u) /\ u.names = <<>>
        BY <2>1, JsonArrayOK
    <2> HIDE DEF u
    <2> QED
        BY <1>12, <2>2 DEF ReadNode, DataNode
<1>13. CASE w = "array" /\ ~Numeric(j, p)
    <2> DEFINE n == Len(v.names)
    <2>1. u = ListNode(n)
        BY <1>13 DEF JsonToNode
    <2>2. v.names = ItemNames(n) /\ v.names \in Seq(Int) /\ IsInjective(v.names)
        BY <1>1, <1>13 DEF JsonNodeOK
    <2>3. n \in Nat
        BY <2>2, LenProperties
    <2>4. Len(ItemNames(n)) = n
        BY <2>3, ItemNamesAre
    <2> HIDE DEF n, u
    <2>5. /\ u.type = "LIST" /\ u.order = "C" /\ u.shape = <<>> /\ u.elems = <<>>
          /\ u.names = ItemNames(n) /\ u.external = FALSE
        BY <2>1 DEF ListNode, Node
    <2>6. Inner(u) /\ u = ListNode(Len(u.names))
        BY <2>1, <2>4, <2>5 DEF Inner
    <2>7. NodeOK(u)
        BY <1>3, <2>2, <2>5, <2>6 DEF NodeOK
    <2> QED
        BY <1>13, <2>2, <2>5, <2>7
<1>14. CASE w = "object"
    <2>1. u = StructNode(v.names) /\ ~Numeric(j, p)
        BY <1>14 DEF JsonToNode, Numeric
    <2>2. v.names \in Seq(Nat) /\ v.names \in Seq(Int) /\ IsInjective(v.names)
        BY <1>1, <1>14 DEF JsonNodeOK
    <2> HIDE DEF u
    <2>3. /\ u.type = "STRUCT" /\ u.order = "C" /\ u.shape = <<>> /\ u.elems = <<>>
          /\ u.names = v.names /\ u.external = FALSE /\ Inner(u) /\ u = StructNode(u.names)
        BY <2>1 DEF StructNode, Node, Inner
    <2>4. NodeOK(u)
        BY <1>3, <2>2, <2>3 DEF NodeOK
    <2> QED
        BY <2>1, <2>3, <2>4
<1> QED
    BY <1>1, <1>5, <1>7, <1>8, <1>9, <1>10, <1>11, <1>12, <1>13, <1>14 DEF JsonNodeOK

\* A tree that is read from a document is well-formed: it has a node for everything
\* that is not inside of an array.
LEMMA FromJsonOK ==
    ASSUME NEW j, Document(j), NEW depth \in Nat, Within(j, depth), ~Failed(FromJson(j))
    PROVE  /\ Wellformed(FromJson(j)) /\ Within(FromJson(j), depth)
           /\ \A p : p \in DOMAIN FromJson(j) <=>
                       /\ p \in DOMAIN j
                       /\ \A q \in DOMAIN j : IsPrefix(q, p) /\ Numeric(j, q) => q = p
           /\ \A p \in DOMAIN FromJson(j) :
                FromJson(j)[p] = JsonToNode(j, p) /\ JsonToNode(j, p).type # "failure"
<1> DEFINE paths == {p \in DOMAIN j : \A q \in DOMAIN j : IsPrefix(q, p) /\ Numeric(j, q) => q = p}
           t == [p \in paths |-> JsonToNode(j, p)]
<1>1. ~\E p \in paths : t[p].type = "failure"
    <2>1. ASSUME \E p \in paths : t[p].type = "failure" PROVE FALSE
        <3>1. FromJson(j) = Failure
            BY <2>1 DEF FromJson
        <3> QED
            BY <3>1 DEF Failed
    <2> QED
        BY <2>1
<1>2. FromJson(j) = t
    BY <1>1 DEF FromJson
<1>3. \A p \in paths : t[p] = JsonToNode(j, p) /\ JsonToNode(j, p).type # "failure"
    BY <1>1
<1>4. DOMAIN t = paths /\ \A p : p \in paths <=>
                       /\ p \in DOMAIN j
                       /\ \A q \in DOMAIN j : IsPrefix(q, p) /\ Numeric(j, q) => q = p
    OBVIOUS
<1> HIDE DEF t, paths
<1>5. Linked(j) /\ DOMAIN j \subseteq Seq(Int) /\ <<>> \in DOMAIN j
    BY DocumentNames DEF Paths
<1>6. ASSUME NEW p \in paths
      PROVE  NodeOK(t[p]) /\ t[p].names = IF Numeric(j, p) THEN <<>> ELSE j[p].names
    BY <1>3, <1>4, JsonToNodeOK
<1>7. <<>> \in paths
    <2>1. \A q \in DOMAIN j : IsPrefix(q, <<>>) => q = <<>>
        <3> TAKE q \in DOMAIN j
        <3> HAVE IsPrefix(q, <<>>)
        <3>1. q \in Seq(Int) /\ <<>> \in Seq(Int) /\ Len(<<>>) = 0 /\ Len(q) \in Nat
            BY <1>5, LenProperties
        <3>2. Len(q) <= 0
            BY <3>1 DEF IsPrefix
        <3> QED
            BY <3>1, <3>2, EmptySeq
    <2> QED
        BY <1>4, <1>5, <2>1
<1>8. ASSUME NEW p \in paths, p # <<>>
      PROVE  Front(p) \in paths /\ Last(p) \in Range(t[Front(p)].names)
    <2>1. p \in DOMAIN j /\ p \in Seq(Int)
        BY <1>4, <1>5
    <2>2. Front(p) \in DOMAIN j /\ Last(p) \in Range(j[Front(p)].names)
        BY <1>5, <1>8, <2>1 DEF Linked
    <2>3. IsPrefix(Front(p), p) /\ Front(p) \in Seq(Int) /\ Len(Front(p)) = Len(p) - 1
        BY <1>8, <2>1, FrontLast
    <2>4. Len(p) \in Nat
        BY <2>1, LenProperties
    <2>5. ASSUME NEW q \in DOMAIN j, IsPrefix(q, Front(p)), Numeric(j, q) PROVE FALSE
        <3>1. IsPrefix(q, p)
            BY <1>5, <2>1, <2>3, <2>5, PrefixOrder
        <3>2. q = p
            BY <1>4, <2>5, <3>1
        <3>3. Len(q) <= Len(Front(p))
            BY <2>5 DEF IsPrefix
        <3> QED
            BY <2>3, <2>4, <3>2, <3>3
    <2>6. Front(p) \in paths
        BY <1>4, <2>2, <2>5
    <2>7. ~Numeric(j, Front(p))
        <3>1. IsPrefix(Front(p), Front(p))
            BY <2>3, PrefixOrder
        <3> QED
            BY <2>2, <2>5, <3>1
    <2> QED
        BY <1>6, <2>2, <2>6, <2>7
<1>9. ASSUME NEW p \in paths, NEW i \in DOMAIN t[p].names
      PROVE  Append(p, t[p].names[i]) \in paths
    <2>1. p \in DOMAIN j /\ p \in Seq(Int)
        BY <1>4, <1>5
    <2>2. ~Numeric(j, p) /\ t[p].names = j[p].names
        BY <1>6, <1>9
    <2> DEFINE c == t[p].names[i]
               x == Append(p, c)
    <2>3. c \in Int
        BY <1>9, <2>1, <2>2, DocumentNames, ElementOfSeq
    <2>4. x \in DOMAIN j
        BY <1>5, <1>9, <2>1, <2>2 DEF Linked
    <2> HIDE DEF c
    <2>5. x \in Seq(Int) /\ x # <<>> /\ Front(x) = p
        BY <2>1, <2>3, AppendFront
    <2> HIDE DEF x
    <2>6. ASSUME NEW q \in DOMAIN j, IsPrefix(q, x), Numeric(j, q), q # x PROVE FALSE
        <3>1. q \in Seq(Int)
            BY <1>5
        <3>2. IsPrefix(q, p)
            BY <2>5, <2>6, <3>1, PrefixFront
        <3>3. q = p
            BY <1>4, <2>6, <3>2
        <3> QED
            BY <2>2, <2>6, <3>3
    <2>7. x \in paths
        BY <1>4, <2>4, <2>6
    <2> QED
        BY <2>7 DEF x, c
<1>10. Wellformed(t)
    <2>1. Linked(t)
        BY <1>4, <1>5, <1>7, <1>8, <1>9 DEF Linked
    <2> QED
        BY <1>4, <1>6, <2>1 DEF Wellformed
<1>11. Within(t, depth)
    BY <1>4 DEF Within
<1> QED
    BY <1>2, <1>3, <1>4, <1>10, <1>11

-----------------------------------------------------------------------------
(* HDF5, flatbuffers and files.                                            *)

\* A tree with other nodes at the same paths that name the same children.
LEMMA SamePaths ==
    ASSUME NEW t, Wellformed(t), NEW d, DOMAIN d = DOMAIN t,
           \A p \in DOMAIN t : NodeOK(d[p]) /\ Range(d[p].names) = Range(t[p].names)
    PROVE  Wellformed(d)
<1>1. Linked(t)
    BY DEF Wellformed
<1>2. \A p \in DOMAIN d : \A i \in DOMAIN d[p].names : Append(p, d[p].names[i]) \in DOMAIN d
    <2> TAKE p \in DOMAIN d
    <2> TAKE i \in DOMAIN d[p].names
    <2>1. d[p].names[i] \in Range(t[p].names)
        BY DEF Range
    <2>2. PICK k \in DOMAIN t[p].names : d[p].names[i] = t[p].names[k]
        BY <2>1 DEF Range
    <2> QED
        BY <1>1, <2>2 DEF Linked
<1>3. ASSUME NEW p \in DOMAIN d, p # <<>>
      PROVE  Front(p) \in DOMAIN d /\ Last(p) \in Range(d[Front(p)].names)
    BY <1>1, <1>3 DEF Linked
<1>4. Linked(d)
    BY <1>1, <1>2, <1>3 DEF Linked
<1> QED
    BY <1>4 DEF Wellformed

\* An array of one element.
LEMMA OneElement == <<1>> \in Seq(Nat) /\ Product(<<1>>) = 1
<1> DEFINE s == <<1>>
<1>1. s \in Seq(Nat) /\ Len(s) = 1 /\ s[1] = 1
    OBVIOUS
<1> HIDE DEF s
<1>2. PICK size : Sizes(s, size) /\ Product(s) = size[Len(s)]
    BY <1>1, ProductSizes
<1>3. size[0] = 1 /\ size[1] = size[0] * s[1]
    <2>1. 1 \in 1..Len(s) /\ 1 - 1 = 0
        BY <1>1
    <2> QED
        BY <1>2, <2>1 DEF Sizes
<1>4. Product(s) = 1
    BY <1>1, <1>2, <1>3
<1> QED
    BY <1>1, <1>4 DEF s

\* An array with as many elements as its shape says is a node.
LEMMA PlainNodeOK ==
    ASSUME NEW type \in {"STRING", "BOOL"} \cup Ints \cup Reals, NEW shape \in Seq(Nat),
           NEW elems \in Seq(Int \cup {NaN}), Len(elems) = Product(shape),
           type = "STRING" => shape = <<>>, type = "BOOL" => Range(elems) \subseteq {0, 2}
    PROVE  NodeOK(Array(type, shape, elems)) /\ Array(type, shape, elems).names = <<>>
           /\ ~Inner(Array(type, shape, elems)) /\ Array(type, shape, elems).type # "EMPTY"
<1> DEFINE u == Array(type, shape, elems)
<1>1. /\ u.type = type /\ u.shape = shape /\ u.order = "C" /\ u.elems = elems /\ u.names = <<>>
      /\ u.external = FALSE
    BY DEF Array, Node
<1> HIDE DEF u
<1>2. <<>> \in Seq(Int) /\ IsInjective(<<>>)
    BY DEF IsInjective
<1>3. ~Inner(u) /\ u.type # "EMPTY"
    BY <1>1 DEF Inner, Ints, Reals
<1>4. u.type = "BOOL" => Elements(u) \subseteq {0, 2}
    BY <1>1 DEF Elements, Range
<1>5. NodeOK(u)
    BY <1>1, <1>2, <1>3, <1>4 DEF NodeOK, Inner
<1> QED
    BY <1>1, <1>3, <1>5 DEF u

\* The empty node is one.
LEMMA EmptyNodeOK == NodeOK(EmptyNode) /\ EmptyNode.names = <<>> /\ EmptyNode.type = "EMPTY"
                     /\ ~Inner(EmptyNode)
<1>1. <<>> \in Seq(Nat) /\ <<>> \in Seq(Int) /\ <<>> \in Seq(Int \cup {NaN}) /\ IsInjective(<<>>)
    BY DEF IsInjective
<1> QED
    BY <1>1 DEF EmptyNode, Array, Node, NodeOK, Inner

\* A struct with different keys is a node.
LEMMA StructNodeOK ==
    ASSUME NEW names \in Seq(Nat), IsInjective(names)
    PROVE  NodeOK(StructNode(names)) /\ StructNode(names).names = names
           /\ StructNode(names).type = "STRUCT" /\ Inner(StructNode(names))
<1> DEFINE u == StructNode(names)
<1>1. /\ u.type = "STRUCT" /\ u.shape = <<>> /\ u.order = "C" /\ u.elems = <<>> /\ u.names = names
      /\ u.external = FALSE /\ u = StructNode(u.names)
    BY DEF StructNode, Node
<1> HIDE DEF u
<1>2. <<>> \in Seq(Nat) /\ <<>> \in Seq(Int \cup {NaN})
    OBVIOUS
<1>3. names \in Seq(Int)
    <2>1. \A i \in 1..Len(names) : names[i] \in Int
        BY ElementOfSeq
    <2> QED
        BY <2>1, SeqOfElements
<1>4. NodeOK(u) /\ Inner(u)
    BY <1>1, <1>2, <1>3 DEF NodeOK, Inner
<1> QED
    BY <1>1, <1>4 DEF u

\* What an array, a string or a boolean has.
LEMMA DataNodeIs ==
    ASSUME NEW u, DataNode(u)
    PROVE  /\ u.type \in {"STRING", "BOOL"} \cup Ints \cup Reals /\ u.shape \in Seq(Nat)
           /\ u.elems \in Seq(Int \cup {NaN}) /\ Len(u.elems) = Product(u.shape)
           /\ u.type = "STRING" => u.shape = <<>>
           /\ u.type = "BOOL" => Range(u.elems) \subseteq {0, 2}
           /\ u.names = <<>>
BY DEF DataNode, NodeOK, Inner, Elements, Range

\* What is written for the elements of an array is as many elements of its type, and is
\* those elements if they lie in the node.
LEMMA BytesAre ==
    ASSUME NEW u, DataNode(u)
    PROVE  /\ Bytes(u) \in Seq(Int \cup {NaN}) /\ Len(Bytes(u)) = Len(u.elems)
           /\ u.type = "BOOL" => Range(Bytes(u)) \subseteq {0, 2}
           /\ ~u.external => Bytes(u) = u.elems
<1>1. CASE u.external
    <2> DEFINE n == Len(u.elems)
               b == [i \in 1..n |-> Memory]
    <2>1. u.elems \in Seq(Int \cup {NaN})
        BY DataNodeIs
    <2>2. n \in Nat /\ DOMAIN u.elems = 1..n
        BY <2>1, LenProperties
    <2>3. Bytes(u) = b
        BY <1>1, <2>2 DEF Bytes
    <2>4. Memory \in {0, 2} /\ Memory \in Int \cup {NaN}
        BY SerializersAssumption
    <2> HIDE DEF n
    <2>5. b \in [1..n -> Int \cup {NaN}]
        BY <2>4
    <2>6. b \in Seq(Int \cup {NaN}) /\ Len(b) = n
        BY <2>2, <2>5, FunctionIsSeq
    <2>7. Range(b) \subseteq {0, 2}
        BY <2>4 DEF Range
    <2> QED
        BY <1>1, <2>3, <2>6, <2>7 DEF n
<1>2. CASE ~u.external
    BY <1>2, DataNodeIs DEF Bytes
<1> QED
    BY <1>1, <1>2

\* What HDF5 and flatbuffers make of an array is an array.
LEMMA DatasetOK ==
    ASSUME NEW u, NodeOK(u), ~Inner(u)
    PROVE  NodeOK(Dataset(u)) /\ Dataset(u).names = <<>> /\ u.names = <<>>
           /\ DataNode(Dataset(u)) /\ Dataset(u).order = "C" /\ Dataset(u).type # "BOOL"
           /\ ~Dataset(u).external
<1>1. CASE u.type = "EMPTY"
    <2> DEFINE e == <<NaN>>
    <2>1. Dataset(u) = Array("DOUBLE", <<1>>, e)
        BY <1>1 DEF Dataset
    <2>2. e \in Seq(Int \cup {NaN}) /\ Len(e) = 1
        OBVIOUS
    <2> HIDE DEF e
    <2> DEFINE s == <<1>>
    <2>3. s \in Seq(Nat) /\ Product(s) = 1 /\ s # <<>>
        BY OneElement
    <2> HIDE DEF s
    <2>4. /\ NodeOK(Array("DOUBLE", s, e)) /\ Array("DOUBLE", s, e).names = <<>>
          /\ ~Inner(Array("DOUBLE", s, e)) /\ Array("DOUBLE", s, e).type # "EMPTY"
        BY <2>2, <2>3, PlainNodeOK DEF Reals
    <2>5. Array("DOUBLE", s, e).order = "C" /\ Array("DOUBLE", s, e).type = "DOUBLE"
          /\ ~Array("DOUBLE", s, e).external
        BY DEF Array, Node
    <2> QED
        BY <1>1, <2>1, <2>4, <2>5 DEF s, NodeOK, DataNode
<1>2. CASE u.type # "EMPTY"
    <2> DEFINE type == IF u.type = "BOOL" THEN "UINT8" ELSE u.type
               shape == u.shape
               elems == Bytes(u)
    <2>1. DataNode(u)
        BY <1>2 DEF DataNode
    <2>2. /\ type \in {"STRING", "BOOL"} \cup Ints \cup Reals /\ type # "BOOL"
          /\ shape \in Seq(Nat) /\ elems \in Seq(Int \cup {NaN}) /\ Len(elems) = Product(shape)
          /\ type = "STRING" => shape = <<>>
        BY <2>1, DataNodeIs, BytesAre DEF Ints
    <2>3. Dataset(u) = Array(type, shape, elems)
        BY <1>2 DEF Dataset
    <2> HIDE DEF type, shape, elems
    <2>4. /\ NodeOK(Array(type, shape, elems)) /\ Array(type, shape, elems).names = <<>>
          /\ ~Inner(Array(type, shape, elems)) /\ Array(type, shape, elems).type # "EMPTY"
        BY <2>2, PlainNodeOK
    <2>5. Array(type, shape, elems).order = "C" /\ Array(type, shape, elems).type = type
          /\ ~Array(type, shape, elems).external
        BY DEF Array, Node
    <2> QED
        BY <2>1, <2>2, <2>3, <2>4, <2>5, DataNodeIs DEF DataNode
<1> QED
    BY <1>1, <1>2

\* What a flatbuffer holds of an array is a node again.
LEMMA VectorOK ==
    ASSUME NEW u, NodeOK(u), ~Inner(u)
    PROVE  NodeOK(Vector(u)) /\ Vector(u).names = <<>> /\ u.names = <<>>
           /\ ~Inner(Vector(u)) /\ Vector(u).order = "C" /\ ~Vector(u).external
<1>1. CASE u.type = "EMPTY"
    <2>1. Vector(u) = EmptyNode /\ u = EmptyNode
        BY <1>1 DEF Vector, NodeOK
    <2>2. EmptyNode.order = "C" /\ ~EmptyNode.external
        BY DEF EmptyNode, Array, Node
    <2> QED
        BY <2>1, <2>2, EmptyNodeOK
<1>2. CASE u.type # "EMPTY"
    <2> DEFINE type == u.type
               shape == u.shape
               elems == Bytes(u)
    <2>1. DataNode(u)
        BY <1>2 DEF DataNode
    <2>2. /\ type \in {"STRING", "BOOL"} \cup Ints \cup Reals
          /\ shape \in Seq(Nat) /\ elems \in Seq(Int \cup {NaN}) /\ Len(elems) = Product(shape)
          /\ type = "STRING" => shape = <<>>
        BY <2>1, DataNodeIs, BytesAre
    <2>3. type = "BOOL" => Range(elems) \subseteq {0, 2}
        BY <2>1, BytesAre
    <2>4. Vector(u) = Array(type, shape, elems)
        BY <1>2 DEF Vector
    <2>5. type = "STRING" => shape = <<>>
        BY <2>1, DataNodeIs
    <2> HIDE DEF type, shape, elems
    <2>6. /\ NodeOK(Array(type, shape, elems)) /\ Array(type, shape, elems).names = <<>>
          /\ ~Inner(Array(type, shape, elems))
        BY <2>2, <2>3, <2>5, PlainNodeOK
    <2>7. Array(type, shape, elems).order = "C" /\ ~Array(type, shape, elems).external
        BY DEF Array, Node
    <2> QED
        BY <2>1, <2>4, <2>6, <2>7, DataNodeIs
<1> QED
    BY <1>1, <1>2

\* Nodes are no failures.
LEMMA NodesNotFailed ==
    ASSUME NEW t, Wellformed(t)
    PROVE  ~Failed(t)
<1>1. <<>> \in DOMAIN t /\ t[<<>>].type # "failure"
    BY DEF Wellformed, Linked, NodeOK, Ints, Reals
<1> QED
    BY <1>1, NotFailed

\* A tree with other nodes at the same paths is no failure.
LEMMA ToHdf5OK ==
    ASSUME NEW t, Wellformed(t)
    PROVE  /\ Failed(ToHdf5(t)) <=> \E p \in DOMAIN t : Untransposable(t[p])
           /\ ~Failed(ToHdf5(t)) =>
                /\ Wellformed(ToHdf5(t)) /\ DOMAIN ToHdf5(t) = DOMAIN t
                /\ \A p \in DOMAIN t : ToHdf5(t)[p] = IF t[p].type = "STRUCT" THEN StructNode(Sorted(t[p].names))
                                                      ELSE IF t[p].type = "LIST" THEN t[p]
                                                      ELSE Dataset(t[p])
<1> DEFINE bad == \E p \in DOMAIN t : Untransposable(t[p])
           d == [p \in DOMAIN t |->
                    IF t[p].type = "STRUCT" THEN StructNode(Sorted(t[p].names))
                    ELSE IF t[p].type = "LIST" THEN t[p]
                    ELSE Dataset(t[p])]
<1>1. ToHdf5(t) = IF bad THEN Failure ELSE d
    BY DEF ToHdf5
<1>2. ASSUME NEW p \in DOMAIN t
      PROVE  NodeOK(d[p]) /\ Range(d[p].names) = Range(t[p].names)
    <2>1. NodeOK(t[p])
        BY DEF Wellformed
    <2>2. CASE t[p].type = "STRUCT"
        <3>1. t[p].names \in Seq(Nat) /\ IsInjective(t[p].names)
            BY <2>1, <2>2 DEF NodeOK
        <3>2. /\ Sorted(t[p].names) \in Seq(Nat) /\ IsInjective(Sorted(t[p].names))
              /\ Range(Sorted(t[p].names)) = Range(t[p].names)
            BY <3>1, SortedKeys
        <3>3. d[p] = StructNode(Sorted(t[p].names))
            BY <2>2
        <3> DEFINE names == Sorted(t[p].names)
        <3> HIDE DEF names, d
        <3>4. NodeOK(StructNode(names)) /\ StructNode(names).names = names
            BY <3>2, StructNodeOK DEF names
        <3> QED
            BY <3>2, <3>3, <3>4 DEF names
    <2>3. CASE t[p].type = "LIST"
        BY <2>1, <2>3
    <2>4. CASE t[p].type \notin {"STRUCT", "LIST"}
        <3>1. ~Inner(t[p])
            BY <2>4 DEF Inner
        <3>2. d[p] = Dataset(t[p])
            BY <2>4
        <3> HIDE DEF d
        <3> QED
            BY <2>1, <3>1, <3>2, DatasetOK
    <2> QED
        BY <2>2, <2>3, <2>4
<1>3. DOMAIN d = DOMAIN t
    OBVIOUS
<1>4. \A p \in DOMAIN t : d[p] = IF t[p].type = "STRUCT" THEN StructNode(Sorted(t[p].names))
                                                      ELSE IF t[p].type = "LIST" THEN t[p]
                                                      ELSE Dataset(t[p])
    OBVIOUS
<1> HIDE DEF d
<1>5. Wellformed(d)
    BY <1>2, <1>3, SamePaths
<1>6. ~Failed(d)
    BY <1>5, NodesNotFailed
<1>7. Failed(Failure)
    BY DEF Failed
<1>8. CASE bad
    <2>1. ToHdf5(t) = Failure
        BY <1>1, <1>8
    <2> QED
        BY <1>7, <1>8, <2>1
<1>9. CASE ~bad
    <2>1. ToHdf5(t) = d
        BY <1>1, <1>9
    <2> QED
        BY <1>3, <1>4, <1>5, <1>6, <1>9, <2>1
<1> QED
    BY <1>8, <1>9

\* What is read from an HDF5 file is a tree with the same nodes.
LEMMA FromHdf5OK ==
    ASSUME NEW d, Wellformed(d)
    PROVE  Wellformed(FromHdf5(d)) /\ DOMAIN FromHdf5(d) = DOMAIN d
           /\ \A p \in DOMAIN d :
                FromHdf5(d)[p] = IF d[p].type = "STRUCT" /\ d[p].names = <<>> THEN EmptyNode ELSE d[p]
<1> DEFINE t == FromHdf5(d)
<1>1. DOMAIN t = DOMAIN d /\ \A p \in DOMAIN d :
                t[p] = IF d[p].type = "STRUCT" /\ d[p].names = <<>> THEN EmptyNode ELSE d[p]
    BY DEF FromHdf5
<1> HIDE DEF t
<1>2. \A p \in DOMAIN d : NodeOK(t[p]) /\ Range(t[p].names) = Range(d[p].names)
    BY <1>1, EmptyNodeOK DEF Wellformed
<1>3. Wellformed(t)
    BY <1>1, <1>2, SamePaths
<1> QED
    BY <1>1, <1>3 DEF t

\* What is written to a flatbuffer is one, unless an array has no transposition.
LEMMA ToFlatBuffersOK ==
    ASSUME NEW t, Wellformed(t)
    PROVE  /\ Failed(ToFlatBuffers(t)) <=> \E p \in DOMAIN t : Untransposable(t[p])
           /\ ~Failed(ToFlatBuffers(t)) =>
                /\ Wellformed(ToFlatBuffers(t)) /\ DOMAIN ToFlatBuffers(t) = DOMAIN t
                /\ \A p \in DOMAIN t : ToFlatBuffers(t)[p] = IF Inner(t[p]) THEN t[p] ELSE Vector(t[p])
<1> DEFINE bad == \E p \in DOMAIN t : Untransposable(t[p])
           d == [p \in DOMAIN t |-> IF Inner(t[p]) THEN t[p] ELSE Vector(t[p])]
<1>1. ToFlatBuffers(t) = IF bad THEN Failure ELSE d
    BY DEF ToFlatBuffers
<1>2. ASSUME NEW p \in DOMAIN t
      PROVE  NodeOK(d[p]) /\ Range(d[p].names) = Range(t[p].names)
    <2>1. NodeOK(t[p])
        BY DEF Wellformed
    <2>2. CASE Inner(t[p])
        BY <2>1, <2>2
    <2>3. CASE ~Inner(t[p])
        <3>1. d[p] = Vector(t[p])
            BY <2>3
        <3> HIDE DEF d
        <3> QED
            BY <2>1, <2>3, <3>1, VectorOK
    <2> QED
        BY <2>2, <2>3
<1>3. DOMAIN d = DOMAIN t
    OBVIOUS
<1>4. \A p \in DOMAIN t : d[p] = IF Inner(t[p]) THEN t[p] ELSE Vector(t[p])
    OBVIOUS
<1> HIDE DEF d
<1>5. Wellformed(d)
    BY <1>2, <1>3, SamePaths
<1>6. ~Failed(d)
    BY <1>5, NodesNotFailed
<1>7. Failed(Failure)
    BY DEF Failed
<1>8. CASE bad
    <2>1. ToFlatBuffers(t) = Failure
        BY <1>1, <1>8
    <2> QED
        BY <1>7, <1>8, <2>1
<1>9. CASE ~bad
    <2>1. ToFlatBuffers(t) = d
        BY <1>1, <1>9
    <2> QED
        BY <1>3, <1>4, <1>5, <1>6, <1>9, <2>1
<1> QED
    BY <1>8, <1>9

\* What is read from a flatbuffer is one.
LEMMA FromFlatBuffersOK ==
    ASSUME NEW d, Wellformed(d)
    PROVE  Wellformed(FromFlatBuffers(d)) /\ DOMAIN FromFlatBuffers(d) = DOMAIN d
           /\ \A p \in DOMAIN d :
                FromFlatBuffers(d)[p] = IF Inner(d[p]) /\ d[p].names = <<>> THEN EmptyNode ELSE d[p]
<1> DEFINE t == FromFlatBuffers(d)
<1>1. DOMAIN t = DOMAIN d /\ \A p \in DOMAIN d :
                t[p] = IF Inner(d[p]) /\ d[p].names = <<>> THEN EmptyNode ELSE d[p]
    BY DEF FromFlatBuffers
<1> HIDE DEF t
<1>2. \A p \in DOMAIN d : NodeOK(t[p]) /\ Range(t[p].names) = Range(d[p].names)
    BY <1>1, EmptyNodeOK DEF Wellformed
<1>3. Wellformed(t)
    BY <1>1, <1>2, SamePaths
<1> QED
    BY <1>1, <1>3 DEF t

\* What is read back from a file that was written of a tree.
LEMMA ReadBackOK ==
    ASSUME NEW f \in Formats, NEW t, Wellformed(t), NEW depth \in Nat, Within(t, depth),
           ~Failed(Written(f, t)), ~Failed(ReadBack(f, Written(f, t)))
    PROVE  /\ Wellformed(ReadBack(f, Written(f, t)))
           /\ Within(ReadBack(f, Written(f, t)), depth + MaxRank) /\ depth + MaxRank \in Nat
<1>0. depth + MaxRank \in Nat /\ \A n \in Nat : n <= depth => n <= depth + MaxRank
    BY SerializersAssumption
<1>3. \A p \in DOMAIN t : Len(p) <= depth + MaxRank
    <2>1. \A p \in DOMAIN t : Len(p) \in Nat /\ Len(p) <= depth
        BY LenProperties DEF Wellformed, Linked, Within
    <2> QED
        BY <1>0, <2>1
<1>1. CASE f = "json"
    <2> DEFINE j == ToJson(t)
    <2>1. Written(f, t) = j /\ ReadBack(f, j) = FromJson(j)
        BY <1>1 DEF Written, ReadBack
    <2>2. Document(j) /\ Within(j, depth + MaxRank)
        BY <2>1, ToJsonOK, ToJsonWithin
    <2> HIDE DEF j
    <2>3. Wellformed(FromJson(j)) /\ Within(FromJson(j), depth + MaxRank)
        BY <1>0, <2>1, <2>2, FromJsonOK
    <2> QED
        BY <1>0, <2>1, <2>3
<1>2. CASE f = "hdf5"
    <2> DEFINE d == ToHdf5(t)
    <2>1. Written(f, t) = d /\ ReadBack(f, d) = FromHdf5(d)
        BY <1>2 DEF Written, ReadBack
    <2>2. Wellformed(d) /\ DOMAIN d = DOMAIN t
        BY <2>1, ToHdf5OK
    <2> HIDE DEF d
    <2>3. Wellformed(FromHdf5(d)) /\ DOMAIN FromHdf5(d) = DOMAIN t
        BY <2>2, FromHdf5OK
    <2> QED
        BY <1>0, <1>3, <2>1, <2>3 DEF Within
<1>4. CASE f = "flatbuffers"
    <2> DEFINE d == ToFlatBuffers(t)
    <2>1. Written(f, t) = d /\ ReadBack(f, d) = FromFlatBuffers(d)
        BY <1>4 DEF Written, ReadBack
    <2>2. Wellformed(d) /\ DOMAIN d = DOMAIN t
        BY <2>1, ToFlatBuffersOK
    <2> HIDE DEF d
    <2>3. Wellformed(FromFlatBuffers(d)) /\ DOMAIN FromFlatBuffers(d) = DOMAIN t
        BY <2>2, FromFlatBuffersOK
    <2> QED
        BY <1>0, <1>3, <2>1, <2>3 DEF Within
<1> QED
    BY <1>1, <1>2, <1>4 DEF Formats

-----------------------------------------------------------------------------
(* Parts of trees, lists, and what add_child() and insert() make.          *)

\* The nodes of a tree have what NodeOK says, and their children are there.
LEMMA TreePaths ==
    ASSUME NEW t, Wellformed(t)
    PROVE  /\ Linked(t) /\ <<>> \in DOMAIN t /\ DOMAIN t \subseteq Seq(Int)
           /\ \A p \in DOMAIN t : /\ NodeOK(t[p]) /\ t[p].names \in Seq(Int)
                                  /\ \A i \in 1..Len(t[p].names) : /\ t[p].names[i] \in Int
                                                                   /\ Append(p, t[p].names[i]) \in DOMAIN t
<1>1. /\ Linked(t) /\ <<>> \in DOMAIN t /\ DOMAIN t \subseteq Seq(Int)
      /\ \A p \in DOMAIN t : NodeOK(t[p]) /\ t[p].names \in Seq(Int)
    BY DEF Wellformed, Linked, NodeOK
<1>2. ASSUME NEW p \in DOMAIN t, NEW i \in 1..Len(t[p].names)
      PROVE  t[p].names[i] \in Int /\ Append(p, t[p].names[i]) \in DOMAIN t
    <2>1. t[p].names \in Seq(Int)
        BY <1>1
    <2>2. i \in DOMAIN t[p].names /\ t[p].names[i] \in Int
        BY <2>1, LenProperties, ElementOfSeq
    <2> QED
        BY <1>1, <2>2 DEF Linked
<1> QED
    BY <1>1, <1>2

\* A single leaf is a tree.
LEMMA AloneOK ==
    ASSUME NEW u, NodeOK(u), ~Inner(u)
    PROVE  Wellformed(Alone(u)) /\ Within(Alone(u), 0)
<1>1. u.names = <<>>
    BY DEF NodeOK
<1>2. Linked(Alone(u)) /\ DOMAIN Alone(u) = {<<>>} /\ Alone(u)[<<>>] = u /\ Len(<<>>) = 0
    BY <1>1, AloneIs
<1> QED
    BY <1>2 DEF Wellformed, Within

\* The empty tree is a tree.
LEMMA EmptyOK == Wellformed(Empty) /\ Within(Empty, 0)
BY EmptyNodeOK, AloneOK DEF Empty

\* The part of a tree below one of its nodes.
LEMMA BelowOK ==
    ASSUME NEW t, Wellformed(t), NEW p \in DOMAIN t
    PROVE  /\ Wellformed(Below(t, p))
           /\ \A q : q \in DOMAIN Below(t, p) <=> q \in Seq(Int) /\ p \o q \in DOMAIN t
           /\ \A q \in DOMAIN Below(t, p) : Below(t, p)[q] = t[p \o q]
<1> DEFINE b == Below(t, p)
<1>1. /\ DOMAIN b = {Rest(p, x) : x \in {y \in DOMAIN t : IsPrefix(p, y)}}
      /\ \A q \in DOMAIN b : b[q] = t[p \o q]
    BY DEF Below
<1> HIDE DEF b
<1>2. Linked(t) /\ DOMAIN t \subseteq Seq(Int) /\ p \in Seq(Int)
    BY TreePaths
<1>3. ASSUME NEW q PROVE q \in DOMAIN b <=> q \in Seq(Int) /\ p \o q \in DOMAIN t
    <2>1. ASSUME q \in DOMAIN b PROVE q \in Seq(Int) /\ p \o q \in DOMAIN t
        <3>1. PICK x \in DOMAIN t : IsPrefix(p, x) /\ q = Rest(p, x)
            BY <1>1, <2>1
        <3>2. q \in Seq(Int) /\ x = p \o q
            BY <1>2, <3>1, PrefixRest DEF Rest
        <3> QED
            BY <3>2
    <2>2. ASSUME q \in Seq(Int), p \o q \in DOMAIN t PROVE q \in DOMAIN b
        <3>1. IsPrefix(p, p \o q) /\ Rest(p, p \o q) = q
            BY <1>2, <2>2, PrefixConcat DEF Rest
        <3> QED
            BY <1>1, <2>2, <3>1
    <2> QED
        BY <2>1, <2>2
<1>4. <<>> \in DOMAIN b
    <2>1. p \o <<>> = p /\ <<>> \in Seq(Int)
        BY <1>2, ConcatPaths
    <2> QED
        BY <1>3, <2>1
<1>5. ASSUME NEW q \in DOMAIN b, q # <<>>
      PROVE  Front(q) \in DOMAIN b /\ Last(q) \in Range(b[Front(q)].names)
    <2>1. q \in Seq(Int) /\ p \o q \in DOMAIN t
        BY <1>3
    <2>2. p \o q # <<>> /\ Front(p \o q) = p \o Front(q) /\ Last(p \o q) = Last(q)
        BY <1>2, <1>5, <2>1, ConcatPaths
    <2>3. p \o Front(q) \in DOMAIN t /\ Last(q) \in Range(t[p \o Front(q)].names)
        BY <1>2, <2>1, <2>2 DEF Linked
    <2>4. Front(q) \in Seq(Int)
        BY <1>5, <2>1, FrontLast
    <2>5. Front(q) \in DOMAIN b
        BY <1>3, <2>3, <2>4
    <2> QED
        BY <1>1, <2>3, <2>5
<1>6. ASSUME NEW q \in DOMAIN b, NEW i \in DOMAIN b[q].names
      PROVE  Append(q, b[q].names[i]) \in DOMAIN b
    <2>1. q \in Seq(Int) /\ p \o q \in DOMAIN t /\ b[q] = t[p \o q]
        BY <1>1, <1>3
    <2> DEFINE c == b[q].names[i]
    <2>2. Append(p \o q, c) \in DOMAIN t
        BY <1>2, <2>1 DEF Linked
    <2>3. c \in Int
        <3>1. t[p \o q].names \in Seq(Int)
            BY <2>1, TreePaths
        <3> QED
            BY <2>1, <3>1, LenProperties, ElementOfSeq
    <2> HIDE DEF c
    <2>4. p \o Append(q, c) = Append(p \o q, c)
        BY <1>2, <2>1, <2>3, ConcatPaths, SMTT(30)
    <2>5. Append(q, c) \in Seq(Int)
        BY <2>1, <2>3, AppendFront
    <2>6. Append(q, c) \in DOMAIN b
        BY <1>3, <2>2, <2>4, <2>5
    <2> QED
        BY <2>6 DEF c
<1>7. \A q \in DOMAIN b : q \in Seq(Int) /\ NodeOK(b[q])
    BY <1>1, <1>3, TreePaths
<1>8. Wellformed(b)
    BY <1>4, <1>5, <1>6, <1>7 DEF Wellformed, Linked
<1> QED
    BY <1>1, <1>3, <1>8 DEF b

\* A tree with another one in the place of one of its nodes.
LEMMA ReplaceOK ==
    ASSUME NEW t, Wellformed(t), NEW at \in DOMAIN t, NEW new, Wellformed(new)
    PROVE  /\ Wellformed(Replace(t, at, new))
           /\ \A x : x \in DOMAIN Replace(t, at, new) <=>
                       \/ x \in DOMAIN t /\ ~IsPrefix(at, x)
                       \/ \E q \in DOMAIN new : x = at \o q
           /\ \A x \in DOMAIN t : ~IsPrefix(at, x) => Replace(t, at, new)[x] = t[x]
           /\ \A q \in DOMAIN new : Replace(t, at, new)[at \o q] = new[q]
<1> DEFINE r == Replace(t, at, new)
<1>1. /\ DOMAIN r = {x \in DOMAIN t : ~IsPrefix(at, x)} \cup {at \o q : q \in DOMAIN new}
      /\ \A p \in DOMAIN r : r[p] = IF IsPrefix(at, p) THEN new[Rest(at, p)] ELSE t[p]
    BY DEF Replace
<1> HIDE DEF r
<1>2. /\ Linked(t) /\ DOMAIN t \subseteq Seq(Int) /\ at \in Seq(Int)
      /\ Linked(new) /\ DOMAIN new \subseteq Seq(Int) /\ <<>> \in DOMAIN new
    BY TreePaths
<1>3. \A x : x \in DOMAIN r <=> \/ x \in DOMAIN t /\ ~IsPrefix(at, x)
                                \/ \E q \in DOMAIN new : x = at \o q
    BY <1>1
<1>4. \A x \in DOMAIN t : ~IsPrefix(at, x) => x \in DOMAIN r /\ r[x] = t[x]
    BY <1>1
<1>5. ASSUME NEW q \in DOMAIN new PROVE at \o q \in DOMAIN r /\ r[at \o q] = new[q]
    <2>1. at \o q \in DOMAIN r
        BY <1>1
    <2>2. IsPrefix(at, at \o q) /\ Rest(at, at \o q) = q
        BY <1>2, PrefixConcat DEF Rest
    <2> QED
        BY <1>1, <2>1, <2>2
<1>6. at \in DOMAIN r
    <2>1. at \o <<>> = at
        BY <1>2, ConcatPaths
    <2> QED
        BY <1>2, <1>5, <2>1
<1>7. <<>> \in DOMAIN r
    <2>1. CASE at = <<>>
        BY <1>6, <2>1
    <2>2. CASE at # <<>>
        <3>1. ~IsPrefix(at, <<>>)
            <4>1. Len(at) \in Nat /\ Len(at) # 0 /\ Len(<<>>) = 0
                BY <1>2, <2>2, LenProperties, EmptySeq
            <4> QED
                BY <4>1 DEF IsPrefix
        <3> QED
            BY <1>2, <1>4, <3>1 DEF Linked
    <2> QED
        BY <2>1, <2>2
<1>8. ASSUME NEW x \in DOMAIN r
      PROVE  x \in Seq(Int) /\ NodeOK(r[x])
    <2>1. CASE x \in DOMAIN t /\ ~IsPrefix(at, x)
        BY <1>2, <1>4, <2>1 DEF Wellformed
    <2>2. ASSUME NEW q \in DOMAIN new, x = at \o q PROVE x \in Seq(Int) /\ NodeOK(r[x])
        <3>1. q \in Seq(Int)
            BY <1>2
        <3>2. x \in Seq(Int)
            BY <1>2, <2>2, <3>1, ConcatPaths
        <3> QED
            BY <1>5, <2>2, <3>2 DEF Wellformed
    <2> QED
        BY <1>3, <2>1, <2>2
<1>9. ASSUME NEW x \in DOMAIN r, x # <<>>
      PROVE  Front(x) \in DOMAIN r /\ Last(x) \in Range(r[Front(x)].names)
    <2>1. CASE x \in DOMAIN t /\ (~IsPrefix(at, x) \/ x = at)
        <3>1. Front(x) \in DOMAIN t /\ Last(x) \in Range(t[Front(x)].names)
            BY <1>2, <1>9, <2>1 DEF Linked
        <3>2. x \in Seq(Int) /\ Front(x) \in Seq(Int) /\ IsPrefix(Front(x), x) /\ Len(Front(x)) = Len(x) - 1
            BY <1>2, <1>9, <2>1, FrontLast
        <3>3. ~IsPrefix(at, Front(x))
            <4> SUFFICES ASSUME IsPrefix(at, Front(x)) PROVE FALSE
                OBVIOUS
            <4>1. IsPrefix(at, x)
                BY <1>2, <3>2, PrefixOrder
            <4>2. x = at
                BY <2>1, <4>1
            <4>3. Len(at) <= Len(Front(x)) /\ Len(at) \in Nat
                BY <1>2, LenProperties DEF IsPrefix
            <4> QED
                BY <3>2, <4>2, <4>3
        <3> QED
            BY <1>4, <3>1, <3>3
    <2>2. ASSUME NEW q \in DOMAIN new, x = at \o q, q # <<>>
          PROVE  Front(x) \in DOMAIN r /\ Last(x) \in Range(r[Front(x)].names)
        <3>1. q \in Seq(Int)
            BY <1>2
        <3>2. Front(x) = at \o Front(q) /\ Last(x) = Last(q)
            BY <1>2, <2>2, <3>1, ConcatFront
        <3>3. Front(q) \in DOMAIN new /\ Last(q) \in Range(new[Front(q)].names)
            BY <1>2, <2>2 DEF Linked
        <3> QED
            BY <1>5, <3>2, <3>3
    <2>3. ASSUME NEW q \in DOMAIN new, x = at \o q, q = <<>>
          PROVE  x = at
        BY <1>2, <2>3, ConcatPaths
    <2> QED
        BY <1>3, <2>1, <2>2, <2>3
<1>10. ASSUME NEW x \in DOMAIN r, NEW i \in DOMAIN r[x].names
       PROVE  Append(x, r[x].names[i]) \in DOMAIN r
    <2> DEFINE c == r[x].names[i]
               y == Append(x, c)
    <2>1. c \in Int /\ x \in Seq(Int)
        <3>1. r[x].names \in Seq(Int)
            BY <1>8 DEF NodeOK
        <3> QED
            BY <1>8, <3>1, LenProperties, ElementOfSeq
    <2>2. CASE x \in DOMAIN t /\ ~IsPrefix(at, x)
        <3>1. y \in DOMAIN t
            BY <1>2, <1>4, <2>2 DEF Linked
        <3> HIDE DEF c
        <3>2. y \in Seq(Int) /\ y # <<>> /\ Front(y) = x
            BY <2>1, AppendFront
        <3> HIDE DEF y
        <3>3. CASE IsPrefix(at, y)
            <4>1. at = y
                <5>1. at # y => IsPrefix(at, x)
                    BY <1>2, <3>2, <3>3, PrefixFront
                <5> QED
                    BY <2>2, <5>1
            <4> QED
                BY <1>6, <4>1 DEF y, c
        <3>4. CASE ~IsPrefix(at, y)
            BY <1>4, <3>1, <3>4 DEF y, c
        <3> QED
            BY <3>3, <3>4
    <2>3. ASSUME NEW q \in DOMAIN new, x = at \o q PROVE y \in DOMAIN r
        <3>1. Append(q, c) \in DOMAIN new
            BY <1>2, <1>5, <2>3 DEF Linked
        <3>2. q \in Seq(Int)
            BY <1>2
        <3> HIDE DEF c
        <3>4. at \in Seq(Int) /\ c \in Int
            BY <1>2, <2>1
        <3>5. at \o Append(q, c) = Append(at \o q, c)
            BY <3>2, <3>4, ConcatAppend
        <3>3. y = at \o Append(q, c)
            BY <2>3, <3>5
        <3> QED
            BY <1>5, <3>1, <3>3
    <2> QED
        BY <1>3, <2>2, <2>3
<1>11. Wellformed(r)
    BY <1>7, <1>8, <1>9, <1>10 DEF Wellformed, Linked
<1> QED
    BY <1>3, <1>4, <1>5, <1>11 DEF r

\* A list of unnamed items is a node.
LEMMA ListNodeOK ==
    ASSUME NEW n \in Nat
    PROVE  NodeOK(ListNode(n)) /\ ListNode(n).names = ItemNames(n)
           /\ ListNode(n).type = "LIST" /\ Inner(ListNode(n))
<1> DEFINE u == ListNode(n)
<1>1. u = [type |-> "LIST", shape |-> <<>>, order |-> "C", elems |-> <<>>, names |-> ItemNames(n),
           external |-> FALSE]
    BY DEF ListNode, Node
<1> HIDE DEF u
<1>2. /\ ItemNames(n) \in Seq(Int) /\ Len(ItemNames(n)) = n /\ IsInjective(ItemNames(n))
    BY ItemNamesAre
<1>3. u.names = ItemNames(n) /\ u.type = "LIST" /\ Inner(u) /\ u = ListNode(Len(u.names))
    BY <1>1, <1>2 DEF Inner, u
<1>4. NodeOK(u)
    BY <1>1, <1>2, <1>3 DEF NodeOK
<1> QED
    BY <1>3, <1>4 DEF u

\* A list of trees: the names of its items lead to the trees.
LEMMA ListOK ==
    ASSUME NEW S, NEW kids \in Seq(S), \A i \in 1..Len(kids) : Wellformed(kids[i])
    PROVE  /\ Wellformed(List(kids))
           /\ <<>> \in DOMAIN List(kids) /\ List(kids)[<<>>] = ListNode(Len(kids))
           /\ \A i \in 1..Len(kids) : \A q \in DOMAIN kids[i] :
                <<-i>> \o q \in DOMAIN List(kids) /\ List(kids)[<<-i>> \o q] = kids[i][q]
           /\ \A x \in DOMAIN List(kids) :
                x = <<>> \/ \E i \in 1..Len(kids) : \E q \in DOMAIN kids[i] : x = <<-i>> \o q
<1> DEFINE r == List(kids)
           n == Len(kids)
<1>0. n \in Nat /\ DOMAIN kids = 1..n
    BY LenProperties
<1>1. /\ DOMAIN r = {<<>>} \cup UNION {{<<ListItem(i - 1)>> \o q : q \in DOMAIN kids[i]} : i \in DOMAIN kids}
      /\ \A p \in DOMAIN r : r[p] = IF p = <<>> THEN ListNode(n) ELSE kids[-Head(p)][Tail(p)]
    BY DEF List
<1> HIDE DEF r
<1>2. \A i \in 1..n : ListItem(i - 1) = -i /\ -i \in Int
    BY <1>0 DEF ListItem
<1>3. \A x : x \in DOMAIN r <=> x = <<>> \/ \E i \in 1..n : \E q \in DOMAIN kids[i] : x = <<-i>> \o q
    <2> DEFINE K(i) == {<<-i>> \o q : q \in DOMAIN kids[i]}
    <2>1. ASSUME NEW i \in 1..n PROVE {<<ListItem(i - 1)>> \o q : q \in DOMAIN kids[i]} = K(i)
        <3>1. ListItem(i - 1) = -i
            BY <1>2
        <3> QED
            BY <3>1
    <2>2. UNION {{<<ListItem(i - 1)>> \o q : q \in DOMAIN kids[i]} : i \in 1..n} = UNION {K(i) : i \in 1..n}
        <3> DEFINE J(i) == {<<ListItem(i - 1)>> \o q : q \in DOMAIN kids[i]}
        <3>1. \A i \in 1..n : J(i) = K(i)
            BY <2>1
        <3> HIDE DEF J, K
        <3>2. UNION {J(i) : i \in 1..n} = UNION {K(i) : i \in 1..n}
            BY <3>1
        <3> QED
            BY <3>2 DEF J
    <2>3. DOMAIN r = {<<>>} \cup UNION {K(i) : i \in 1..n}
        BY <1>0, <1>1, <2>2
    <2>4. \A i \in 1..n : \A x : x \in K(i) <=> \E q \in DOMAIN kids[i] : x = <<-i>> \o q
        OBVIOUS
    <2> HIDE DEF K
    <2>5. \A x : x \in DOMAIN r <=> x = <<>> \/ \E i \in 1..n : x \in K(i)
        BY <2>3
    <2>6. ASSUME NEW x
          PROVE  (\E i \in 1..n : x \in K(i)) <=> (\E i \in 1..n : \E q \in DOMAIN kids[i] : x = <<-i>> \o q)
        <3> DEFINE E(i) == \E q \in DOMAIN kids[i] : x = <<-i>> \o q
        <3>1. \A i \in 1..n : x \in K(i) <=> E(i)
            BY <2>4
        <3> HIDE DEF E
        <3>2. (\E i \in 1..n : x \in K(i)) <=> (\E i \in 1..n : E(i))
            BY <3>1
        <3> QED
            BY <3>2 DEF E
    <2> QED
        BY <2>5, <2>6
<1> HIDE DEF n
<1>4. \A i \in 1..n : Linked(kids[i]) /\ DOMAIN kids[i] \subseteq Seq(Int) /\ <<>> \in DOMAIN kids[i]
                      /\ \A q \in DOMAIN kids[i] : NodeOK(kids[i][q])
    BY TreePaths DEF n
<1>5. ASSUME NEW i \in 1..n, NEW q \in DOMAIN kids[i]
      PROVE  /\ <<-i>> \o q \in Seq(Int) /\ <<-i>> \o q \in DOMAIN r /\ <<-i>> \o q # <<>>
             /\ r[<<-i>> \o q] = kids[i][q]
    <2> DEFINE c == -i
               x == <<c>> \o q
    <2>1. c \in Int /\ q \in Seq(Int) /\ -c = i
        BY <1>0, <1>4
    <2>2. x \in DOMAIN r
        BY <1>3
    <2> HIDE DEF c
    <2>3. x \in Seq(Int) /\ x # <<>> /\ Head(x) = c /\ Tail(x) = q
        BY <2>1, HeadTail
    <2> HIDE DEF x
    <2>4. r[x] = kids[i][q]
        BY <1>1, <2>1, <2>2, <2>3
    <2> QED
        BY <2>2, <2>3, <2>4 DEF x, c
<1>6. <<>> \in DOMAIN r /\ r[<<>>] = ListNode(n) /\ <<>> \in Seq(Int)
    BY <1>1
<1>7. /\ NodeOK(ListNode(n)) /\ ListNode(n).names = ItemNames(n)
      /\ DOMAIN ItemNames(n) = 1..n /\ \A k \in 1..n : ItemNames(n)[k] = -k
    BY <1>0, ListNodeOK, ItemNamesAre
<1>8. ASSUME NEW x \in DOMAIN r PROVE x \in Seq(Int) /\ NodeOK(r[x])
    <2>1. CASE x = <<>>
        BY <1>6, <1>7, <2>1
    <2>2. ASSUME NEW i \in 1..n, NEW q \in DOMAIN kids[i], x = <<-i>> \o q
          PROVE  x \in Seq(Int) /\ NodeOK(r[x])
        <3>1. x \in Seq(Int) /\ r[x] = kids[i][q]
            BY <1>5, <2>2
        <3> QED
            BY <1>4, <3>1
    <2> QED
        BY <1>3, <2>1, <2>2
<1>9. ASSUME NEW x \in DOMAIN r, x # <<>>
      PROVE  Front(x) \in DOMAIN r /\ Last(x) \in Range(r[Front(x)].names)
    <2>1. PICK i \in 1..n : \E q \in DOMAIN kids[i] : x = <<-i>> \o q
        BY <1>3, <1>9
    <2>2. PICK q \in DOMAIN kids[i] : x = <<-i>> \o q
        BY <2>1
    <2> DEFINE c == -i
    <2>3. c \in Int /\ q \in Seq(Int) /\ x = <<c>> \o q
        BY <1>0, <1>4, <2>2
    <2>4. CASE q = <<>>
        <3>1. ItemNames(n)[i] = c
            BY <1>7
        <3> HIDE DEF c
        <3>2. x = Append(<<>>, c)
            BY <2>3, <2>4, HeadTail
        <3>3. Front(x) = <<>> /\ Last(x) = c
            BY <2>3, <1>6, <3>2, AppendFront
        <3>4. c \in Range(ItemNames(n))
            BY <1>7, <3>1 DEF Range
        <3> QED
            BY <1>6, <1>7, <3>3, <3>4
    <2>5. CASE q # <<>>
        <3>1. Front(q) \in DOMAIN kids[i] /\ Last(q) \in Range(kids[i][Front(q)].names)
            BY <1>4, <2>5 DEF Linked
        <3>2. <<-i>> \o Front(q) \in DOMAIN r /\ r[<<-i>> \o Front(q)] = kids[i][Front(q)]
            BY <1>5, <3>1
        <3>3. <<c>> \o Front(q) \in DOMAIN r /\ r[<<c>> \o Front(q)] = kids[i][Front(q)]
            BY <3>2
        <3> HIDE DEF c
        <3>4. <<c>> \in Seq(Int)
            BY <2>3
        <3>5. Front(x) = <<c>> \o Front(q) /\ Last(x) = Last(q)
            BY <2>3, <2>5, <3>4, ConcatFront
        <3> QED
            BY <3>1, <3>3, <3>5
    <2> QED
        BY <2>4, <2>5
<1>10. ASSUME NEW x \in DOMAIN r, NEW k \in DOMAIN r[x].names
       PROVE  Append(x, r[x].names[k]) \in DOMAIN r
    <2>1. CASE x = <<>>
        <3>1. k \in 1..n /\ r[x].names[k] = -k
            BY <1>6, <1>7, <2>1
        <3>2. <<-k>> \o <<>> \in DOMAIN r
            BY <1>4, <1>5, <3>1
        <3> DEFINE c == -k
        <3>3. c \in Int /\ <<c>> \o <<>> \in DOMAIN r /\ r[x].names[k] = c
            BY <3>1, <3>2, <1>0
        <3> HIDE DEF c
        <3>4. <<c>> \o <<>> = Append(<<>>, c)
            BY <3>3, <1>6, HeadTail
        <3> QED
            BY <2>1, <3>3, <3>4
    <2>2. CASE x # <<>>
        <3>1. PICK i \in 1..n : \E q \in DOMAIN kids[i] : x = <<-i>> \o q
            BY <1>3, <2>2
        <3>2. PICK q \in DOMAIN kids[i] : x = <<-i>> \o q
            BY <3>1
        <3> DEFINE d == r[x].names[k]
                   c == -i
        <3>3. r[x] = kids[i][q] /\ c \in Int /\ q \in Seq(Int)
            BY <1>0, <1>4, <1>5, <3>2
        <3>4. Append(q, d) \in DOMAIN kids[i]
            BY <1>4, <3>3 DEF Linked
        <3>5. <<-i>> \o Append(q, d) \in DOMAIN r
            BY <1>5, <3>4
        <3>6. d \in Int
            <4>1. kids[i][q].names \in Seq(Int)
                BY <1>4 DEF NodeOK
            <4> QED
                BY <3>3, <4>1, LenProperties, ElementOfSeq
        <3>7. x = <<c>> \o q /\ <<c>> \o Append(q, d) \in DOMAIN r
            BY <3>2, <3>5
        <3> HIDE DEF c, d
        <3>8. <<c>> \in Seq(Int)
            BY <3>3
        <3>9. <<c>> \o Append(q, d) = Append(x, d)
            BY <3>3, <3>6, <3>7, <3>8, ConcatAppend
        <3> QED
            BY <3>7, <3>9 DEF d
    <2> QED
        BY <2>1, <2>2
<1>11. Wellformed(r)
    BY <1>6, <1>8, <1>9, <1>10 DEF Wellformed, Linked
<1> QED
    BY <1>3, <1>5, <1>6, <1>11 DEF r, n

\* A child that the root names is there.
LEMMA NamedChild ==
    ASSUME NEW t, Wellformed(t), NEW k \in 1..Len(t[<<>>].names)
    PROVE  <<t[<<>>].names[k]>> \in DOMAIN t /\ t[<<>>].names[k] \in Int
<1>1. <<>> \in DOMAIN t /\ t[<<>>].names[k] \in Int /\ Append(<<>>, t[<<>>].names[k]) \in DOMAIN t
    BY TreePaths
<1> DEFINE c == t[<<>>].names[k]
<1>2. <<>> \in Seq(Int) /\ c \in Int
    BY <1>1
<1> HIDE DEF c
<1>3. <<c>> = Append(<<>>, c)
    BY <1>2, HeadTail
<1> QED
    BY <1>1, <1>3 DEF c

\* The items of a list and the gap behind them.
LEMMA PaddedOK ==
    ASSUME NEW t, Wellformed(t), NEW i \in Nat
    PROVE  LET n == Len(t[<<>>].names)
               m == IF i > n THEN i ELSE n
               kids == Padded(t, i)
           IN  /\ n \in Nat /\ m \in Nat /\ i <= m
               /\ kids \in Seq(Range(kids)) /\ Len(kids) = m /\ DOMAIN kids = 1..m
               /\ \A k \in 1..m : /\ Wellformed(kids[k]) /\ kids[k] \in Range(kids)
                                  /\ kids[k] = IF k <= n THEN Below(t, <<t[<<>>].names[k]>>) ELSE Empty
<1> DEFINE n == Len(t[<<>>].names)
           m == IF i > n THEN i ELSE n
           kids == Padded(t, i)
           K(k) == IF k <= n THEN Below(t, <<t[<<>>].names[k]>>) ELSE Empty
<1>1. n \in Nat /\ m \in Nat /\ i <= m
    <2>1. t[<<>>].names \in Seq(Int)
        BY TreePaths
    <2> QED
        BY <2>1, LenProperties
<1>2. kids = [k \in 1..m |-> K(k)]
    BY DEF Padded
<1> HIDE DEF kids
<1>3. ASSUME NEW k \in 1..m PROVE Wellformed(K(k))
    <2>1. CASE k <= n
        <3>1. <<t[<<>>].names[k]>> \in DOMAIN t
            BY <1>1, <2>1, NamedChild
        <3> QED
            BY <2>1, <3>1, BelowOK
    <2>2. CASE ~(k <= n)
        BY <2>2, EmptyOK
    <2> QED
        BY <2>1, <2>2
<1> HIDE DEF K, n, m
<1>4. DOMAIN kids = 1..m /\ \A k \in 1..m : kids[k] = K(k) /\ kids[k] \in Range(kids)
    BY <1>2 DEF Range
<1>5. kids \in [1..m -> Range(kids)]
    BY <1>2, <1>4
<1>6. kids \in Seq(Range(kids)) /\ Len(kids) = m
    BY <1>1, <1>5, FunctionIsSeq
<1>7. \A k \in 1..m : Wellformed(kids[k]) /\ kids[k] \in Range(kids) /\ kids[k] = K(k)
    BY <1>3, <1>4
<1> QED
    BY <1>1, <1>4, <1>6, <1>7 DEF kids, K, n, m

\* How many items there are in front of or behind an insertion, and the k-th item after it.
Items(t, i) == IF i > Len(t[<<>>].names) THEN i ELSE Len(t[<<>>].names)
Kid(t, i, node, k) ==
    IF k < i + 1 THEN Padded(t, i)[k] ELSE IF k = i + 1 THEN node ELSE Padded(t, i)[k - 1]
Inserted(r, t, i, node) ==
    /\ Wellformed(r) /\ <<>> \in DOMAIN r /\ r[<<>>] = ListNode(Items(t, i) + 1)
    /\ \A k \in 1..(Items(t, i) + 1) : \A q \in DOMAIN Kid(t, i, node, k) :
         <<-k>> \o q \in DOMAIN r /\ r[<<-k>> \o q] = Kid(t, i, node, k)[q]
    /\ \A x \in DOMAIN r :
         x = <<>> \/ \E k \in 1..(Items(t, i) + 1) : \E q \in DOMAIN Kid(t, i, node, k) : x = <<-k>> \o q

\* A tree inserted in a list.
LEMMA InsertOK ==
    ASSUME NEW t, Wellformed(t), NEW i \in Nat, NEW node, Wellformed(node)
    PROVE  /\ Failed(Insert(t, i, node)) <=> t[<<>>].type \notin {"EMPTY", "LIST"}
           /\ ~Failed(Insert(t, i, node)) => Inserted(Insert(t, i, node), t, i, node)
<1> DEFINE m == Items(t, i)
           kids == Padded(t, i)
           S == Range(kids) \cup {node}
           s == InsertAt(kids, i + 1, node)
           r == List(s)
           kid(k) == Kid(t, i, node, k)
<1>1. /\ m \in Nat /\ i <= m
      /\ kids \in Seq(Range(kids)) /\ Len(kids) = m /\ DOMAIN kids = 1..m
      /\ \A k \in 1..m : Wellformed(kids[k]) /\ kids[k] \in Range(kids)
    BY PaddedOK DEF Items
<1>k. \A k \in 1..(m + 1) : kid(k) = IF k < i + 1 THEN kids[k] ELSE IF k = i + 1 THEN node ELSE kids[k - 1]
    BY DEF Kid
<1>e. Insert(t, i, node) = IF t[<<>>].type \notin {"EMPTY", "LIST"} THEN Failure ELSE r
    BY DEF Insert
<1> HIDE DEF m, kids, kid
<1>2. \A k \in 1..Len(kids) : kids[k] \in S
    BY <1>1
<1>3. kids \in Seq(S) /\ node \in S /\ i + 1 \in 1..(Len(kids) + 1)
    BY <1>1, <1>2, SeqOfElements
<1> HIDE DEF S
<1>4. /\ s \in Seq(S) /\ Len(s) = m + 1
      /\ \A k \in 1..(m + 1) : s[k] = IF k < i + 1 THEN kids[k] ELSE IF k = i + 1 THEN node ELSE kids[k - 1]
    <2>1. s \in Seq(S) /\ Len(s) = Len(kids) + 1
        BY <1>3, InsertAtSeq
    <2>2. \A k \in 1..(Len(kids) + 1) : s[k] = IF k < i + 1 THEN kids[k] ELSE IF k = i + 1 THEN node ELSE kids[k - 1]
        BY <1>3, InsertAtValues
    <2> QED
        BY <1>1, <2>1, <2>2
<1> HIDE DEF s
<1>5. \A k \in 1..(m + 1) : s[k] = kid(k)
    BY <1>4, <1>k
<1>6. \A k \in 1..Len(s) : Wellformed(s[k])
    BY <1>1, <1>4
<1>7. /\ Wellformed(r)
      /\ <<>> \in DOMAIN r /\ r[<<>>] = ListNode(Len(s))
      /\ \A k \in 1..Len(s) : \A q \in DOMAIN s[k] : <<-k>> \o q \in DOMAIN r /\ r[<<-k>> \o q] = s[k][q]
      /\ \A x \in DOMAIN r : x = <<>> \/ \E k \in 1..Len(s) : \E q \in DOMAIN s[k] : x = <<-k>> \o q
    BY <1>4, <1>6, ListOK
<1> HIDE DEF r
<1>8. Inserted(r, t, i, node)
    <2>1. \A k \in 1..(m + 1) : \A q \in DOMAIN kid(k) : <<-k>> \o q \in DOMAIN r /\ r[<<-k>> \o q] = kid(k)[q]
        <3> SUFFICES ASSUME NEW k \in 1..(m + 1), NEW q \in DOMAIN kid(k)
                     PROVE  <<-k>> \o q \in DOMAIN r /\ r[<<-k>> \o q] = kid(k)[q]
            OBVIOUS
        <3>1. s[k] = kid(k) /\ k \in 1..Len(s)
            BY <1>4, <1>5
        <3>2. q \in DOMAIN s[k]
            BY <3>1
        <3>3. <<-k>> \o q \in DOMAIN r /\ r[<<-k>> \o q] = s[k][q]
            BY <1>7, <3>1, <3>2
        <3> QED
            BY <3>1, <3>3
    <2>2. \A x \in DOMAIN r : x = <<>> \/ \E k \in 1..(m + 1) : \E q \in DOMAIN kid(k) : x = <<-k>> \o q
        <3> SUFFICES ASSUME NEW x \in DOMAIN r, x # <<>>
                     PROVE  \E k \in 1..(m + 1) : \E q \in DOMAIN kid(k) : x = <<-k>> \o q
            OBVIOUS
        <3>1. PICK k \in 1..(m + 1) : \E q \in DOMAIN s[k] : x = <<-k>> \o q
            BY <1>4, <1>7
        <3>2. PICK q \in DOMAIN s[k] : x = <<-k>> \o q
            BY <3>1
        <3>3. q \in DOMAIN kid(k)
            BY <1>5, <3>2
        <3> QED
            BY <3>2, <3>3
    <2> QED
        BY <1>4, <1>7, <2>1, <2>2 DEF Inserted, m, kid
<1>9. ~Failed(r)
    BY <1>7, NodesNotFailed
<1> QED
    BY <1>8, <1>9, <1>e DEF Failed

\* The keys of a path, and the nodes on the way to it.
Keys(path) == [d \in DOMAIN path |-> AsKey(path[d])]
OnWay(p, keys) == p \in Paths /\ IsPrefix(p, keys) /\ p # keys

\* A path has its keys, one for each name.
LEMMA KeysAre ==
    ASSUME NEW path \in Paths
    PROVE  /\ Keys(path) \in Seq(Nat) /\ Keys(path) \in Paths /\ Len(Keys(path)) = Len(path)
           /\ \A d \in 1..Len(path) : Keys(path)[d] = AsKey(path[d]) /\ Keys(path)[d] \in Nat
           /\ Keys(path) = <<>> <=> path = <<>>
<1>1. Len(path) \in Nat /\ DOMAIN path = 1..Len(path) /\ \A d \in 1..Len(path) : path[d] \in Int
    BY LenProperties, ElementOfSeq DEF Paths
<1>2. \A d \in 1..Len(path) : AsKey(path[d]) \in Nat
    BY <1>1 DEF AsKey
<1>3. Keys(path) = [d \in 1..Len(path) |-> AsKey(path[d])]
    BY <1>1 DEF Keys
<1>4. Keys(path) \in [1..Len(path) -> Nat] /\ Keys(path) \in [1..Len(path) -> Int]
    BY <1>2, <1>3
<1>5. Keys(path) \in Seq(Nat) /\ Keys(path) \in Seq(Int) /\ Len(Keys(path)) = Len(path)
    BY <1>1, <1>4, FunctionIsSeq
<1>6. Keys(path) = <<>> <=> path = <<>>
    BY <1>5, EmptySeq DEF Paths
<1> QED
    BY <1>2, <1>3, <1>5, <1>6 DEF Paths

\* The beginnings of a path.
LEMMA WayIs ==
    ASSUME NEW keys \in Paths
    PROVE  /\ \A p : p \in {SubSeq(keys, 1, d) : d \in 0..(Len(keys) - 1)} <=> OnWay(p, keys)
           /\ \A p : OnWay(p, keys) =>
                /\ p \in Paths /\ Len(p) + 1 \in 1..Len(keys) /\ keys[Len(p) + 1] \in Int
                /\ Append(p, keys[Len(p) + 1]) \in Paths
                /\ OnWay(Append(p, keys[Len(p) + 1]), keys) \/ Append(p, keys[Len(p) + 1]) = keys
                /\ p # <<>> => OnWay(Front(p), keys) /\ Last(p) = keys[Len(Front(p)) + 1]
           /\ keys # <<>> => OnWay(Front(keys), keys) /\ Last(keys) = keys[Len(Front(keys)) + 1]
<1>0. Len(keys) \in Nat /\ keys \in Seq(Int)
    BY LenProperties DEF Paths
<1>1. ASSUME NEW d \in 0..(Len(keys) - 1)
      PROVE  OnWay(SubSeq(keys, 1, d), keys)
    <2>1. d \in 0..Len(keys) /\ d # Len(keys)
        BY <1>0
    <2>2. SubSeq(keys, 1, d) \in Paths /\ Len(SubSeq(keys, 1, d)) = d /\ IsPrefix(SubSeq(keys, 1, d), keys)
        BY <2>1, SubSeqPaths
    <2> QED
        BY <2>1, <2>2 DEF OnWay
<1>2. ASSUME NEW p, OnWay(p, keys)
      PROVE  /\ p \in Seq(Int) /\ IsPrefix(p, keys) /\ p # keys /\ Len(p) \in 0..(Len(keys) - 1)
             /\ p = SubSeq(keys, 1, Len(p))
    <2>1. p \in Seq(Int) /\ IsPrefix(p, keys) /\ p # keys
        BY <1>2 DEF OnWay, Paths
    <2>2. Len(p) < Len(keys) /\ Len(p) \in Nat
        BY <1>0, <2>1, PrefixFront, LenProperties
    <2>3. p = SubSeq(keys, 1, Len(p))
        BY <1>0, <2>1, SubSeqFull DEF IsPrefix
    <2> QED
        BY <1>0, <2>1, <2>2, <2>3
<1>3. ASSUME NEW p, OnWay(p, keys)
      PROVE  /\ p \in Paths /\ Len(p) + 1 \in 1..Len(keys) /\ keys[Len(p) + 1] \in Int
             /\ Append(p, keys[Len(p) + 1]) \in Paths
             /\ OnWay(Append(p, keys[Len(p) + 1]), keys) \/ Append(p, keys[Len(p) + 1]) = keys
    <2>1. p \in Seq(Int) /\ IsPrefix(p, keys) /\ p # keys
        BY <1>2, <1>3
    <2>2. /\ keys[Len(p) + 1] \in Int /\ Len(p) + 1 \in 1..Len(keys)
          /\ IsPrefix(Append(p, keys[Len(p) + 1]), keys)
        BY <1>0, <2>1, PrefixNext
    <2> DEFINE c == keys[Len(p) + 1]
    <2>3. Append(p, c) \in Seq(Int)
        BY <2>1, <2>2, AppendFront
    <2> QED
        BY <2>1, <2>2, <2>3 DEF OnWay, Paths
<1>4. ASSUME NEW p \in Paths, p # <<>>, IsPrefix(p, keys)
      PROVE  OnWay(Front(p), keys) /\ Last(p) = keys[Len(Front(p)) + 1]
    <2>1. /\ Front(p) \in Seq(Int) /\ Len(Front(p)) = Len(p) - 1 /\ IsPrefix(Front(p), p)
          /\ p = Append(Front(p), Last(p)) /\ Last(p) \in Int
        BY <1>4, FrontLast DEF Paths
    <2>2. p \in Seq(Int) /\ Len(p) \in Nat /\ Len(p) # 0
        BY <1>4, LenProperties, EmptySeq DEF Paths
    <2>3. IsPrefix(Front(p), keys)
        BY <1>0, <1>4, <2>1, <2>2, PrefixOrder
    <2>4. Len(p) <= Len(keys) /\ \A i \in 1..Len(p) : p[i] = keys[i]
        BY <1>0, <1>4, <2>2, PrefixElements
    <2>5. Front(p) # keys
        BY <2>1, <2>2, <2>4
    <2>6. Last(p) = p[Len(p)]
        BY DEF Last
    <2>7. Last(p) = keys[Len(Front(p)) + 1]
        <3>1. Len(p) \in 1..Len(p) /\ Len(Front(p)) + 1 = Len(p)
            BY <2>1, <2>2
        <3> QED
            BY <2>4, <2>6, <3>1
    <2> QED
        BY <2>1, <2>3, <2>5, <2>7 DEF OnWay, Paths
<1>5. ASSUME NEW p, OnWay(p, keys), p # <<>>
      PROVE  OnWay(Front(p), keys) /\ Last(p) = keys[Len(Front(p)) + 1]
    BY <1>4, <1>5 DEF OnWay
<1>6. keys # <<>> => OnWay(Front(keys), keys) /\ Last(keys) = keys[Len(Front(keys)) + 1]
    <2>1. IsPrefix(keys, keys)
        BY <1>0, PrefixOrder
    <2> QED
        BY <1>4, <2>1
<1>7. \A p : p \in {SubSeq(keys, 1, d) : d \in 0..(Len(keys) - 1)} <=> OnWay(p, keys)
    BY <1>1, <1>2
<1> QED
    BY <1>3, <1>5, <1>6, <1>7

\* A name more, unless it is there.
LEMMA NameAdded ==
    ASSUME NEW names \in Seq(Nat), IsInjective(names), NEW key \in Nat
    PROVE  LET all == IF HasKey(names, key) THEN names ELSE Append(names, key)
           IN  /\ all \in Seq(Nat) /\ IsInjective(all)
               /\ Range(all) = Range(names) \cup {key}
<1>1. Len(names) \in Nat /\ DOMAIN names = 1..Len(names) /\ \A i \in 1..Len(names) : names[i] \in Nat
    BY LenProperties, ElementOfSeq
<1>2. CASE HasKey(names, key)
    <2>1. key \in Range(names)
        BY <1>2 DEF HasKey, Range
    <2> QED
        BY <1>2, <2>1
<1>3. CASE ~HasKey(names, key)
    <2> DEFINE all == Append(names, key)
    <2>1. /\ all \in Seq(Nat) /\ Len(all) = Len(names) + 1 /\ all[Len(names) + 1] = key
          /\ \A i \in 1..Len(names) : all[i] = names[i]
        BY AppendProperties
    <2>2. DOMAIN all = 1..(Len(names) + 1)
        BY <2>1, LenProperties
    <2> HIDE DEF all
    <2>3. \A i \in 1..Len(names) : names[i] # key
        BY <1>1, <1>3 DEF HasKey
    <2>4. IsInjective(all)
        <3> SUFFICES ASSUME NEW a \in 1..(Len(names) + 1), NEW b \in 1..(Len(names) + 1), all[a] = all[b]
                     PROVE  a = b
            BY <2>2 DEF IsInjective
        <3>1. CASE a <= Len(names) /\ b <= Len(names)
            <4>1. a \in DOMAIN names /\ b \in DOMAIN names /\ names[a] = names[b]
                BY <1>1, <2>1, <3>1
            <4> QED
                BY <4>1 DEF IsInjective
        <3>2. CASE a = Len(names) + 1 /\ b <= Len(names)
            BY <1>1, <2>1, <2>3, <3>2
        <3>3. CASE b = Len(names) + 1 /\ a <= Len(names)
            BY <1>1, <2>1, <2>3, <3>3
        <3> QED
            BY <1>1, <3>1, <3>2, <3>3
    <2>5. Range(all) = Range(names) \cup {key}
        <3>1. Range(all) = {all[i] : i \in 1..(Len(names) + 1)} /\ Range(names) = {names[i] : i \in 1..Len(names)}
            BY <1>1, <2>2 DEF Range
        <3>2. 1..(Len(names) + 1) = 1..Len(names) \cup {Len(names) + 1}
            BY <1>1
        <3> QED
            BY <2>1, <3>1, <3>2, SMTT(30)
    <2> QED
        BY <1>3, <2>1, <2>4, <2>5 DEF all
<1> QED
    BY <1>2, <1>3

\* The names of a node of the way after a child was added.
NamesAdded(t, keys, p) ==
    LET names == IF p \in DOMAIN t THEN t[p].names ELSE <<>>
        key == keys[Len(p) + 1]
    IN  IF HasKey(names, key) THEN names ELSE Append(names, key)
InAdded(x, t, keys, node) ==
    \/ x \in DOMAIN t
    \/ OnWay(x, keys)
    \/ keys \notin DOMAIN t /\ \E q \in DOMAIN node : x = keys \o q
Added(r, t, keys, node) ==
    /\ Wellformed(r)
    /\ \A x : x \in DOMAIN r <=> InAdded(x, t, keys, node)
    /\ \A x : OnWay(x, keys) => r[x] = StructNode(NamesAdded(t, keys, x))
    /\ \A x \in DOMAIN t : ~OnWay(x, keys) => r[x] = t[x]
    /\ keys \notin DOMAIN t => \A q \in DOMAIN node : r[keys \o q] = node[q]

\* What add_child makes, and when it throws.
LEMMA AddChildIs ==
    ASSUME NEW t, Wellformed(t), NEW path \in Paths, NEW node, Wellformed(node)
    PROVE  LET keys == Keys(path)
               r == AddChild(t, path, node)
           IN  /\ (\E p \in DOMAIN t : OnWay(p, keys) /\ t[p].type \notin {"EMPTY", "STRUCT"}) => r = Failure
               /\ ~(\E p \in DOMAIN t : OnWay(p, keys) /\ t[p].type \notin {"EMPTY", "STRUCT"}) =>
                    /\ \A x : x \in DOMAIN r <=> InAdded(x, t, keys, node)
                    /\ \A x : OnWay(x, keys) => r[x] = StructNode(NamesAdded(t, keys, x))
                    /\ \A x \in DOMAIN t : ~OnWay(x, keys) => r[x] = t[x]
                    /\ keys \notin DOMAIN t => \A q \in DOMAIN node : r[keys \o q] = node[q]
<1> DEFINE keys == Keys(path)
           r == AddChild(t, path, node)
           way == {SubSeq(keys, 1, d) : d \in 0..(Len(path) - 1)}
           made == IF keys \in DOMAIN t THEN {} ELSE {keys \o q : q \in DOMAIN node}
           bad == \E p \in way \cap DOMAIN t : t[p].type \notin {"EMPTY", "STRUCT"}
           all == DOMAIN t \cup way \cup made
<1>1. Len(keys) = Len(path) /\ keys \in Paths
    BY KeysAre
<1>2. r = IF bad THEN Failure
          ELSE [p \in all |-> IF p \in way THEN StructNode(NamesAdded(t, keys, p))
                              ELSE IF p \in DOMAIN t THEN t[p] ELSE node[Rest(keys, p)]]
    BY Zenon DEF AddChild, NamesAdded, Keys
<1> HIDE DEF r, keys
<1>3. \A p : p \in way <=> OnWay(p, keys)
    BY <1>1, WayIs
<1> HIDE DEF way
<1>4. bad <=> \E p \in DOMAIN t : OnWay(p, keys) /\ t[p].type \notin {"EMPTY", "STRUCT"}
    BY <1>3
<1> HIDE DEF bad
<1>5. ASSUME ~bad
      PROVE  /\ \A x : x \in DOMAIN r <=> InAdded(x, t, keys, node)
             /\ \A x : OnWay(x, keys) => r[x] = StructNode(NamesAdded(t, keys, x))
             /\ \A x \in DOMAIN t : ~OnWay(x, keys) => r[x] = t[x]
             /\ keys \notin DOMAIN t => \A q \in DOMAIN node : r[keys \o q] = node[q]
    <2> DEFINE F(p) == IF p \in way THEN StructNode(NamesAdded(t, keys, p))
                       ELSE IF p \in DOMAIN t THEN t[p] ELSE node[Rest(keys, p)]
    <2>1. r = [p \in all |-> F(p)]
        BY <1>2, <1>5
    <2> HIDE DEF F
    <2>2. DOMAIN r = all /\ \A x \in all : r[x] = F(x)
        BY <2>1
    <2>3. \A x : x \in made <=> keys \notin DOMAIN t /\ \E q \in DOMAIN node : x = keys \o q
        OBVIOUS
    <2> HIDE DEF made
    <2>4. \A x : x \in DOMAIN r <=> x \in DOMAIN t \/ x \in way \/ x \in made
        BY <2>2
    <2>5. \A x : OnWay(x, keys) => r[x] = StructNode(NamesAdded(t, keys, x))
        BY <1>3, <2>2 DEF F
    <2>6. \A x \in DOMAIN t : ~OnWay(x, keys) => r[x] = t[x]
        BY <1>3, <2>2 DEF F
    <2>7. ASSUME keys \notin DOMAIN t, NEW q \in DOMAIN node
          PROVE  r[keys \o q] = node[q]
        <3> DEFINE x == keys \o q
        <3>1. q \in Seq(Int) /\ keys \in Seq(Int)
            BY <1>1, TreePaths DEF Paths
        <3>2. x \in Seq(Int) /\ Len(x) = Len(keys) + Len(q) /\ Len(keys) \in Nat /\ Len(q) \in Nat
            BY <3>1, ConcatPaths, LenProperties
        <3>3. IsPrefix(keys, x) /\ Rest(keys, x) = q
            BY <3>1, PrefixConcat DEF Rest
        <3>4. x \in made
            BY <2>3, <2>7
        <3> HIDE DEF x
        <3>5. x \notin DOMAIN t
            BY <1>1, <2>7, <3>3, LinkedPrefix, TreePaths
        <3>6. ~OnWay(x, keys)
            <4> SUFFICES ASSUME IsPrefix(x, keys), x # keys PROVE FALSE
                BY DEF OnWay
            <4>1. Len(x) < Len(keys)
                BY <3>1, <3>2, PrefixFront
            <4> QED
                BY <3>2, <4>1
        <3>7. r[x] = node[q]
            BY <1>3, <2>2, <2>4, <3>3, <3>4, <3>5, <3>6 DEF F
        <3> QED
            BY <3>7 DEF x
    <2> QED
        BY <1>3, <2>3, <2>4, <2>5, <2>6, <2>7 DEF InAdded
<1>6. bad => r = Failure
    BY <1>2
<1> QED
    BY <1>4, <1>5, <1>6 DEF r, keys

\* add_child fails on the way through a node that is no struct, and else adds this.
LEMMA AddChildOK ==
    ASSUME NEW t, Wellformed(t), NEW path \in Paths, NEW node, Wellformed(node)
    PROVE  LET keys == Keys(path)
               r == AddChild(t, path, node)
           IN  /\ Failed(r) <=> \E p \in DOMAIN t : OnWay(p, keys) /\ t[p].type \notin {"EMPTY", "STRUCT"}
               /\ ~Failed(r) => Added(r, t, keys, node)
<1> DEFINE keys == Keys(path)
           r == AddChild(t, path, node)
           bad == \E p \in DOMAIN t : OnWay(p, keys) /\ t[p].type \notin {"EMPTY", "STRUCT"}
           N(x) == NamesAdded(t, keys, x)
<1>1. keys \in Paths /\ keys \in Seq(Nat) /\ \A d \in 1..Len(keys) : keys[d] \in Nat
    BY KeysAre
<1>2. /\ bad => r = Failure
      /\ ~bad => /\ \A x : x \in DOMAIN r <=> InAdded(x, t, keys, node)
                 /\ \A x : OnWay(x, keys) => r[x] = StructNode(N(x))
                 /\ \A x \in DOMAIN t : ~OnWay(x, keys) => r[x] = t[x]
                 /\ keys \notin DOMAIN t => \A q \in DOMAIN node : r[keys \o q] = node[q]
    BY AddChildIs
<1> HIDE DEF r, keys
<1>3. /\ Linked(t) /\ DOMAIN t \subseteq Seq(Int) /\ <<>> \in DOMAIN t
      /\ Linked(node) /\ DOMAIN node \subseteq Seq(Int) /\ <<>> \in DOMAIN node
      /\ \A p \in DOMAIN t : NodeOK(t[p])
      /\ \A p \in DOMAIN node : NodeOK(node[p])
      /\ keys \in Seq(Int) /\ keys \o <<>> = keys
    BY <1>1, TreePaths, ConcatPaths DEF Paths
<1>4. ASSUME ~bad PROVE Wellformed(r)
    <2>1. ASSUME NEW x, OnWay(x, keys)
          PROVE  /\ N(x) \in Seq(Nat) /\ IsInjective(N(x))
                 /\ Range(N(x)) = (IF x \in DOMAIN t THEN Range(t[x].names) ELSE {}) \cup {keys[Len(x) + 1]}
        <3> DEFINE names == IF x \in DOMAIN t THEN t[x].names ELSE <<>>
        <3>1. names \in Seq(Nat) /\ IsInjective(names)
            <4>1. CASE x \in DOMAIN t
                <5>1. t[x].type \in {"EMPTY", "STRUCT"} /\ NodeOK(t[x])
                    BY <1>3, <1>4, <2>1, <4>1
                <5>2. CASE t[x].type = "EMPTY"
                    <6>1. t[x].names = <<>>
                        BY <5>1, <5>2 DEF NodeOK, Inner
                    <6> QED
                        BY <4>1, <6>1 DEF IsInjective
                <5>3. CASE t[x].type = "STRUCT"
                    BY <4>1, <5>1, <5>3 DEF NodeOK
                <5> QED
                    BY <5>1, <5>2, <5>3
            <4>2. CASE x \notin DOMAIN t
                BY <4>2 DEF IsInjective
            <4> QED
                BY <4>1, <4>2
        <3>2. keys[Len(x) + 1] \in Nat
            BY <1>1, <2>1, WayIs
        <3>3. N(x) = IF HasKey(names, keys[Len(x) + 1]) THEN names ELSE Append(names, keys[Len(x) + 1])
            BY DEF NamesAdded
        <3>4. Range(names) = IF x \in DOMAIN t THEN Range(t[x].names) ELSE {}
            BY DEF Range
        <3> HIDE DEF names, N
        <3> QED
            BY <3>1, <3>2, <3>3, <3>4, NameAdded
    <2> HIDE DEF N
    <2>2. ASSUME NEW x, OnWay(x, keys)
          PROVE  /\ x \in DOMAIN r /\ x \in Seq(Int) /\ NodeOK(r[x]) /\ r[x].names = N(x)
                 /\ keys[Len(x) + 1] \in Range(r[x].names)
                 /\ x \in DOMAIN t => Range(t[x].names) \subseteq Range(r[x].names)
        <3>1. NodeOK(StructNode(N(x))) /\ StructNode(N(x)).names = N(x)
            BY <2>1, <2>2, StructNodeOK
        <3>2. r[x] = StructNode(N(x)) /\ x \in DOMAIN r /\ x \in Seq(Int)
            BY <1>2, <1>4, <2>2 DEF OnWay, Paths, InAdded
        <3> QED
            BY <2>1, <2>2, <3>1, <3>2
    <2>3. ASSUME NEW x \in DOMAIN t
          PROVE  x \in DOMAIN r /\ NodeOK(r[x]) /\ Range(t[x].names) \subseteq Range(r[x].names)
        BY <1>2, <1>3, <1>4, <2>2, <2>3 DEF InAdded
    <2>4. ASSUME keys \notin DOMAIN t, NEW q \in DOMAIN node
          PROVE  keys \o q \in DOMAIN r /\ r[keys \o q] = node[q] /\ keys \o q \in Seq(Int)
        <3>1. keys \o q \in Seq(Int)
            BY <1>3, ConcatPaths
        <3> QED
            BY <1>2, <1>4, <2>4, <3>1 DEF InAdded
    <2>5. keys \in DOMAIN r
        BY <1>3, <2>3, <2>4
    <2>6. ASSUME NEW x \in DOMAIN r PROVE x \in Seq(Int) /\ NodeOK(r[x])
        <3>1. CASE x \in DOMAIN t
            BY <1>3, <2>3, <3>1
        <3>2. CASE OnWay(x, keys)
            BY <2>2, <3>2
        <3>3. ASSUME keys \notin DOMAIN t, NEW q \in DOMAIN node, x = keys \o q
              PROVE  x \in Seq(Int) /\ NodeOK(r[x])
            BY <1>3, <2>4, <3>3
        <3> QED
            BY <1>2, <1>4, <3>1, <3>2, <3>3 DEF InAdded
    <2>7. ASSUME NEW x \in DOMAIN r, x # <<>>
          PROVE  Front(x) \in DOMAIN r /\ Last(x) \in Range(r[Front(x)].names)
        <3>1. CASE x \in DOMAIN t
            <4>1. Front(x) \in DOMAIN t /\ Last(x) \in Range(t[Front(x)].names)
                BY <1>3, <2>7, <3>1 DEF Linked
            <4> QED
                BY <2>3, <4>1
        <3>2. CASE OnWay(x, keys)
            <4>1. OnWay(Front(x), keys) /\ Last(x) = keys[Len(Front(x)) + 1]
                BY <1>1, <2>7, <3>2, WayIs
            <4> QED
                BY <2>2, <4>1
        <3>3. ASSUME keys \notin DOMAIN t, NEW q \in DOMAIN node, x = keys \o q
              PROVE  Front(x) \in DOMAIN r /\ Last(x) \in Range(r[Front(x)].names)
            <4>1. CASE q = <<>>
                <5>1. x = keys
                    BY <1>3, <3>3, <4>1
                <5>2. OnWay(Front(x), keys) /\ Last(x) = keys[Len(Front(x)) + 1]
                    BY <1>1, <2>7, <5>1, WayIs
                <5> QED
                    BY <2>2, <5>2
            <4>2. CASE q # <<>>
                <5>1. Front(q) \in DOMAIN node /\ Last(q) \in Range(node[Front(q)].names)
                    BY <1>3, <4>2 DEF Linked
                <5>2. Front(x) = keys \o Front(q) /\ Last(x) = Last(q)
                    BY <1>3, <3>3, <4>2, ConcatFront
                <5> QED
                    BY <2>4, <3>3, <5>1, <5>2
            <4> QED
                BY <4>1, <4>2
        <3> QED
            BY <1>2, <1>4, <3>1, <3>2, <3>3 DEF InAdded
    <2>8. ASSUME NEW x \in DOMAIN r, NEW i \in DOMAIN r[x].names
          PROVE  Append(x, r[x].names[i]) \in DOMAIN r
        <3> DEFINE c == r[x].names[i]
        <3>0. c \in Range(r[x].names) /\ c \in Int
            <4>1. r[x].names \in Seq(Int)
                BY <2>6 DEF NodeOK
            <4> QED
                BY <4>1, LenProperties, ElementOfSeq DEF Range
        <3> HIDE DEF c
        <3> SUFFICES Append(x, c) \in DOMAIN r
            BY DEF c
        <3>1. ASSUME x \in DOMAIN t, c \in Range(t[x].names) PROVE Append(x, c) \in DOMAIN r
            <4>1. PICK k \in DOMAIN t[x].names : t[x].names[k] = c
                BY <3>1 DEF Range
            <4>2. Append(x, c) \in DOMAIN t
                BY <1>3, <3>1, <4>1 DEF Linked
            <4> QED
                BY <2>3, <4>2
        <3>2. CASE OnWay(x, keys)
            <4>1. CASE c = keys[Len(x) + 1]
                <5>1. OnWay(Append(x, c), keys) \/ Append(x, c) = keys
                    BY <1>1, <3>2, <4>1, WayIs
                <5> QED
                    BY <2>2, <2>5, <5>1
            <4>2. CASE c # keys[Len(x) + 1]
                <5>1. c \in IF x \in DOMAIN t THEN Range(t[x].names) ELSE {}
                    BY <2>1, <2>2, <3>0, <3>2, <4>2
                <5>2. x \in DOMAIN t /\ c \in Range(t[x].names)
                    BY <5>1
                <5> QED
                    BY <3>1, <5>2
            <4> QED
                BY <4>1, <4>2
        <3>3. CASE x \in DOMAIN t /\ ~OnWay(x, keys)
            <4>1. r[x] = t[x]
                BY <1>2, <1>4, <3>3
            <4> QED
                BY <3>0, <3>1, <3>3, <4>1
        <3>4. ASSUME keys \notin DOMAIN t, NEW q \in DOMAIN node, x = keys \o q
              PROVE  Append(x, c) \in DOMAIN r
            <4>1. r[x] = node[q]
                BY <2>4, <3>4
            <4>2. PICK k \in DOMAIN node[q].names : node[q].names[k] = c
                BY <3>0, <4>1 DEF Range
            <4>3. Append(q, c) \in DOMAIN node
                BY <1>3, <4>2 DEF Linked
            <4>4. keys \o Append(q, c) = Append(x, c)
                BY <1>3, <3>0, <3>4, ConcatAppend, SMTT(30)
            <4> QED
                BY <2>4, <3>4, <4>3, <4>4
        <3> QED
            BY <1>2, <1>4, <3>2, <3>3, <3>4 DEF InAdded
    <2>9. <<>> \in DOMAIN r
        BY <1>3, <2>3
    <2> QED
        BY <2>6, <2>7, <2>8, <2>9 DEF Wellformed, Linked
<1>5. ~bad => ~Failed(r)
    BY <1>4, NodesNotFailed
<1>6. Failed(r) <=> bad
    BY <1>2, <1>5 DEF Failed
<1>7. ~bad => Added(r, t, keys, node)
    BY <1>2, <1>4 DEF Added
<1> QED
    BY <1>6, <1>7 DEF r, keys

\* The parts of insert on a list of a tree: add_child, insert, and the whole.
LEMMA InsertInIs ==
    ASSUME NEW t, Wellformed(t), NEW path \in Paths, NEW i \in Nat, NEW node, Wellformed(node),
           ~Failed(InsertIn(t, path, i, node))
    PROVE  LET keys == Keys(path)
               made == AddChild(t, path, Empty)
               list == Insert(Below(made, keys), i, node)
           IN  /\ keys \in Seq(Nat) /\ keys \in Paths
               /\ ~Failed(made) /\ Added(made, t, keys, Empty) /\ keys \in DOMAIN made
               /\ Wellformed(Below(made, keys)) /\ ~Failed(list) /\ Inserted(list, Below(made, keys), i, node)
               /\ InsertIn(t, path, i, node) = Replace(made, keys, list)
<1> DEFINE keys == Keys(path)
           made == AddChild(t, path, Empty)
           list == Insert(Below(made, keys), i, node)
           r == InsertIn(t, path, i, node)
<1>1. r = IF Failed(made) \/ Failed(list) THEN Failure ELSE Replace(made, keys, list)
    BY DEF InsertIn, Keys
<1>2. ~Failed(made) /\ ~Failed(list) /\ r = Replace(made, keys, list)
    BY <1>1 DEF Failed
<1>3. keys \in Seq(Nat) /\ keys \in Paths
    BY KeysAre
<1>4. Added(made, t, keys, Empty)
    BY <1>2, AddChildOK, EmptyOK
<1> HIDE DEF r, made, keys
<1>5. keys \in DOMAIN made
    <2>1. CASE keys \in DOMAIN t
        BY <1>4, <2>1 DEF Added, InAdded
    <2>2. CASE keys \notin DOMAIN t
        <3>1. <<>> \in DOMAIN Empty
            BY EmptyOK, TreePaths
        <3>2. keys \o <<>> = keys
            BY <1>3, ConcatPaths
        <3> QED
            BY <1>4, <2>2, <3>1, <3>2 DEF Added, InAdded
    <2> QED
        BY <2>1, <2>2
<1>6. Wellformed(Below(made, keys))
    BY <1>4, <1>5, BelowOK DEF Added
<1>7. Inserted(list, Below(made, keys), i, node)
    BY <1>2, <1>6, InsertOK
<1> QED
    BY <1>2, <1>3, <1>4, <1>5, <1>6, <1>7 DEF r, made, keys

\* insert in a node that get_or_create finds or makes gives a tree again.
LEMMA InsertInOK ==
    ASSUME NEW t, Wellformed(t), NEW path \in Paths, NEW i \in Nat, NEW node, Wellformed(node),
           ~Failed(InsertIn(t, path, i, node))
    PROVE  Wellformed(InsertIn(t, path, i, node))
<1> DEFINE keys == Keys(path)
           made == AddChild(t, path, Empty)
           list == Insert(Below(made, keys), i, node)
<1>1. /\ Added(made, t, keys, Empty) /\ keys \in DOMAIN made
      /\ Inserted(list, Below(made, keys), i, node)
      /\ InsertIn(t, path, i, node) = Replace(made, keys, list)
    BY InsertInIs
<1> HIDE DEF keys, made, list
<1>2. Wellformed(made) /\ Wellformed(list)
    BY <1>1 DEF Added, Inserted
<1> QED
    BY <1>1, <1>2, ReplaceOK

\* What read_node makes of an object is a tree.
LEMMA PlacedOK ==
    ASSUME NEW t, Failed(t) \/ Wellformed(t), NEW path \in Paths,
           NEW node, Failed(node) \/ Wellformed(node)
    PROVE  Failed(Placed(t, path, node)) \/ Wellformed(Placed(t, path, node))
<1> SUFFICES ASSUME ~Failed(Placed(t, path, node)) PROVE Wellformed(Placed(t, path, node))
    OBVIOUS
<1>1. ~Failed(t) /\ ~Failed(node) /\ path # <<>>
    BY DEF Placed, Failed
<1>2. Front(path) \in Paths /\ Last(path) \in Int
    BY <1>1, FrontLast DEF Paths
<1>3. CASE Last(path) < 0
    <2>1. ListItem(Last(path)) \in Nat
        BY <1>2, <1>3 DEF ListItem
    <2>2. Placed(t, path, node) = InsertIn(t, Front(path), ListItem(Last(path)), node)
        BY <1>1, <1>3 DEF Placed
    <2> QED
        BY <1>1, <1>2, <2>1, <2>2, InsertInOK
<1>4. CASE ~(Last(path) < 0)
    <2>1. Placed(t, path, node) = AddChild(t, path, node)
        BY <1>1, <1>4 DEF Placed
    <2>2. Added(AddChild(t, path, node), t, Keys(path), node)
        BY <1>1, <2>1, AddChildOK
    <2> QED
        BY <2>1, <2>2 DEF Added
<1> QED
    BY <1>3, <1>4
=============================================================================
