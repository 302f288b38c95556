---------------------------- MODULE GraphTypeProofs ----------------------------
(***************************************************************************)
(* No operator of the host, no route and no kernel reads outside of its    *)
(* operands.                                                               *)
(***************************************************************************)
EXTENDS GraphRouteProofs

-----------------------------------------------------------------------------
(* Sums. *)

(* x is the sum of the first n numbers of s. *)
SumChain(acc, s, n) == acc[0] = 0 /\ \A k \in 1..n : acc[k] = acc[k - 1] + s[k]
Summed(x, s, n) == \E acc \in [0..n -> Int] : SumChain(acc, s, n) /\ x = acc[n]

(* Total is that sum. *)
LEMMA TotalChain ==
  ASSUME NEW n \in Nat, NEW s, DOMAIN s = 1..n, \A d \in 1..n : s[d] \in Int
  PROVE  Summed(Total(s), s, n)
<1> DEFINE V == Int
           F == [p \in V \X (1..n) |-> p[1] + s[p[2]]]
           Table(it) == it = [t \in SUBSET (1..n) |-> IF t = {} THEN 0 ELSE it[t \ {Max(t)}] + s[Max(t)]]
           iter == CHOOSE it : Table(it)
<1>1. F \in [V \X (1..n) -> V]
  OBVIOUS
<1>2. \A t \in SUBSET (1..n) : t # {} => Max(t) \in 1..n
  BY MaxInSet
<1>3. \A v \in V, k \in 1..n : F[<<v, k>>] = v + s[k]
  OBVIOUS
<1>4. \E it : Table(it)
  <2>1. PICK it : IndexFold(it, 0, F, V, n)
    <3>1. 0 \in V
      OBVIOUS
    <3> HIDE DEF V, F
    <3> QED
      BY <1>1, <3>1, FoldOfIndices
  <2>2. \A t \in SUBSET (1..n) : t # {} => F[<<it[t \ {Max(t)}], Max(t)>>] = it[t \ {Max(t)}] + s[Max(t)]
    <3> HIDE DEF V, F
    <3> QED
      BY <2>1, <1>2, <1>3 DEF IndexFold
  <2>3. Table(it)
    <3> HIDE DEF V, F
    <3> QED
      BY <2>1, <2>2 DEF IndexFold
  <2> HIDE DEF Table
  <2> QED
    BY <2>3
<1>5. Table(iter)
  <2> HIDE DEF Table
  <2> QED
    BY <1>4
<1>6. Total(s) = iter[1..n]
  BY DEF Total, FoldLeft, MapThenFoldSet
<1> HIDE DEF iter
<1>7. FoldsBackwards(iter, 0, F, V, n)
  <2> HIDE DEF V, F
  <2> QED
    BY <1>2, <1>3, <1>5 DEF FoldsBackwards
<1>8. PICK acc \in [0..n -> V] : IsChain(acc, 0, F, n) /\ iter[1..n] = acc[n]
  <2>1. 0 \in V
    OBVIOUS
  <2> HIDE DEF V, F
  <2>2. Unfolds(iter[1..n], 0, F, V, n)
    BY <1>1, <1>7, <2>1, FoldChain
  <2> QED
    BY <2>2 DEF Unfolds
<1>9. SumChain(acc, s, n)
  <2>1. \A k \in 1..n : k - 1 \in 0..n /\ acc[k - 1] \in V
    BY <1>8
  <2> HIDE DEF V, F
  <2> QED
    BY <1>3, <1>8, <2>1 DEF IsChain, SumChain
<1> QED
  BY <1>6, <1>8, <1>9 DEF Summed

(* A vector of numbers. *)
LEMMA TotalInt ==
  ASSUME NEW n \in Nat, NEW s, DOMAIN s = 1..n, \A d \in 1..n : s[d] \in Int
  PROVE  Total(s) \in Int
BY TotalChain DEF Summed

-----------------------------------------------------------------------------
(* Mixed radix: the offset of a coordinate is below the number of elements. *)

(* Products of dimensions are determined. *)
LEMMA ChainUnique ==
  ASSUME NEW n \in Nat, NEW ne, NEW acc, SizeChain(acc, ne, n), NEW bcc, SizeChain(bcc, ne, n)
  PROVE  acc[n] = bcc[n]
<1> DEFINE T == {k \in 0..n : acc[k] = bcc[k]}
<1>1. 0 \in T
  BY DEF SizeChain
<1>2. ASSUME NEW k \in 0..n - 1, k \in T PROVE k + 1 \in T
  <2>1. k + 1 \in 1..n /\ (k + 1) - 1 = k
    OBVIOUS
  <2> QED
    BY <1>2, <2>1 DEF SizeChain
<1>3. 0..n \subseteq T
  <2> HIDE DEF T
  <2> QED
    BY <1>1, <1>2, UpToInduction
<1> QED
  BY <1>3

(* The strides of a shape are the products of its first dimensions. *)
Strides(acc, ne) ==
  /\ acc \in [0..Len(ne) -> Int]
  /\ SizeChain(acc, ne, Len(ne))
  /\ Elems(ne) = acc[Len(ne)]
  /\ \A d \in 1..Len(ne) : Stride(ne, d) = acc[d - 1]

(* The C-order strides of a tensor, unfolded: each is the product of the extents before it. *)
LEMMA StrideChain ==
  ASSUME NEW ne \in Seq(Nat)
  PROVE  \E acc : Strides(acc, ne)
<1> DEFINE n == Len(ne)
<1>1. n \in Nat /\ DOMAIN ne = 1..n /\ \A d \in 1..n : ne[d] \in Nat
  OBVIOUS
<1> HIDE DEF n
<1>2. PICK acc \in [0..n -> Int] : SizeChain(acc, ne, n) /\ Elems(ne) = acc[n]
  BY <1>1, ElemsChain DEF Sized
<1>3. ASSUME NEW d \in 1..n PROVE Stride(ne, d) = acc[d - 1]
  <2> DEFINE s == SubSeq(ne, 1, d - 1)
             k == d - 1
  <2>1. k \in Nat /\ DOMAIN s = 1..k /\ \A i \in 1..k : s[i] = ne[i] /\ s[i] \in Int
    BY <1>1 DEF n
  <2>2. Stride(ne, d) = Elems(s)
    BY DEF Stride
  <2> HIDE DEF s, k
  <2>3. PICK bcc \in [0..k -> Int] : SizeChain(bcc, s, k) /\ Elems(s) = bcc[k]
    BY <2>1, ElemsChain DEF Sized
  <2>4. SizeChain(acc, s, k)
    <3>1. \A i \in 1..k : i \in 1..n
      BY <1>1 DEF k
    <3> QED
      BY <1>2, <2>1, <3>1 DEF SizeChain
  <2>5. bcc[k] = acc[k]
    BY <2>1, <2>3, <2>4, ChainUnique
  <2> QED
    BY <2>2, <2>3, <2>5 DEF k
<1> QED
  BY <1>2, <1>3 DEF Strides, n

(* Dimensions with elements are positive, and so are their strides. *)
LEMMA PositiveDims ==
  ASSUME NEW ne \in Seq(Nat), Elems(ne) > 0, NEW acc, Strides(acc, ne)
  PROVE  /\ \A d \in 1..Len(ne) : ne[d] > 0
         /\ \A d \in 0..Len(ne) : acc[d] > 0
<1> DEFINE n == Len(ne)
<1>1. n \in Nat /\ DOMAIN ne = 1..n /\ \A d \in 1..n : ne[d] \in Nat
  OBVIOUS
<1> HIDE DEF n
<1>2. /\ acc \in [0..n -> Int] /\ acc[0] = 1 /\ acc[n] > 0
      /\ \A k \in 1..n : acc[k] = acc[k - 1] * ne[k]
  BY DEF Strides, SizeChain, n
<1> DEFINE T == {k \in 0..n : acc[n - k] > 0}
<1>3. 0 \in T
  BY <1>1, <1>2
<1>4. ASSUME NEW k \in 0..n - 1, k \in T PROVE k + 1 \in T
  <2>1. n - k \in 1..n /\ (n - k) - 1 = n - (k + 1) /\ n - (k + 1) \in 0..n
    BY <1>1
  <2>2. acc[n - k] = acc[n - (k + 1)] * ne[n - k] /\ acc[n - k] > 0 /\ acc[n - (k + 1)] \in Int /\ ne[n - k] \in Nat
    BY <1>1, <1>2, <1>4, <2>1
  <2>3. \A x \in Int, y \in Nat : x * y > 0 => x > 0
    OBVIOUS
  <2>4. acc[n - (k + 1)] > 0
    BY <2>2, <2>3
  <2>5. k + 1 \in 0..n
    BY <1>1
  <2> QED
    BY <2>4, <2>5
<1>5. 0..n \subseteq T
  <2> HIDE DEF T
  <2> QED
    BY <1>1, <1>3, <1>4, UpToInduction
<1>6. \A d \in 0..n : acc[d] > 0
  <2> TAKE d \in 0..n
  <2>1. n - d \in 0..n /\ n - (n - d) = d
    BY <1>1
  <2>2. n - d \in T
    BY <1>5, <2>1
  <2> QED
    BY <2>1, <2>2
<1>7. \A d \in 1..n : ne[d] > 0
  <2> TAKE d \in 1..n
  <2>1. d - 1 \in 0..n /\ d \in 0..n /\ acc[d] = acc[d - 1] * ne[d]
    BY <1>1, <1>2
  <2>2. acc[d] > 0 /\ acc[d - 1] \in Int /\ ne[d] \in Nat
    BY <1>1, <1>2, <1>6, <2>1
  <2>3. \A x \in Int : x * 0 = 0
    OBVIOUS
  <2> QED
    BY <2>1, <2>2, <2>3
<1> QED
  BY <1>6, <1>7 DEF n

(* A coordinate of a shape. *)
Within(ne, c) == DOMAIN c = DOMAIN ne /\ \A d \in DOMAIN ne : c[d] \in 0..(ne[d] - 1)

(* The strides of an array. *)
Pitch(ne) == [d \in DOMAIN ne |-> Stride(ne, d)]

(* An index inside the extents lies at an offset inside the elements. *)
LEMMA OffsetWithin ==
  ASSUME NEW ne \in Seq(Nat), NEW c, Within(ne, c)
  PROVE  Offset(Pitch(ne), c) \in 0..(Elems(ne) - 1)
<1> DEFINE n == Len(ne)
           s == [d \in DOMAIN c |-> c[d] * Pitch(ne)[d]]
<1>1. n \in Nat /\ DOMAIN ne = 1..n /\ \A d \in 1..n : ne[d] \in Nat
  OBVIOUS
<1>2. DOMAIN c = 1..n /\ \A d \in 1..n : c[d] \in 0..(ne[d] - 1)
  BY <1>1 DEF Within
<1>3. PICK acc : Strides(acc, ne)
  BY StrideChain
<1>4. DOMAIN s = 1..n /\ \A d \in 1..n : s[d] = c[d] * acc[d - 1]
  BY <1>1, <1>2, <1>3 DEF Strides, Pitch
<1>5. Offset(Pitch(ne), c) = Total(s)
  BY DEF Offset
<1> HIDE DEF n, s
<1>6. /\ acc \in [0..n -> Int] /\ acc[0] = 1 /\ Elems(ne) = acc[n]
      /\ \A k \in 1..n : acc[k] = acc[k - 1] * ne[k]
  BY <1>3 DEF Strides, SizeChain, n
<1>7. \A d \in 1..n : s[d] \in Int
  <2> TAKE d \in 1..n
  <2>1. d - 1 \in 0..n /\ acc[d - 1] \in Int
    BY <1>1, <1>6
  <2>2. c[d] \in Int
    BY <1>1, <1>2
  <2> QED
    BY <1>4, <2>1, <2>2
<1>8. PICK tot \in [0..n -> Int] : SumChain(tot, s, n) /\ Total(s) = tot[n]
  BY <1>1, <1>4, <1>7, TotalChain DEF Summed
<1> DEFINE T == {k \in 0..n : acc[k] > 0 /\ tot[k] \in 0..(acc[k] - 1)}
<1>9. 0 \in T
  BY <1>1, <1>6, <1>8 DEF SumChain
<1>10. ASSUME NEW k \in 0..n - 1, k \in T PROVE k + 1 \in T
  <2> DEFINE a == acc[k]  e == ne[k + 1]  x == c[k + 1]  t == tot[k]
  <2>1. k + 1 \in 1..n /\ (k + 1) - 1 = k
    BY <1>1
  <2>2. acc[k + 1] = a * e /\ tot[k + 1] = t + x * a
    BY <1>4, <1>6, <1>8, <2>1 DEF SumChain
  <2>3. a \in Int /\ a > 0 /\ t \in 0..(a - 1) /\ e \in Nat /\ x \in 0..(e - 1)
    BY <1>1, <1>2, <1>6, <1>10, <2>1
  <2> HIDE DEF a, e, x, t
  <2>4. a * e > 0 /\ x * a >= 0
    BY <2>3
  <2>5. x * a + a <= a * e
    <3>1. x + 1 <= e /\ a >= 0
      BY <2>3
    <3>2. (x + 1) * a <= e * a
      <4>1. \A p, q, r \in Int : p <= q /\ r > 0 => p * r <= q * r
        OBVIOUS
      <4>2. x + 1 \in Int /\ e \in Int
        BY <2>3
      <4> QED
        BY <2>3, <3>1, <4>1, <4>2
    <3> QED
      BY <2>3, <3>2
  <2>6. t + x * a \in 0..(a * e - 1)
    <3> DEFINE q == x * a  r == a * e
    <3>1. q \in Int /\ r \in Int /\ q >= 0 /\ q + a <= r
      BY <2>3, <2>4, <2>5
    <3> HIDE DEF q, r
    <3>2. t + q \in 0..(r - 1)
      BY <2>3, <3>1
    <3> QED
      BY <3>2 DEF q, r
  <2> QED
    BY <2>2, <2>4, <2>6, <1>10, <2>1
<1>11. 0..n \subseteq T
  <2> HIDE DEF T
  <2> QED
    BY <1>1, <1>9, <1>10, UpToInduction
<1> QED
  BY <1>1, <1>5, <1>6, <1>8, <1>11

(* A shape has a number of elements. *)
LEMMA ElemsNat == ASSUME NEW ne \in Seq(Nat) PROVE Elems(ne) \in Nat
<1> DEFINE n == Len(ne)
<1>1. n \in Nat /\ DOMAIN ne = 1..n /\ \A d \in 1..n : ne[d] \in Nat
  OBVIOUS
<1>2. PICK acc : Strides(acc, ne)
  BY StrideChain
<1> HIDE DEF n
<1>3. /\ acc[0] = 1 /\ Elems(ne) = acc[n]
      /\ \A k \in 1..n : acc[k] = acc[k - 1] * ne[k]
  BY <1>2 DEF Strides, SizeChain, n
<1> DEFINE T == {k \in 0..n : acc[k] \in Nat}
<1>4. 0 \in T
  BY <1>1, <1>3
<1>5. ASSUME NEW k \in 0..n - 1, k \in T PROVE k + 1 \in T
  <2>1. k + 1 \in 1..n /\ (k + 1) - 1 = k /\ k + 1 \in 0..n
    BY <1>1
  <2>2. acc[k + 1] = acc[k] * ne[k + 1] /\ acc[k] \in Nat /\ ne[k + 1] \in Nat
    BY <1>1, <1>3, <1>5, <2>1
  <2>3. \A x, y \in Nat : x * y \in Nat
    OBVIOUS
  <2> QED
    BY <2>1, <2>2, <2>3
<1>6. 0..n \subseteq T
  <2> HIDE DEF T
  <2> QED
    BY <1>1, <1>4, <1>5, UpToInduction
<1> QED
  BY <1>1, <1>3, <1>6

(* The coordinates of the elements are coordinates of the shape. *)
LEMMA CoordWithin ==
  ASSUME NEW ne \in Seq(Nat), NEW k \in 1..Elems(ne)
  PROVE  Within(ne, Coord(ne, k - 1))
<1> DEFINE n == Len(ne)
<1>1. n \in Nat /\ DOMAIN ne = 1..n /\ \A d \in 1..n : ne[d] \in Nat
  OBVIOUS
<1>2. PICK acc : Strides(acc, ne)
  BY StrideChain
<1>3. Elems(ne) \in Int /\ Elems(ne) > 0 /\ k - 1 \in Nat
  BY <1>1, <1>2 DEF Strides
<1>4. \A d \in 1..n : ne[d] > 0 /\ acc[d - 1] > 0 /\ acc[d - 1] \in Int /\ Stride(ne, d) = acc[d - 1]
  <2>1. \A d \in 1..n : d - 1 \in 0..n
    BY <1>1
  <2>2. (\A d \in 1..n : ne[d] > 0) /\ (\A d \in 0..n : acc[d] > 0)
    BY <1>2, <1>3, PositiveDims
  <2> HIDE DEF n
  <2> QED
    BY <1>1, <1>2, <2>1, <2>2 DEF Strides, n
<1>5. \A x \in Nat, y \in Nat : y > 0 => x \div y \in Nat /\ x % y \in 0..(y - 1)
  OBVIOUS
<1>6. ASSUME NEW d \in 1..n
      PROVE  ((k - 1) \div Stride(ne, d)) % ne[d] \in 0..(ne[d] - 1)
  <2> DEFINE s == Stride(ne, d)  e == ne[d]  i == k - 1
  <2>1. s \in Nat /\ s > 0 /\ e \in Nat /\ e > 0 /\ i \in Nat
    <3>1. s = acc[d - 1] /\ acc[d - 1] \in Int /\ acc[d - 1] > 0 /\ e > 0
      BY <1>4
    <3> HIDE DEF s
    <3> QED
      BY <1>1, <1>3, <3>1
  <2> HIDE DEF s, e, i
  <2>2. i \div s \in Nat
    BY <1>5, <2>1
  <2>3. (i \div s) % e \in 0..(e - 1)
    BY <1>5, <2>1, <2>2
  <2> QED
    BY <2>3 DEF s, e, i
<1> QED
  BY <1>1, <1>6 DEF Within, Coord

-----------------------------------------------------------------------------
(* Arrays of numbers. *)

(* An array: its extents and one integer for each of its elements. *)
IntArray(a) ==
  /\ a = [ne |-> a.ne, v |-> a.v]
  /\ a.ne \in Seq(Nat) /\ a.v \in [1..Elems(a.ne) -> Int]

(* An element at a coordinate of the array. *)
LEMMA AtTyped ==
  ASSUME NEW a, IntArray(a), NEW c, Within(a.ne, c)
  PROVE  At(a, c) \in Int
<1> DEFINE o == Offset(Pitch(a.ne), c)
<1>1. o \in 0..(Elems(a.ne) - 1)
  BY OffsetWithin DEF IntArray
<1>2. Elems(a.ne) \in Int
  BY StrideChain DEF Strides, IntArray
<1>3. At(a, c) = a.v[1 + o]
  BY DEF At, Pitch
<1> HIDE DEF o
<1>4. 1 + o \in 1..Elems(a.ne)
  BY <1>1, <1>2
<1> QED
  BY <1>3, <1>4 DEF IntArray

(* An array of numbers, element by element. *)
LEMMA ArrayTyped ==
  ASSUME NEW ne \in Seq(Nat), NEW v, v = [n \in 1..Elems(ne) |-> v[n]],
         \A n \in 1..Elems(ne) : v[n] \in Int
  PROVE  IntArray([ne |-> ne, v |-> v])
BY DEF IntArray

-----------------------------------------------------------------------------
(* Numbers. *)

(* The larger and the smaller of two integers are integers. *)
LEMMA LargerInt ==
  ASSUME NEW x \in Int, NEW y \in Int
  PROVE  Max({x, y}) \in Int /\ Min({x, y}) \in Int
<1>1. \E z \in {x, y} : \A w \in {x, y} : z >= w
  OBVIOUS
<1>2. \E z \in {x, y} : \A w \in {x, y} : z <= w
  OBVIOUS
<1>3. Max({x, y}) \in {x, y}
  BY <1>1 DEF Max
<1>4. Min({x, y}) \in {x, y}
  BY <1>2 DEF Min
<1> QED
  BY <1>3, <1>4

(* np.clip leaves an integer. *)
LEMMA ClampInt ==
  ASSUME NEW x \in Int, NEW lo \in Int, NEW hi \in Int
  PROVE  Clamp(x, lo, hi) \in Int
BY LargerInt DEF Clamp

(* An elementwise function of one integer is an integer, whichever the operator. *)
LEMMA FnInt == ASSUME NEW op, NEW x \in Int PROVE Fn(op, x) \in Int
<1>1. -x \in Int /\ x * x \in Int /\ 40 + x \in Int /\ 60 - x \in Int /\ 70 + x \in Int /\ 80 + x \in Int
  OBVIOUS
<1>2. 0 \in Int /\ 1 \in Int /\ -1 \in Int
  OBVIOUS
<1> QED
  BY <1>1, <1>2, Zenon DEF Fn

(* An elementwise function of two integers is an integer, whichever the operator. *)
LEMMA Fn2Int == ASSUME NEW op, NEW x \in Int, NEW y \in Int PROVE Fn2(op, x, y) \in Int
<1>1. x + y \in Int /\ x - y \in Int /\ x * y \in Int /\ 3 * x - y \in Int
  OBVIOUS
<1> QED
  BY <1>1, Zenon DEF Fn2

(* The largest number of a row that is not empty is one of them. *)
LEMMA GreatestIn ==
  ASSUME NEW n \in Nat \ {0}, NEW s \in [1..n -> Int]
  PROVE  Greatest(s) \in Int /\ \E i \in 1..n : s[i] = Greatest(s)
<1> DEFINE T == {k \in Nat : k = 0 \/ k > n \/ \E i \in 1..k : \A j \in 1..k : s[i] >= s[j]}
           R == {s[i] : i \in DOMAIN s}
<1>1. 0 \in T
  OBVIOUS
<1>2. ASSUME NEW k \in 0..n - 1, k \in T PROVE k + 1 \in T
  <2>1. CASE k = 0
    <3>1. 1 \in 1..1 /\ \A j \in 1..1 : s[1] >= s[j]
      OBVIOUS
    <3> QED
      BY <2>1, <3>1
  <2>2. CASE k # 0
    <3>1. PICK i \in 1..k : \A j \in 1..k : s[i] >= s[j]
      BY <1>2, <2>2
    <3>2. s[i] \in Int /\ s[k + 1] \in Int /\ \A j \in 1..k : s[j] \in Int
      OBVIOUS
    <3>3. CASE s[k + 1] >= s[i]
      <4>1. \A j \in 1..(k + 1) : s[k + 1] >= s[j]
        BY <3>1, <3>2, <3>3
      <4> QED
        BY <4>1
    <3>4. CASE s[i] >= s[k + 1]
      <4>1. \A j \in 1..(k + 1) : s[i] >= s[j]
        BY <3>1, <3>2, <3>4
      <4> QED
        BY <4>1
    <3> QED
      BY <3>2, <3>3, <3>4
  <2> QED
    BY <2>1, <2>2
<1>3. 0..n \subseteq T
  <2> HIDE DEF T
  <2> QED
    BY <1>1, <1>2, UpToInduction
<1>4. PICK i \in 1..n : \A j \in 1..n : s[i] >= s[j]
  <2>1. n \in T
    <3> HIDE DEF T
    <3> QED
      BY <1>3
  <2> QED
    BY <2>1
<1>5. \E x \in R : \A y \in R : x >= y
  BY <1>4
<1>6. Max(R) \in R
  <2> HIDE DEF R
  <2> QED
    BY <1>5 DEF Max
<1> QED
  BY <1>6 DEF Greatest

(* argmax of a row that is not empty is an integer. *)
LEMMA FirstIndexInt ==
  ASSUME NEW n \in Nat \ {0}, NEW s \in [1..n -> Int]
  PROVE  FirstIndex(s, Greatest(s)) \in Int
<1> DEFINE I == {i \in DOMAIN s : s[i] = Greatest(s)}
<1>1. I \in SUBSET (1..n) /\ I # {}
  BY GreatestIn
<1>2. Min(I) \in 1..n
  <2> HIDE DEF I
  <2> QED
    BY <1>1, MinInSet
<1> QED
  BY <1>2 DEF FirstIndex

(* The product of two rows of integers is an integer. *)
LEMMA DotInt ==
  ASSUME NEW n \in Nat, NEW s, DOMAIN s = 1..n, NEW t, \A i \in 1..n : s[i] \in Int /\ t[i] \in Int
  PROVE  Dot(s, t) \in Int
<1> DEFINE p == [i \in DOMAIN s |-> s[i] * t[i]]
<1>1. DOMAIN p = 1..n /\ \A i \in 1..n : p[i] \in Int
  OBVIOUS
<1>2. Total(p) \in Int
  <2> HIDE DEF p
  <2> QED
    BY <1>1, TotalInt
<1> QED
  BY <1>2 DEF Dot

(* A normalised element of a row is an integer. *)
LEMMA NormalInt ==
  ASSUME NEW n \in Nat, NEW s, DOMAIN s = 1..n, \A i \in 1..n : s[i] \in Int,
         NEW i \in 1..n, NEW eps \in Int
  PROVE  Normal(s, i, eps) \in Int
<1>1. Total(s) \in Int /\ s[i] \in Int
  BY TotalInt
<1> QED
  BY <1>1 DEF Normal

(* The mean of a row of integers is an integer. *)
LEMMA MeanInt ==
  ASSUME NEW n \in Nat, NEW s \in [1..n -> Int]
  PROVE  Mean(s) \in Int
<1>1. Total(s) \in Int
  BY TotalInt
<1>2. Len(s) = n
  BY IntoSeq, VectorIsSeq
<1> QED
  BY <1>1, <1>2 DEF Mean, Inv

-----------------------------------------------------------------------------
(* Arrays of numbers. *)

(* Two arrays of as many dimensions may be rows of each other. *)
LEMMA RowTyped ==
  ASSUME NEW a, IntArray(a), Len(a.ne) > 0, NEW c, DOMAIN c = DOMAIN a.ne,
         \A d \in DOMAIN a.ne : d # 1 => c[d] \in 0..(a.ne[d] - 1)
  PROVE  Row(a, c) \in [1..a.ne[1] -> Int]
<1>1. ASSUME NEW i \in 1..a.ne[1] PROVE At(a, [c EXCEPT ![1] = i - 1]) \in Int
  <2> DEFINE e == [c EXCEPT ![1] = i - 1]
  <2>1. a.ne \in Seq(Nat) /\ 1 \in DOMAIN a.ne /\ a.ne[1] \in Nat /\ i - 1 \in 0..(a.ne[1] - 1)
    BY DEF IntArray
  <2>2. DOMAIN e = DOMAIN a.ne /\ e[1] = i - 1 /\ \A d \in DOMAIN a.ne : d # 1 => e[d] = c[d]
    BY <2>1
  <2> HIDE DEF e
  <2>3. Within(a.ne, e)
    BY <2>1, <2>2 DEF Within
  <2>4. At(a, e) \in Int
    BY <2>3, AtTyped
  <2> QED
    BY <2>4 DEF e
<1> QED
  BY <1>1 DEF Row

(* An operator that replaces each element by an integer leaves an array of the same extents. *)
LEMMA EachTyped ==
  ASSUME NEW a, IntArray(a), NEW w, w = [n \in DOMAIN a.v |-> w[n]], \A n \in DOMAIN a.v : w[n] \in Int
  PROVE  IntArray([a EXCEPT !.v = w]) /\ [a EXCEPT !.v = w].ne = a.ne
<1> DEFINE b == [a EXCEPT !.v = w]
<1>1. a = [ne |-> a.ne, v |-> a.v] /\ DOMAIN a.v = 1..Elems(a.ne) /\ a.ne \in Seq(Nat)
  BY DEF IntArray
<1>2. b = [ne |-> a.ne, v |-> w]
  <2> DEFINE x == a.ne  y == a.v
  <2>1. a = [ne |-> x, v |-> y]
    BY <1>1
  <2> HIDE DEF x, y
  <2>2. b = [ne |-> x, v |-> w]
    BY <2>1
  <2> QED
    BY <2>2 DEF x
<1>3. w \in [1..Elems(a.ne) -> Int]
  BY <1>1
<1> HIDE DEF b
<1>4. IntArray(b) /\ b.ne = a.ne
  BY <1>1, <1>2, <1>3 DEF IntArray
<1> QED
  BY <1>4 DEF b

(* The same elements in another shape of as many. *)
LEMMA ReshapedTyped ==
  ASSUME NEW a, IntArray(a), NEW ne \in Seq(Nat), Elems(ne) = Elems(a.ne)
  PROVE  IntArray(Reshaped(a, ne)) /\ Reshaped(a, ne).ne = ne
<1> DEFINE b == Reshaped(a, ne)
<1>1. b = [ne |-> ne, v |-> a.v] /\ a.v \in [1..Elems(ne) -> Int]
  BY DEF IntArray, Reshaped
<1> HIDE DEF b
<1>2. IntArray(b) /\ b.ne = ne
  BY <1>1 DEF IntArray
<1> QED
  BY <1>2 DEF b

-----------------------------------------------------------------------------
(* The outcome of an operator: if it leaves an array, it is one of numbers. *)

Typed(r) == r.is = "ok" => IntArray(r.x)

(* An operator that returns an array of integers has a typed outcome. *)
LEMMA TypedOk == ASSUME NEW x, IntArray(x) PROVE Typed(Ok(x))
BY DEF Typed, Ok

(* An operator that leaves no array has a typed outcome. *)
LEMMA TypedRefused == Typed(Raises) /\ Typed(NotImplemented) /\ Typed(Nothing)
BY DEF Typed, Raises, NotImplemented, Nothing

(* A refusal before a typed outcome leaves it typed. *)
LEMMA TypedUnless == ASSUME NEW c, NEW r, ~c => Typed(r) PROVE Typed(Unless(c, r))
BY DEF Typed, Unless, Raises

(* The sources of a node, as NumPy sees them. *)
Source(a) == IntArray(a) /\ Len(a.ne) \in 1..4
(* Every source of a node is an array of one to four dimensions. *)
SourceArrays(s) == \A i \in 1..Len(s) : Source(s[i])

(* The extents of a source, as the operators index them. *)
LEMMA SourceDims ==
  ASSUME NEW a, Source(a)
  PROVE  /\ a.ne \in Seq(Nat) /\ Len(a.ne) \in 1..4 /\ Len(a.ne) \in Nat
         /\ DOMAIN a.ne = 1..Len(a.ne) /\ 1 \in DOMAIN a.ne
         /\ \A d \in DOMAIN a.ne : a.ne[d] \in Nat
         /\ a.ne[1] \in Nat
<1> DEFINE ne == a.ne
<1>1. ne \in Seq(Nat) /\ Len(ne) \in 1..4
  BY DEF Source, IntArray
<1> HIDE DEF ne
<1>2. Len(ne) \in Nat /\ DOMAIN ne = 1..Len(ne) /\ 1 \in DOMAIN ne /\ \A d \in DOMAIN ne : ne[d] \in Nat
  BY <1>1
<1> QED
  BY <1>1, <1>2 DEF ne

(* Broadcasting: a coordinate of the result is one of each operand, where a dimension of one
   is not moved along. *)
LEMMA BroadenedShape ==
  ASSUME NEW x \in Seq(Nat), NEW y \in Seq(Nat)
  PROVE  /\ Broadened(x, y) \in Seq(Nat)
         /\ DOMAIN Broadened(x, y) = DOMAIN x \cup DOMAIN y
         /\ Len(Broadened(x, y)) = (IF Len(x) >= Len(y) THEN Len(x) ELSE Len(y))
         /\ \A d \in DOMAIN x \cup DOMAIN y :
              Broadened(x, y)[d] = IF Dim(x, d) = 1 THEN Dim(y, d) ELSE Dim(x, d)
<1> DEFINE b == Broadened(x, y)
           k == IF Len(x) >= Len(y) THEN Len(x) ELSE Len(y)
<1>1. k \in Nat /\ DOMAIN x \cup DOMAIN y = 1..k
  OBVIOUS
<1>2. \A d \in DOMAIN x \cup DOMAIN y : Dim(x, d) \in Nat /\ Dim(y, d) \in Nat
  BY DEF Dim
<1>3. /\ DOMAIN b = DOMAIN x \cup DOMAIN y
      /\ \A d \in DOMAIN x \cup DOMAIN y : b[d] = IF Dim(x, d) = 1 THEN Dim(y, d) ELSE Dim(x, d)
      /\ b = [d \in DOMAIN x \cup DOMAIN y |-> b[d]]
  BY DEF Broadened
<1> HIDE DEF b, k
<1>4. b \in [1..k -> Nat]
  BY <1>1, <1>2, <1>3
<1>5. b \in Seq(Nat) /\ Len(b) = k
  BY <1>1, <1>4, IntoSeq, VectorIsSeq
<1> QED
  BY <1>3, <1>5 DEF b, k

(* An index into a broadcast result, clipped to an operand, lies inside that operand. *)
LEMMA ClippedWithin ==
  ASSUME NEW x \in Seq(Nat), NEW y \in Seq(Nat), NEW c, Within(Broadened(x, y), c)
  PROVE  /\ Within(x, Clipped(x, c))
         /\ Broadcastable(x, y) => Within(y, Clipped(y, c))
<1>1. \A d \in DOMAIN x \cup DOMAIN y :
        c[d] \in 0..((IF Dim(x, d) = 1 THEN Dim(y, d) ELSE Dim(x, d)) - 1)
  BY BroadenedShape DEF Within
<1>2. Within(x, Clipped(x, c))
  <2>1. DOMAIN Clipped(x, c) = DOMAIN x
    BY DEF Clipped
  <2>2. ASSUME NEW d \in DOMAIN x PROVE Clipped(x, c)[d] \in 0..(x[d] - 1)
    <3>1. CASE x[d] = 1
      BY <3>1 DEF Clipped
    <3>2. CASE x[d] # 1
      BY <1>1, <3>2 DEF Clipped, Dim
    <3> QED
      BY <3>1, <3>2
  <2> QED
    BY <2>1, <2>2 DEF Within
<1>3. ASSUME Broadcastable(x, y) PROVE Within(y, Clipped(y, c))
  <2>1. DOMAIN Clipped(y, c) = DOMAIN y
    BY DEF Clipped
  <2>2. ASSUME NEW d \in DOMAIN y PROVE Clipped(y, c)[d] \in 0..(y[d] - 1)
    <3>1. CASE y[d] = 1
      BY <3>1 DEF Clipped
    <3>2. CASE y[d] # 1
      <4>1. Dim(x, d) = 1 \/ Dim(x, d) = y[d]
        BY <1>3, <3>2 DEF Broadcastable, Dim
      <4>2. (IF Dim(x, d) = 1 THEN Dim(y, d) ELSE Dim(x, d)) = y[d]
        BY <4>1 DEF Dim
      <4>3. Clipped(y, c)[d] = c[d]
        BY <3>2 DEF Clipped
      <4> QED
        BY <1>1, <4>2, <4>3
    <3> QED
      BY <3>1, <3>2
  <2> QED
    BY <2>1, <2>2 DEF Within
<1> QED
  BY <1>2, <1>3

(* Two operands at an element of their broadcast. *)
LEMMA BroadcastReads ==
  ASSUME NEW a, IntArray(a), NEW b, IntArray(b), Broadcastable(a.ne, b.ne),
         NEW k \in 1..Elems(Broadened(a.ne, b.ne))
  PROVE  LET c == Coord(Broadened(a.ne, b.ne), k - 1)
         IN At(a, Clipped(a.ne, c)) \in Int /\ At(b, Clipped(b.ne, c)) \in Int
<1> DEFINE c == Coord(Broadened(a.ne, b.ne), k - 1)
<1>1. a.ne \in Seq(Nat) /\ b.ne \in Seq(Nat)
  BY DEF IntArray
<1>2. Within(Broadened(a.ne, b.ne), c)
  BY <1>1, BroadenedShape, CoordWithin
<1> HIDE DEF c
<1>3. Within(a.ne, Clipped(a.ne, c)) /\ Within(b.ne, Clipped(b.ne, c))
  BY <1>1, <1>2, ClippedWithin
<1> QED
  BY <1>3, AtTyped DEF c

(* _glu_split. *)
LEMMA GluTyped ==
  ASSUME NEW a, Source(a)
  PROVE  IntArray(Glu(a))
<1> DEFINE ne == a.ne
           w == a.ne[1]
           half == w \div 2
           cols == IF half = 1 THEN w - 1 ELSE half
           out == [a.ne EXCEPT ![1] = cols]
<1>1. ne \in Seq(Nat) /\ Len(ne) \in Nat /\ DOMAIN ne = 1..Len(ne) /\ 1 \in DOMAIN ne /\ w \in Nat
  BY SourceDims
<1>2. half \in Nat /\ 2 * half <= w /\ w <= 2 * half + 1
  BY <1>1
<1>3. cols \in Nat /\ cols + half <= w /\ (half = 1 => cols < w)
  <2> HIDE DEF half, w
  <2> QED
    BY <1>1, <1>2
<1> HIDE DEF w, half, cols
<1>4. out \in Seq(Nat) /\ DOMAIN out = DOMAIN ne /\ out[1] = cols
      /\ \A d \in DOMAIN ne : d # 1 => out[d] = ne[d]
  BY <1>1, <1>3
<1> HIDE DEF out
<1>5. ASSUME NEW k \in 1..Elems(out)
      PROVE  LET c == Coord(out, k - 1)
             IN /\ At(a, [c EXCEPT ![1] = IF half = 1 THEN 0 ELSE @]) \in Int
                /\ At(a, [c EXCEPT ![1] = @ + half]) \in Int
  <2> DEFINE c == Coord(out, k - 1)
             c1 == [c EXCEPT ![1] = IF half = 1 THEN 0 ELSE @]
             c2 == [c EXCEPT ![1] = @ + half]
  <2>1. Within(out, c)
    BY <1>4, CoordWithin
  <2> HIDE DEF c
  <2>2. DOMAIN c = DOMAIN ne /\ c[1] \in 0..(cols - 1) /\ \A d \in DOMAIN ne : d # 1 => c[d] \in 0..(ne[d] - 1)
    BY <1>1, <1>4, <2>1 DEF Within
  <2>3. /\ DOMAIN c1 = DOMAIN ne /\ c1[1] = (IF half = 1 THEN 0 ELSE c[1])
        /\ DOMAIN c2 = DOMAIN ne /\ c2[1] = c[1] + half
        /\ \A d \in DOMAIN ne : d # 1 => c1[d] = c[d] /\ c2[d] = c[d]
    BY <1>1, <2>2
  <2> HIDE DEF c1, c2
  <2>4. c1[1] \in 0..(w - 1) /\ c2[1] \in 0..(w - 1)
    BY <1>1, <1>2, <1>3, <2>2, <2>3
  <2>5. Within(ne, c1)
    BY <1>1, <2>2, <2>3, <2>4 DEF Within, w
  <2>6. Within(ne, c2)
    BY <1>1, <2>2, <2>3, <2>4 DEF Within, w
  <2>7. At(a, c1) \in Int /\ At(a, c2) \in Int
    BY <2>5, <2>6, AtTyped DEF Source
  <2> QED
    BY <2>7 DEF c, c1, c2
<1> DEFINE v == [k \in 1..Elems(out) |->
                  At(a, [Coord(out, k - 1) EXCEPT ![1] = IF half = 1 THEN 0 ELSE @])
                  * Fn("RELU", At(a, [Coord(out, k - 1) EXCEPT ![1] = @ + half]))]
<1>6. Glu(a) = [ne |-> out, v |-> v]
  BY Zenon DEF Glu, Array, out, cols, half, w
<1>7. \A k \in 1..Elems(out) : v[k] \in Int
  BY <1>5, FnInt
<1>8. v = [k \in 1..Elems(out) |-> v[k]]
  OBVIOUS
<1> HIDE DEF v
<1> QED
  BY <1>4, <1>6, <1>7, <1>8, ArrayTyped

-----------------------------------------------------------------------------
(* Elementwise. *)

(* A function of each element. *)
LEMMA EachTypes ==
  ASSUME NEW a, Source(a), NEW n \in NodeType
  PROVE  /\ IntArray(Each(a, LAMBDA x : Fn(n.sub, x))) /\ IntArray(Each(a, LAMBDA x : Fn(n.op, x)))
         /\ IntArray(Each(a, LAMBDA x : IF x >= 0 THEN x ELSE x * n.p[1]))
         /\ IntArray(Each(a, LAMBDA x : x * n.p[1] + n.p[2]))
         /\ IntArray(Each(a, LAMBDA x : Clamp(x, n.p[1], n.p[2])))
<1> DEFINE v == a.v  p == n.p[1]  q == n.p[2]
<1>1. IntArray(a) /\ v \in [1..Elems(a.ne) -> Int] /\ p \in Int /\ q \in Int
  BY Params DEF Source, IntArray
<1> HIDE DEF v, p, q
<1>2. \A x \in Int : /\ Fn(n.sub, x) \in Int /\ Fn(n.op, x) \in Int /\ Clamp(x, p, q) \in Int
                     /\ (IF x >= 0 THEN x ELSE x * p) \in Int /\ x * p + q \in Int
  <2>1. \A x \in Int : Fn(n.sub, x) \in Int /\ Fn(n.op, x) \in Int
    BY FnInt
  <2>2. \A x \in Int : Clamp(x, p, q) \in Int
    BY <1>1, ClampInt
  <2>3. \A x \in Int : (IF x >= 0 THEN x ELSE x * p) \in Int /\ x * p + q \in Int
    BY <1>1
  <2> QED
    BY <2>1, <2>2, <2>3, Zenon
<1> DEFINE w1 == [i \in DOMAIN a.v |-> Fn(n.sub, a.v[i])]
           w2 == [i \in DOMAIN a.v |-> Fn(n.op, a.v[i])]
           w3 == [i \in DOMAIN a.v |-> IF a.v[i] >= 0 THEN a.v[i] ELSE a.v[i] * n.p[1]]
           w4 == [i \in DOMAIN a.v |-> a.v[i] * n.p[1] + n.p[2]]
           w5 == [i \in DOMAIN a.v |-> Clamp(a.v[i], n.p[1], n.p[2])]
<1>3. \A i \in DOMAIN a.v : w1[i] \in Int /\ w2[i] \in Int /\ w3[i] \in Int /\ w4[i] \in Int /\ w5[i] \in Int
  BY <1>1, <1>2 DEF v, p, q
<1>4. IntArray([a EXCEPT !.v = w1]) /\ IntArray([a EXCEPT !.v = w2]) /\ IntArray([a EXCEPT !.v = w3])
  <2> HIDE DEF v, p, q
  <2> QED
    BY <1>1, <1>3, EachTyped
<1>5. IntArray([a EXCEPT !.v = w4]) /\ IntArray([a EXCEPT !.v = w5])
  <2> HIDE DEF v, p, q
  <2> QED
    BY <1>1, <1>3, EachTyped
<1>6. /\ Each(a, LAMBDA x : Fn(n.sub, x)) = [a EXCEPT !.v = w1]
      /\ Each(a, LAMBDA x : Fn(n.op, x)) = [a EXCEPT !.v = w2]
      /\ Each(a, LAMBDA x : IF x >= 0 THEN x ELSE x * n.p[1]) = [a EXCEPT !.v = w3]
      /\ Each(a, LAMBDA x : x * n.p[1] + n.p[2]) = [a EXCEPT !.v = w4]
      /\ Each(a, LAMBDA x : Clamp(x, n.p[1], n.p[2])) = [a EXCEPT !.v = w5]
  BY Zenon DEF Each
<1> HIDE DEF w1, w2, w3, w4, w5
<1> QED
  BY <1>4, <1>5, <1>6

(* ADD1: a second operand of one element. *)
LEMMA AddOneTyped ==
  ASSUME NEW a, Source(a), NEW b, Source(b), Len(b.v) = 1
  PROVE  IntArray(Each(a, LAMBDA x : x + b.v[1]))
<1>1. b.v[1] \in Int
  <2> DEFINE v == b.v  k == Elems(b.ne)
  <2>1. v \in [1..k -> Int]
    BY DEF Source, IntArray
  <2>2. k \in Int
    BY ElemsNat, SourceDims
  <2> HIDE DEF v, k
  <2>3. CASE k >= 1
    BY <2>1, <2>2, <2>3 DEF v
  <2>4. CASE k < 1
    <3>1. v = [i \in 1..0 |-> v[i]]
      BY <2>1, <2>2, <2>4
    <3>2. Len(v) = 0
      BY <3>1, VectorIsSeq
    <3> QED
      BY <3>2 DEF v
  <2> QED
    BY <2>2, <2>3, <2>4
<1> DEFINE w == [i \in DOMAIN a.v |-> a.v[i] + b.v[1]]
<1>2. \A i \in DOMAIN a.v : w[i] \in Int
  <2> DEFINE v == a.v  y == b.v[1]
  <2>1. v \in [1..Elems(a.ne) -> Int]
    BY DEF Source, IntArray
  <2>2. \A i \in DOMAIN v : w[i] = v[i] + y
    OBVIOUS
  <2> HIDE DEF v, y, w
  <2>3. \A i \in DOMAIN v : w[i] \in Int
    BY <1>1, <2>1, <2>2 DEF y
  <2> QED
    BY <2>3 DEF v
<1>3. IntArray([a EXCEPT !.v = w])
  BY <1>2, EachTyped DEF Source
<1> QED
  BY <1>3 DEF Each

(* Two operands, broadcast together. *)
LEMMA BinaryTyped ==
  ASSUME NEW a, Source(a), NEW b, Source(b), Broadcastable(a.ne, b.ne), NEW op
  PROVE  IntArray(Broadcast(a, b, LAMBDA x, y : Fn2(op, x, y)))
<1> DEFINE ne == Broadened(a.ne, b.ne)
           v == [k \in 1..Elems(ne) |-> Fn2(op, At(a, Clipped(a.ne, Coord(ne, k - 1))),
                                                At(b, Clipped(b.ne, Coord(ne, k - 1))))]
<1>1. ne \in Seq(Nat)
  BY BroadenedShape, SourceDims
<1>2. \A k \in 1..Elems(ne) : v[k] \in Int
  BY BroadcastReads, Fn2Int DEF Source
<1>3. v = [k \in 1..Elems(ne) |-> v[k]]
  OBVIOUS
<1>4. Broadcast(a, b, LAMBDA x, y : Fn2(op, x, y)) = [ne |-> ne, v |-> v]
  BY Zenon DEF Broadcast, Array
<1> HIDE DEF ne, v
<1> QED
  BY <1>1, <1>2, <1>3, <1>4, ArrayTyped

(* The elementwise operators of the host leave integers, or refuse. *)
LEMMA ElementTyped ==
  ASSUME NEW n \in NodeType, NEW s, SourceArrays(s), Len(s) \in Nat, Len(s) >= 1, n.op \in Elementwise,
         n.op \in {"ADD1"} \cup BinaryOps => Len(s) >= 2
  PROVE  Typed(ElementResult(n, s))
<1> DEFINE a == s[1]  b == s[2]  p == n.p
<1>1. Source(a) /\ (n.op \in {"ADD1"} \cup BinaryOps => Source(b))
  BY DEF SourceArrays
<1> HIDE DEF a, b
<1>2. /\ Typed(Ok(Each(a, LAMBDA x : Fn(n.sub, x)))) /\ Typed(Ok(Each(a, LAMBDA x : Fn(n.op, x))))
      /\ Typed(Ok(Each(a, LAMBDA x : IF x >= 0 THEN x ELSE x * p[1])))
      /\ Typed(Ok(Each(a, LAMBDA x : x * p[1] + p[2])))
      /\ Typed(Ok(Each(a, LAMBDA x : Clamp(x, p[1], p[2]))))
  <2>1. \A x : IntArray(x) => Typed(Ok(x))
    BY TypedOk
  <2> QED
    BY <1>1, <2>1, EachTypes, Zenon
<1>3. Typed(Unless(a.ne[1] % 2 # 0 /\ a.ne[1] > 3, Ok(Glu(a))))
  BY <1>1, GluTyped, TypedOk, TypedUnless
<1>4. n.op = "ADD1" => Typed(Unless(Len(b.v) # 1, Ok(Each(a, LAMBDA x : x + b.v[1]))))
  <2> SUFFICES ASSUME n.op = "ADD1", Len(b.v) = 1
               PROVE  Typed(Ok(Each(a, LAMBDA x : x + b.v[1])))
    BY TypedUnless
  <2>1. Source(a) /\ Source(b)
    BY <1>1
  <2>2. IntArray(Each(a, LAMBDA x : x + b.v[1]))
    BY <2>1, AddOneTyped, Zenon DEF Each
  <2> QED
    BY <2>2, TypedOk
<1>5. n.op \in BinaryOps => Typed(Unless(~Broadcastable(a.ne, b.ne), Ok(Broadcast(a, b, LAMBDA x, y : Fn2(n.op, x, y)))))
  <2> SUFFICES ASSUME n.op \in BinaryOps, Broadcastable(a.ne, b.ne)
               PROVE  Typed(Ok(Broadcast(a, b, LAMBDA x, y : Fn2(n.op, x, y))))
    BY TypedUnless
  <2>1. Source(a) /\ Source(b)
    BY <1>1
  <2>2. IntArray(Broadcast(a, b, LAMBDA x, y : Fn2(n.op, x, y)))
    BY <2>1, BinaryTyped, Zenon DEF Broadcast, Array
  <2> QED
    BY <2>2, TypedOk
<1>6. n.op \in {"UNARY", "GLU", "LEAKY_RELU", "SCALE", "CLAMP", "ADD1"} \cup ElementOps \cup BinaryOps
  BY DEF Elementwise
<1> QED
  BY <1>2, <1>3, <1>4, <1>5, <1>6, TypedRefused, Zenon DEF ElementResult, a, b

-----------------------------------------------------------------------------
(* Over rows. *)

(* The row of an element of any shape that differs only in the first dimension. *)
LEMMA RowReads ==
  ASSUME NEW a, Source(a), NEW ne \in Seq(Nat), DOMAIN ne = DOMAIN a.ne,
         \A d \in DOMAIN a.ne : d # 1 => ne[d] = a.ne[d], NEW k \in 1..Elems(ne)
  PROVE  Row(a, Coord(ne, k - 1)) \in [1..a.ne[1] -> Int]
<1> DEFINE c == Coord(ne, k - 1)
<1>1. Within(ne, c)
  BY CoordWithin
<1> HIDE DEF c
<1>2. DOMAIN c = DOMAIN a.ne /\ \A d \in DOMAIN a.ne : d # 1 => c[d] \in 0..(a.ne[d] - 1)
  BY <1>1 DEF Within
<1>3. IntArray(a) /\ Len(a.ne) > 0
  BY SourceDims DEF Source
<1>4. Row(a, c) \in [1..a.ne[1] -> Int]
  BY <1>2, <1>3, RowTyped
<1> QED
  BY <1>4 DEF c

(* An element and the row it is in. *)
LEMMA OwnRow ==
  ASSUME NEW a, Source(a), NEW k \in 1..Elems(a.ne)
  PROVE  LET c == Coord(a.ne, k - 1)
         IN /\ At(a, c) \in Int /\ Row(a, c) \in [1..a.ne[1] -> Int]
            /\ c[1] \in 0..(a.ne[1] - 1) /\ a.ne[1] \in Nat \ {0}
<1> DEFINE c == Coord(a.ne, k - 1)
<1>1. Within(a.ne, c)
  BY CoordWithin, SourceDims
<1>2. Row(a, c) \in [1..a.ne[1] -> Int]
  BY RowReads, SourceDims
<1> HIDE DEF c
<1>3. At(a, c) \in Int
  BY <1>1, AtTyped DEF Source
<1>4. c[1] \in 0..(a.ne[1] - 1) /\ a.ne[1] \in Nat
  BY <1>1, SourceDims DEF Within
<1>5. a.ne[1] \in Nat \ {0}
  <2> DEFINE w == a.ne[1]  x == c[1]
  <2>1. x \in 0..(w - 1) /\ w \in Nat
    BY <1>4
  <2> HIDE DEF w, x
  <2>2. w \in Nat \ {0}
    BY <2>1
  <2> QED
    BY <2>2 DEF w
<1> QED
  BY <1>2, <1>3, <1>4, <1>5 DEF c

(* A scalar result is an array of one element. *)
LEMMA OneDim == <<1>> \in Seq(Nat) /\ \A x \in Int : IntArray([ne |-> <<1>>, v |-> [k \in 1..Elems(<<1>>) |-> x]])
<1>1. <<1>> \in Seq(Nat)
  OBVIOUS
<1> QED
  BY <1>1, ArrayTyped

(* The sum of an array. *)
LEMMA SumTyped ==
  ASSUME NEW a, IntArray(a)
  PROVE  Total(a.v) \in Int
<1> DEFINE v == a.v  k == Elems(a.ne)
<1>1. v \in [1..k -> Int] /\ k \in Nat
  BY ElemsNat DEF IntArray
<1> HIDE DEF v, k
<1>2. DOMAIN v = 1..k /\ \A i \in 1..k : v[i] \in Int
  BY <1>1
<1>3. Total(v) \in Int
  BY <1>1, <1>2, TotalInt
<1> QED
  BY <1>3 DEF v

(* One number for each row. *)
LEMMA RowsTyped ==
  ASSUME NEW a, Source(a)
  PROVE  /\ IntArray(EachRow(a, Total)) /\ IntArray(EachRow(a, Mean))
         /\ a.ne[1] # 0 => IntArray(EachRow(a, LAMBDA r : FirstIndex(r, Greatest(r))))
<1> DEFINE ne == [a.ne EXCEPT ![1] = 1]
           w == a.ne[1]
           v1 == [k \in 1..Elems(ne) |-> Total(Row(a, Coord(ne, k - 1)))]
           v2 == [k \in 1..Elems(ne) |-> Mean(Row(a, Coord(ne, k - 1)))]
           v3 == [k \in 1..Elems(ne) |-> FirstIndex(Row(a, Coord(ne, k - 1)), Greatest(Row(a, Coord(ne, k - 1))))]
<1>1. ne \in Seq(Nat) /\ DOMAIN ne = DOMAIN a.ne /\ \A d \in DOMAIN a.ne : d # 1 => ne[d] = a.ne[d]
  <2> DEFINE s == a.ne
  <2>1. s \in Seq(Nat) /\ 1 \in DOMAIN s
    BY SourceDims
  <2> HIDE DEF s
  <2>2. LET t == [s EXCEPT ![1] = 1]
        IN t \in Seq(Nat) /\ DOMAIN t = DOMAIN s /\ \A d \in DOMAIN s : d # 1 => t[d] = s[d]
    BY <2>1
  <2> QED
    BY <2>2 DEF s
<1>2. w \in Nat
  BY SourceDims
<1> HIDE DEF ne
<1>3. \A k \in 1..Elems(ne) : Row(a, Coord(ne, k - 1)) \in [1..w -> Int]
  BY <1>1, RowReads
<1> HIDE DEF w
<1>4. \A r \in [1..w -> Int] : Total(r) \in Int /\ Mean(r) \in Int /\ (w # 0 => FirstIndex(r, Greatest(r)) \in Int)
  <2> TAKE r \in [1..w -> Int]
  <2>1. Total(r) \in Int
    BY <1>2, TotalInt
  <2>2. Mean(r) \in Int
    BY <1>2, MeanInt
  <2>3. w # 0 => FirstIndex(r, Greatest(r)) \in Int
    BY <1>2, FirstIndexInt
  <2> QED
    BY <2>1, <2>2, <2>3
<1>5. IntArray([ne |-> ne, v |-> v1])
  <2>1. (\A k \in 1..Elems(ne) : v1[k] \in Int) /\ v1 = [k \in 1..Elems(ne) |-> v1[k]]
    BY <1>3, <1>4
  <2> HIDE DEF v1
  <2> QED
    BY <1>1, <2>1, ArrayTyped
<1>6. IntArray([ne |-> ne, v |-> v2])
  <2>1. (\A k \in 1..Elems(ne) : v2[k] \in Int) /\ v2 = [k \in 1..Elems(ne) |-> v2[k]]
    BY <1>3, <1>4
  <2> HIDE DEF v2
  <2> QED
    BY <1>1, <2>1, ArrayTyped
<1>7. w # 0 => IntArray([ne |-> ne, v |-> v3])
  <2> SUFFICES ASSUME w # 0 PROVE IntArray([ne |-> ne, v |-> v3])
    OBVIOUS
  <2>1. (\A k \in 1..Elems(ne) : v3[k] \in Int) /\ v3 = [k \in 1..Elems(ne) |-> v3[k]]
    BY <1>3, <1>4
  <2> HIDE DEF v3
  <2> QED
    BY <1>1, <2>1, ArrayTyped
<1> QED
  BY <1>5, <1>6, <1>7, Zenon DEF EachRow, Array, ne, w

(* Normalisation by groups of columns. *)
LEMMA GroupTyped ==
  ASSUME NEW a, Source(a), NEW g \in Int, g > 0, a.ne[1] % g = 0, NEW eps \in Int
  PROVE  IntArray(GroupNormed(a, g, eps))
<1> DEFINE ne == a.ne
           w == a.ne[1]
           size == w \div g
           Col(k) == Coord(ne, k - 1)[1]
           From(k) == Col(k) - (Col(k) % size)
           Part(k) == SubSeq(Row(a, Coord(ne, k - 1)), From(k) + 1, From(k) + size)
           v == [k \in 1..Elems(ne) |-> Normal(Part(k), 1 + (Col(k) % size), eps)]
<1>1. ne \in Seq(Nat) /\ w \in Nat
  BY SourceDims
<1>2. w = size * g /\ size \in Nat
  <2>1. \A x \in Nat, y \in Int : y > 0 /\ x % y = 0 => x = (x \div y) * y /\ x \div y \in Nat
    OBVIOUS
  <2>2. w % g = 0
    OBVIOUS
  <2> HIDE DEF w
  <2> QED
    BY <1>1, <2>1, <2>2
<1>3. ASSUME NEW k \in 1..Elems(ne) PROVE v[k] \in Int
  <2> DEFINE r == Row(a, Coord(ne, k - 1))
             x == Col(k)
             o == From(k)
  <2>1. r \in [1..w -> Int] /\ x \in 0..(w - 1) /\ w # 0
    BY OwnRow
  <2>2. size > 0
    <3> HIDE DEF size, w
    <3> QED
      BY <1>2, <2>1
  <2>3. x % size \in 0..(size - 1) /\ o \in Nat /\ o + size <= w
    <3> DEFINE q == x \div size  y == x % size
    <3>1. o = x - y
      OBVIOUS
    <3> HIDE DEF size, w, x, o
    <3>2. q \in Int /\ y \in 0..(size - 1) /\ x = size * q + y /\ x \in Nat
      BY <1>2, <2>1, <2>2
    <3> HIDE DEF q, y
    <3>3. q >= 0 /\ q < g
      <4>1. q >= 0
        <5>1. size * q > -size
          BY <1>2, <2>2, <3>2
        <5>2. \A s, p \in Int : s > 0 /\ s * p > -s => p >= 0
          OBVIOUS
        <5> QED
          BY <1>2, <2>2, <3>2, <5>1, <5>2
      <4>2. size * q < size * g
        BY <1>2, <2>1, <2>2, <3>2
      <4>3. \A s, p, t \in Int : s > 0 /\ s * p < s * t => p < t
        OBVIOUS
      <4> QED
        BY <1>2, <2>2, <3>2, <4>1, <4>2, <4>3
    <3>4. size * q >= 0 /\ size * q + size <= size * g
      <4>1. \A s, p, t \in Int : s > 0 /\ p >= 0 /\ p < t => s * p >= 0 /\ s * p + s <= s * t
        <5> TAKE s, p, t \in Int
        <5> HAVE s > 0 /\ p >= 0 /\ p < t
        <5>1. s * (p + 1) <= s * t
          OBVIOUS
        <5> QED
          BY <5>1
      <4> QED
        BY <1>2, <2>2, <3>2, <3>3, <4>1
    <3>5. o = size * q
      BY <1>2, <3>1, <3>2
    <3> QED
      BY <1>2, <3>2, <3>4, <3>5 DEF y
  <2> DEFINE t == SubSeq(r, o + 1, o + size)
  <2>4. DOMAIN t = 1..size /\ \A i \in 1..size : t[i] \in Int
    <3> HIDE DEF r, o, w, size
    <3>1. r \in Seq(Int) /\ Len(r) = w
      BY <1>1, <2>1
    <3>2. \A q \in Seq(Int), j, e \in Nat : j + e <= Len(q) =>
            DOMAIN SubSeq(q, j + 1, j + e) = 1..e /\ \A i \in 1..e : SubSeq(q, j + 1, j + e)[i] \in Int
      <4> TAKE q \in Seq(Int), j, e \in Nat
      <4> HAVE j + e <= Len(q)
      <4>1. \A i \in (j + 1)..(j + e) : q[i] \in Int
        OBVIOUS
      <4>2. SubSeq(q, j + 1, j + e) \in Seq(Int)
            /\ Len(SubSeq(q, j + 1, j + e)) = IF j + 1 <= j + e THEN (j + e) - (j + 1) + 1 ELSE 0
        BY <4>1, SubSeqProperties
      <4> QED
        BY <4>2
    <3> QED
      BY <1>2, <2>3, <3>1, <3>2
  <2>5. 1 + (x % size) \in 1..size
    <3> HIDE DEF x, size
    <3> QED
      BY <1>2, <2>3
  <2>6. v[k] = Normal(t, 1 + (x % size), eps)
    OBVIOUS
  <2> HIDE DEF t, x, size, v
  <2> QED
    BY <1>2, <2>4, <2>5, <2>6, NormalInt
<1>4. v = [k \in 1..Elems(ne) |-> v[k]]
  OBVIOUS
<1>5. GroupNormed(a, g, eps) = [ne |-> ne, v |-> v]
  BY Zenon DEF GroupNormed, Array
<1> HIDE DEF v
<1> QED
  BY <1>1, <1>3, <1>4, <1>5, ArrayTyped

(* The shifted exponentials of the rows: an empty row has no largest element. *)
LEMMA SoftMaxTyped ==
  ASSUME NEW a, Source(a), a.ne[1] # 0
  PROVE  IntArray(SoftMax(a))
<1> DEFINE ne == a.ne
           v == [k \in 1..Elems(ne) |-> At(a, Coord(ne, k - 1)) - Greatest(Row(a, Coord(ne, k - 1)))]
<1>1. ne \in Seq(Nat)
  BY SourceDims
<1>2. ASSUME NEW k \in 1..Elems(ne) PROVE v[k] \in Int
  <2> DEFINE x == At(a, Coord(ne, k - 1))  r == Row(a, Coord(ne, k - 1))  w == a.ne[1]
  <2>1. x \in Int /\ r \in [1..w -> Int] /\ w \in Nat \ {0}
    BY OwnRow
  <2>2. v[k] = x - Greatest(r)
    OBVIOUS
  <2> HIDE DEF x, r, w, v
  <2> QED
    BY <2>1, <2>2, GreatestIn
<1>3. v = [k \in 1..Elems(ne) |-> v[k]]
  OBVIOUS
<1>4. SoftMax(a) = [ne |-> ne, v |-> v]
  BY Zenon DEF SoftMax, Array
<1> HIDE DEF ne, v
<1> QED
  BY <1>1, <1>2, <1>3, <1>4, ArrayTyped

(* The mask of a softmax, added to its scaled rows. *)
LEMMA MaskAdded ==
  ASSUME NEW a, Source(a), NEW b, Source(b), Broadcastable(a.ne, b.ne), a.ne[1] # 0, b.ne[1] # 0
  PROVE  LET x == Broadcast(a, b, LAMBDA y, z : y + z) IN Source(x) /\ x.ne[1] # 0
<1> DEFINE ne == Broadened(a.ne, b.ne)
           v == [k \in 1..Elems(ne) |-> At(a, Clipped(a.ne, Coord(ne, k - 1)))
                                        + At(b, Clipped(b.ne, Coord(ne, k - 1)))]
           x == [ne |-> ne, v |-> v]
<1>1. ne \in Seq(Nat) /\ Len(ne) \in 1..4 /\ ne[1] = (IF Dim(a.ne, 1) = 1 THEN Dim(b.ne, 1) ELSE Dim(a.ne, 1))
  <2>1. /\ a.ne \in Seq(Nat) /\ Len(a.ne) \in 1..4 /\ 1 \in DOMAIN a.ne
        /\ b.ne \in Seq(Nat) /\ Len(b.ne) \in 1..4
    BY SourceDims
  <2>2. ne \in Seq(Nat) /\ Len(ne) = (IF Len(a.ne) >= Len(b.ne) THEN Len(a.ne) ELSE Len(b.ne))
    BY <2>1, BroadenedShape
  <2>3. ne[1] = (IF Dim(a.ne, 1) = 1 THEN Dim(b.ne, 1) ELSE Dim(a.ne, 1))
    BY <2>1, BroadenedShape
  <2> HIDE DEF ne
  <2> QED
    BY <2>1, <2>2, <2>3
<1>2. ne[1] # 0
  BY <1>1, SourceDims DEF Dim
<1>3. \A k \in 1..Elems(ne) : v[k] \in Int
  BY BroadcastReads DEF Source
<1>4. v = [k \in 1..Elems(ne) |-> v[k]]
  OBVIOUS
<1>5. Broadcast(a, b, LAMBDA y, z : y + z) = x
  BY Zenon DEF Broadcast, Array
<1> HIDE DEF ne, v
<1>6. IntArray(x) /\ x.ne = ne
  BY <1>1, <1>3, <1>4, ArrayTyped
<1> QED
  BY <1>1, <1>2, <1>5, <1>6, Zenon DEF Source

(* How many elements of two arrays are equal. *)
LEMMA EqualsTyped ==
  ASSUME NEW a, Source(a), NEW b, Source(b), Broadcastable(a.ne, b.ne)
  PROVE  Equals(a, b) \in Int
<1> DEFINE ne == Broadened(a.ne, b.ne)
           v == [k \in 1..Elems(ne) |-> IF At(a, Clipped(a.ne, Coord(ne, k - 1)))
                                           = At(b, Clipped(b.ne, Coord(ne, k - 1))) THEN 1 ELSE 0]
           x == [ne |-> ne, v |-> v]
<1>1. ne \in Seq(Nat)
  BY BroadenedShape, SourceDims
<1>2. \A k \in 1..Elems(ne) : v[k] \in Int
  OBVIOUS
<1>3. v = [k \in 1..Elems(ne) |-> v[k]]
  OBVIOUS
<1>4. Broadcast(a, b, LAMBDA y, z : IF y = z THEN 1 ELSE 0) = x
  BY Zenon DEF Broadcast, Array
<1> HIDE DEF ne, v
<1>5. IntArray(x) /\ x.v = v
  BY <1>1, <1>2, <1>3, ArrayTyped
<1>6. Total(x.v) \in Int
  BY <1>5, SumTyped
<1> HIDE DEF x
<1> QED
  BY <1>4, <1>6, Zenon DEF Equals

(* The root mean square of a row, taken from its elements. *)
LEMMA RootTyped ==
  ASSUME NEW a, Source(a), NEW eps \in Int
  PROVE  IntArray(Array(a.ne, LAMBDA c : At(a, c) + eps - Dot(Row(a, c), Row(a, c))))
<1> DEFINE ne == a.ne
           v == [k \in 1..Elems(ne) |-> At(a, Coord(ne, k - 1)) + eps
                                        - Dot(Row(a, Coord(ne, k - 1)), Row(a, Coord(ne, k - 1)))]
<1>1. ne \in Seq(Nat)
  BY SourceDims
<1>2. ASSUME NEW k \in 1..Elems(ne) PROVE v[k] \in Int
  <2> DEFINE x == At(a, Coord(ne, k - 1))  r == Row(a, Coord(ne, k - 1))  w == a.ne[1]
  <2>1. x \in Int /\ r \in [1..w -> Int] /\ w \in Nat
    BY OwnRow
  <2>2. v[k] = x + eps - Dot(r, r)
    OBVIOUS
  <2> HIDE DEF x, r, w, v
  <2>3. DOMAIN r = 1..w /\ \A i \in 1..w : r[i] \in Int
    BY <2>1
  <2>4. Dot(r, r) \in Int
    BY <2>1, <2>3, DotInt
  <2> QED
    BY <2>1, <2>2, <2>4
<1>3. v = [k \in 1..Elems(ne) |-> v[k]]
  OBVIOUS
<1>4. Array(a.ne, LAMBDA c : At(a, c) + eps - Dot(Row(a, c), Row(a, c))) = [ne |-> ne, v |-> v]
  BY Zenon DEF Array
<1> HIDE DEF ne, v
<1> QED
  BY <1>1, <1>2, <1>3, <1>4, ArrayTyped

(* The operators of the host that work along rows leave integers, or refuse. *)
LEMMA RowsResultTyped ==
  ASSUME NEW n \in NodeType, NEW s, SourceArrays(s), Len(s) \in Nat, Len(s) >= 1, n.op \in RowOps,
         n.op = "COUNT_EQUAL" => Len(s) >= 2
  PROVE  Typed(RowResult(n, s))
<1> DEFINE a == s[1]  b == s[2]  p == n.p  w == a.ne[1]
           x == Each(a, LAMBDA y : y * (IF p[1] = 0 THEN 1 ELSE p[1]))
           rms == Array(a.ne, LAMBDA c : At(a, c) + p[1] - Dot(Row(a, c), Row(a, c)))
           sum == Array(<<1>>, LAMBDA c : Total(a.v))
           count == Array(<<1>>, LAMBDA c : Equals(a, b))
           masked == Broadcast(x, b, LAMBDA y, z : y + z)
<1>1. Source(a) /\ (Len(s) # 1 => Source(b)) /\ (n.op = "COUNT_EQUAL" => Source(b))
  <2>1. 1 \in 1..Len(s) /\ (Len(s) # 1 => 2 \in 1..Len(s)) /\ (n.op = "COUNT_EQUAL" => 2 \in 1..Len(s))
    OBVIOUS
  <2> QED
    BY <2>1, Zenon DEF SourceArrays
<1>2. p[1] \in Int /\ p[2] \in Int
  BY Params
<1> HIDE DEF a, b, p, w
<1>3. w \in Nat /\ w = a.ne[1]
  BY <1>1, SourceDims DEF w
<1>4. Source(x) /\ x.ne = a.ne
  <2> DEFINE v == a.v
             f == [i \in DOMAIN a.v |-> a.v[i] * (IF p[1] = 0 THEN 1 ELSE p[1])]
  <2>1. v \in [1..Elems(a.ne) -> Int]
    BY <1>1 DEF Source, IntArray
  <2>2. \A i \in DOMAIN v : f[i] = v[i] * (IF p[1] = 0 THEN 1 ELSE p[1])
    OBVIOUS
  <2>3. f = [i \in DOMAIN a.v |-> f[i]]
    OBVIOUS
  <2> HIDE DEF v, f
  <2>4. \A i \in DOMAIN v : f[i] \in Int
    BY <1>2, <2>1, <2>2
  <2>5. IntArray([a EXCEPT !.v = f]) /\ [a EXCEPT !.v = f].ne = a.ne
    BY <1>1, <2>3, <2>4, EachTyped DEF v, Source
  <2>6. x = [a EXCEPT !.v = f]
    BY Zenon DEF Each, f
  <2> HIDE DEF x
  <2> QED
    BY <1>1, <2>5, <2>6 DEF Source
<1> HIDE DEF x
<1>5. Typed(Ok(rms))
  BY <1>1, <1>2, RootTyped, TypedOk, Zenon DEF Array
<1>6. Typed(Ok(sum))
  <2>1. Total(a.v) \in Int
    BY <1>1, SumTyped DEF Source
  <2> QED
    BY <2>1, OneDim, TypedOk, Zenon DEF Array
<1>7. n.op = "COUNT_EQUAL" => Typed(Unless(~Broadcastable(a.ne, b.ne), Ok(count)))
  <2> SUFFICES ASSUME n.op = "COUNT_EQUAL", Broadcastable(a.ne, b.ne) PROVE Typed(Ok(count))
    BY TypedUnless
  <2>1. Equals(a, b) \in Int
    BY <1>1, EqualsTyped
  <2> QED
    BY <2>1, OneDim, TypedOk, Zenon DEF Array
<1>8. /\ Typed(Ok(EachRow(a, Total))) /\ Typed(Ok(EachRow(a, Mean)))
      /\ Typed(Unless(a.ne[1] = 0, Ok(EachRow(a, LAMBDA r : FirstIndex(r, Greatest(r))))))
  <2>1. /\ IntArray(EachRow(a, Total)) /\ IntArray(EachRow(a, Mean))
        /\ a.ne[1] # 0 => IntArray(EachRow(a, LAMBDA r : FirstIndex(r, Greatest(r))))
    BY <1>1, RowsTyped, Zenon DEF EachRow, Array
  <2> QED
    BY <2>1, TypedOk, TypedUnless, Zenon
<1>9. /\ Typed(Unless(p[1] <= 0 \/ a.ne[1] % p[1] # 0, Ok(GroupNormed(a, p[1], p[2]))))
      /\ Typed(Ok(GroupNormed(a, 1, p[1])))
  <2>1. ASSUME ~(p[1] <= 0 \/ a.ne[1] % p[1] # 0) PROVE IntArray(GroupNormed(a, p[1], p[2]))
    <3>1. p[1] > 0 /\ a.ne[1] % p[1] = 0
      BY <1>2, <2>1
    <3> QED
      BY <1>1, <1>2, <3>1, GroupTyped
  <2>2. IntArray(GroupNormed(a, 1, p[1]))
    <3>1. a.ne[1] % 1 = 0 /\ 1 \in Int /\ 1 > 0
      BY <1>3
    <3> QED
      BY <1>1, <1>2, <3>1, GroupTyped
  <2> QED
    BY <2>1, <2>2, TypedOk, TypedUnless
<1>10. /\ a.ne[1] # 0 => Typed(Ok(SoftMax(x)))
       /\ a.ne[1] # 0 /\ Len(s) # 1 => Typed(Unless(b.ne[1] = 0 \/ ~Broadcastable(a.ne, b.ne), Ok(SoftMax(masked))))
  <2>1. ASSUME a.ne[1] # 0 PROVE Typed(Ok(SoftMax(x)))
    BY <1>4, <2>1, SoftMaxTyped, TypedOk
  <2>2. ASSUME a.ne[1] # 0, Len(s) # 1, b.ne[1] # 0, Broadcastable(a.ne, b.ne) PROVE Typed(Ok(SoftMax(masked)))
    <3>1. Source(x) /\ Source(b) /\ Broadcastable(x.ne, b.ne) /\ x.ne[1] # 0
      BY <1>1, <1>4, <2>2
    <3>2. Source(masked) /\ masked.ne[1] # 0
      BY <2>2, <3>1, MaskAdded, Zenon DEF Broadcast, Array
    <3> HIDE DEF masked
    <3> QED
      BY <3>2, SoftMaxTyped, TypedOk
  <2> QED
    BY <2>1, <2>2, TypedUnless
<1> HIDE DEF masked, rms, sum, count
<1>11. RowResult(n, s) =
         CASE n.op = "SUM" -> Ok(sum)
           [] n.op = "SUM_ROWS" -> Ok(EachRow(a, Total))
           [] n.op = "MEAN" -> Ok(EachRow(a, Mean))
           [] n.op = "ARGMAX" -> Unless(a.ne[1] = 0, Ok(EachRow(a, LAMBDA r : FirstIndex(r, Greatest(r)))))
           [] n.op = "GROUP_NORM" -> Unless(p[1] <= 0 \/ a.ne[1] % p[1] # 0, Ok(GroupNormed(a, p[1], p[2])))
           [] n.op = "SOFT_MAX" ->
                (IF a.ne[1] = 0 THEN Raises
                 ELSE IF Len(s) = 1 THEN Ok(SoftMax(x))
                 ELSE Unless(b.ne[1] = 0 \/ ~Broadcastable(a.ne, b.ne), Ok(SoftMax(masked))))
           [] n.op = "NORM" -> Ok(GroupNormed(a, 1, p[1]))
           [] n.op = "COUNT_EQUAL" -> Unless(~Broadcastable(a.ne, b.ne), Ok(count))
           [] OTHER -> Ok(rms)
  BY Zenon DEF RowResult, a, b, p, masked, rms, sum, count, x
<1> QED
  BY <1>5, <1>6, <1>7, <1>8, <1>9, <1>10, <1>11, TypedRefused, Zenon

-----------------------------------------------------------------------------
(* Rearrangements. *)

(* Shapes of the same dimensions, where those that are not given are 1, are of the same size. *)
LEMMA SameVolume ==
  ASSUME NEW x \in Seq(Nat), NEW y \in Seq(Nat), Len(x) \in 0..4, Len(y) \in 0..4,
         \A d \in 1..4 : Dim(x, d) = Dim(y, d)
  PROVE  Elems(x) = Elems(y)
<1>1. DOMAIN x = 1..Len(x) /\ \A d \in 1..Len(x) : x[d] \in Int
  OBVIOUS
<1>2. DOMAIN y = 1..Len(y) /\ \A d \in 1..Len(y) : y[d] \in Int
  OBVIOUS
<1>3. Elems(x) = Volume(x) /\ Elems(y) = Volume(y)
  BY <1>1, <1>2, ElemsVolume
<1>4. Dim(x, 1) = Dim(y, 1) /\ Dim(x, 2) = Dim(y, 2) /\ Dim(x, 3) = Dim(y, 3) /\ Dim(x, 4) = Dim(y, 4)
  OBVIOUS
<1> QED
  BY <1>3, <1>4, Zenon DEF Volume

(* np.tile: the coordinates are taken modulo the shape that is repeated. *)
LEMMA TiledTyped ==
  ASSUME NEW a, Source(a), NEW ne \in Seq(Nat), Len(ne) \in 1..4,
         \A d \in 1..Len(a.ne) : d > Len(a.ne) - Len(ne) => a.ne[d] # 0
  PROVE  IntArray(Tiled(a, ne))
<1> DEFINE k == Len(ne)
           rank == Max({Len(a.ne), k})
           src == [d \in 1..rank |-> Dim(a.ne, d)]
           times == [d \in 1..rank |-> IF d <= k THEN ne[d] \div src[d + rank - k] ELSE 1]
           out == [d \in 1..rank |-> src[d] * times[d]]
           v == [i \in 1..Elems(out) |-> At(Reshaped(a, src), [d \in DOMAIN Coord(out, i - 1) |-> Coord(out, i - 1)[d] % src[d]])]
<1> DEFINE x == a.ne  l == Len(a.ne)
<1>0. x \in Seq(Nat) /\ l \in 1..4 /\ l = Len(x) /\ k \in 1..4
  BY SourceDims
<1>1. rank \in {l, k} /\ l <= rank /\ k <= rank /\ rank \in 1..4
  <2> HIDE DEF l, k
  <2>1. {l, k} \in SUBSET (1..4) /\ {l, k} # {}
    BY <1>0
  <2>2. rank \in {l, k} /\ \A y \in {l, k} : y <= rank
    BY <2>1, MaxInSet DEF l
  <2> QED
    BY <1>0, <2>2
<1> HIDE DEF rank
<1>2. src \in Seq(Nat) /\ Len(src) = rank /\ \A d \in 1..rank : src[d] = Dim(x, d) /\ src[d] \in Nat
  <2> HIDE DEF x, l, k
  <2>1. \A d \in 1..rank : Dim(x, d) \in Nat
    BY <1>0, <1>1 DEF Dim
  <2>2. src \in [1..rank -> Nat] /\ rank \in Nat
    BY <1>1, <2>1 DEF x
  <2> HIDE DEF src
  <2>3. src \in Seq(Nat) /\ Len(src) = rank
    BY <2>2
  <2> QED
    BY <2>2, <2>3 DEF src, x
<1>3. IntArray(Reshaped(a, src)) /\ Reshaped(a, src).ne = src
  <2>1. \A d \in 1..4 : Dim(src, d) = Dim(x, d)
    <3> HIDE DEF src, x, l, k
    <3> QED
      BY <1>0, <1>1, <1>2 DEF Dim
  <2> HIDE DEF src
  <2>2. Elems(src) = Elems(a.ne)
    BY <1>0, <1>1, <1>2, <2>1, SameVolume DEF x
  <2> QED
    BY <1>2, <2>2, ReshapedTyped DEF Source
<1>4. \A d \in 1..rank : times[d] \in Nat
  <2> TAKE d \in 1..rank
  <2>1. CASE d > k
    BY <1>1, <1>0, <2>1
  <2>2. CASE d <= k
    <3> DEFINE e == d + rank - k
    <3>1. e \in 1..rank /\ e > rank - k
      BY <1>0, <1>1, <2>2
    <3>2. src[e] # 0 /\ src[e] \in Nat
      <4>1. CASE e > l
        <5> HIDE DEF e, src, k, l, x
        <5> QED
          BY <1>0, <1>1, <1>2, <3>1, <4>1 DEF Dim
      <4>2. CASE e <= l
        <5>1. e \in 1..l /\ e > l - k
          BY <1>0, <1>1, <3>1, <4>2
        <5>2. a.ne[e] # 0
          BY <5>1
        <5>3. x[e] # 0 /\ e \in DOMAIN x
          BY <1>0, <5>1, <5>2
        <5> HIDE DEF e, src, k, l, x
        <5> QED
          BY <1>2, <3>1, <5>3 DEF Dim
      <4> QED
        BY <1>0, <1>1, <3>1, <4>1, <4>2
    <3>3. ne[d] \in Nat
      BY <1>0, <1>1, <2>2
    <3>4. times[d] = ne[d] \div src[e]
      BY <2>2
    <3>5. \A p \in Nat, q \in Nat : q > 0 => p \div q \in Nat
      OBVIOUS
    <3> HIDE DEF times, src, e
    <3>6. src[e] > 0
      BY <3>2
    <3> QED
      BY <3>2, <3>3, <3>4, <3>5, <3>6
  <2> QED
    BY <1>0, <1>1, <2>1, <2>2
<1>5. out \in Seq(Nat) /\ DOMAIN out = 1..rank /\ \A d \in 1..rank : out[d] = src[d] * times[d]
  <2> HIDE DEF src, times
  <2>1. \A d \in 1..rank : src[d] * times[d] \in Nat
    BY <1>2, <1>4
  <2>2. out \in [1..rank -> Nat] /\ rank \in Nat
    BY <1>1, <2>1
  <2> HIDE DEF out
  <2>3. out \in Seq(Nat)
    BY <2>2
  <2> QED
    BY <2>2, <2>3 DEF out
<1>6. ASSUME NEW i \in 1..Elems(out) PROVE v[i] \in Int
  <2> DEFINE c == Coord(out, i - 1)  f == [d \in DOMAIN c |-> c[d] % src[d]]
  <2>1. Within(out, c)
    <3> HIDE DEF out
    <3> QED
      BY <1>5, CoordWithin
  <2>2. v[i] = At(Reshaped(a, src), f)
    OBVIOUS
  <2> HIDE DEF c, out, times, src, v, k, l, x
  <2>3. DOMAIN c = 1..rank /\ \A d \in 1..rank : c[d] \in 0..(out[d] - 1)
    BY <1>5, <2>1 DEF Within
  <2>4. \A d \in 1..rank : c[d] % src[d] \in 0..(src[d] - 1)
    <3> TAKE d \in 1..rank
    <3>1. c[d] \in Nat /\ c[d] < src[d] * times[d] /\ src[d] \in Nat /\ times[d] \in Nat
      BY <1>2, <1>4, <1>5, <2>3
    <3>2. \A p, q, r \in Nat : p < q * r => q # 0
      OBVIOUS
    <3>3. src[d] # 0
      BY <3>1, <3>2
    <3>4. \A p, q \in Nat : q # 0 => p % q \in 0..(q - 1)
      OBVIOUS
    <3> QED
      BY <3>1, <3>3, <3>4
  <2>5. DOMAIN f = 1..rank /\ \A d \in 1..rank : f[d] \in 0..(src[d] - 1)
    BY <2>3, <2>4
  <2>6. DOMAIN src = 1..rank
    BY <1>2
  <2> HIDE DEF f
  <2>7. Within(Reshaped(a, src).ne, f)
    BY <1>3, <2>5, <2>6 DEF Within
  <2> QED
    BY <1>3, <2>2, <2>7, AtTyped
<1>7. v = [i \in 1..Elems(out) |-> v[i]]
  OBVIOUS
<1>8. Tiled(a, ne) = [ne |-> out, v |-> v]
  BY Zenon DEF Tiled, Array, rank
<1> HIDE DEF v, out
<1> QED
  BY <1>5, <1>6, <1>7, <1>8, ArrayTyped

(* np.concatenate. *)
LEMMA ConcatTyped ==
  ASSUME NEW a, Source(a), NEW b, Source(b), Len(b.ne) = Len(a.ne), NEW g \in 1..Len(a.ne),
         \A d \in 1..Len(a.ne) : d # g => a.ne[d] = b.ne[d]
  PROVE  IntArray(Concat(a, b, g))
<1> DEFINE x == a.ne  y == b.ne
           ne == [a.ne EXCEPT ![g] = @ + b.ne[g]]
           v == [k \in 1..Elems(ne) |->
                   IF Coord(ne, k - 1)[g] < a.ne[g] THEN At(a, Coord(ne, k - 1))
                   ELSE At(b, [Coord(ne, k - 1) EXCEPT ![g] = @ - a.ne[g]])]
<1>1. /\ x \in Seq(Nat) /\ y \in Seq(Nat) /\ DOMAIN x = DOMAIN y /\ g \in DOMAIN x
      /\ x[g] \in Nat /\ y[g] \in Nat /\ \A d \in DOMAIN x : d # g => x[d] = y[d]
  <2>1. x \in Seq(Nat) /\ y \in Seq(Nat) /\ Len(x) = Len(y) /\ g \in 1..Len(x)
        /\ \A d \in 1..Len(x) : d # g => x[d] = y[d]
    BY SourceDims
  <2> HIDE DEF x, y
  <2>2. DOMAIN x = 1..Len(x) /\ DOMAIN y = 1..Len(y)
    BY <2>1
  <2>3. x[g] \in Nat /\ y[g] \in Nat
    BY <2>1
  <2> QED
    BY <2>1, <2>2, <2>3
<1>2. ne \in Seq(Nat) /\ DOMAIN ne = DOMAIN x /\ ne[g] = x[g] + y[g] /\ \A d \in DOMAIN x : d # g => ne[d] = x[d]
  <2>1. ne = [x EXCEPT ![g] = x[g] + y[g]]
    OBVIOUS
  <2> HIDE DEF x, y, ne
  <2> QED
    BY <1>1, <2>1
<1> HIDE DEF ne
<1>3. ASSUME NEW k \in 1..Elems(ne) PROVE v[k] \in Int
  <2> DEFINE c == Coord(ne, k - 1)  c2 == [c EXCEPT ![g] = @ - a.ne[g]]
  <2>1. Within(ne, c)
    BY <1>2, CoordWithin
  <2>2. v[k] = IF c[g] < x[g] THEN At(a, c) ELSE At(b, c2)
    OBVIOUS
  <2>3. c2 = [c EXCEPT ![g] = c[g] - x[g]]
    OBVIOUS
  <2> HIDE DEF c, v, c2, x, y
  <2>4. DOMAIN c = DOMAIN x /\ c[g] \in 0..(ne[g] - 1) /\ \A d \in DOMAIN x : d # g => c[d] \in 0..(x[d] - 1)
    <3>1. DOMAIN c = DOMAIN x /\ c[g] \in 0..(ne[g] - 1) /\ \A d \in DOMAIN x : c[d] \in 0..(ne[d] - 1)
      BY <1>1, <1>2, <2>1, Zenon DEF Within
    <3>2. \A d \in DOMAIN x : d # g => c[d] \in 0..(x[d] - 1)
      BY <1>2, <3>1
    <3> QED
      BY <3>1, <3>2
  <2>5. CASE c[g] < x[g]
    <3>1. c[g] \in 0..(x[g] - 1)
      BY <1>1, <2>4, <2>5
    <3>2. Within(x, c)
      BY <2>4, <3>1 DEF Within
    <3> QED
      BY <2>2, <2>5, <3>2, AtTyped DEF x, Source
  <2>6. CASE ~(c[g] < x[g])
    <3>1. DOMAIN c2 = DOMAIN y /\ c2[g] = c[g] - x[g] /\ \A d \in DOMAIN y : d # g => c2[d] = c[d]
      BY <1>1, <2>3, <2>4
    <3>2. c2[g] \in 0..(y[g] - 1)
      <4>1. \A p, q, r, w \in Int : w = p + q /\ r \in 0..(w - 1) /\ ~(r < p) => r - p \in 0..(q - 1)
        OBVIOUS
      <4>2. c[g] \in 0..(ne[g] - 1) /\ ne[g] = x[g] + y[g] /\ x[g] \in Int /\ y[g] \in Int /\ ne[g] \in Int
        BY <1>1, <1>2, <2>4
      <4>3. c[g] \in Int
        BY <4>2
      <4>4. c[g] - x[g] \in 0..(y[g] - 1)
        BY <2>6, <4>1, <4>2, <4>3
      <4> QED
        BY <3>1, <4>4
    <3>3. Within(y, c2)
      BY <1>1, <2>4, <3>1, <3>2 DEF Within
    <3> QED
      BY <2>2, <2>6, <3>3, AtTyped DEF y, Source
  <2> QED
    BY <2>5, <2>6
<1>4. v = [k \in 1..Elems(ne) |-> v[k]]
  OBVIOUS
<1>5. Concat(a, b, g) = [ne |-> ne, v |-> v]
  BY Zenon DEF Concat, Array, ne
<1> HIDE DEF v
<1> QED
  BY <1>2, <1>3, <1>4, <1>5, ArrayTyped

(* np.pad. *)
LEMMA PaddedTyped ==
  ASSUME NEW a, Source(a), NEW after, \A d \in 1..Len(a.ne) : after[d] \in Nat
  PROVE  IntArray(Padded(a, after))
<1> DEFINE x == a.ne
           ne == [d \in DOMAIN a.ne |-> a.ne[d] + after[d]]
           v == [k \in 1..Elems(ne) |->
                   IF \A d \in DOMAIN Coord(ne, k - 1) : Coord(ne, k - 1)[d] < a.ne[d]
                   THEN At(a, Coord(ne, k - 1)) ELSE 0]
<1>1. x \in Seq(Nat) /\ \A d \in 1..Len(x) : after[d] \in Nat
  BY SourceDims
<1>2. ne \in Seq(Nat) /\ DOMAIN ne = DOMAIN x /\ \A d \in DOMAIN x : ne[d] = x[d] + after[d] /\ x[d] \in Nat
  <2>1. ne = [d \in DOMAIN x |-> x[d] + after[d]]
    OBVIOUS
  <2> HIDE DEF x, ne
  <2>2. DOMAIN x = 1..Len(x) /\ Len(x) \in Nat /\ \A d \in 1..Len(x) : x[d] \in Nat
    BY <1>1
  <2>3. \A d \in 1..Len(x) : x[d] + after[d] \in Nat
    BY <1>1, <2>2
  <2>4. ne \in [1..Len(x) -> Nat]
    BY <2>1, <2>2, <2>3
  <2>5. ne \in Seq(Nat)
    BY <2>2, <2>4
  <2> QED
    BY <2>1, <2>2, <2>5
<1> HIDE DEF ne
<1>3. ASSUME NEW k \in 1..Elems(ne) PROVE v[k] \in Int
  <2> DEFINE c == Coord(ne, k - 1)
  <2>1. Within(ne, c)
    BY <1>2, CoordWithin
  <2>2. v[k] = IF \A d \in DOMAIN c : c[d] < x[d] THEN At(a, c) ELSE 0
    OBVIOUS
  <2> HIDE DEF c, v, x
  <2>3. CASE \A d \in DOMAIN c : c[d] < x[d]
    <3>1. DOMAIN c = DOMAIN x /\ \A d \in DOMAIN x : c[d] \in Nat /\ c[d] < x[d]
      BY <1>2, <2>1, <2>3 DEF Within
    <3>2. \A d \in DOMAIN x : c[d] \in 0..(x[d] - 1)
      BY <1>2, <3>1
    <3>3. Within(x, c)
      BY <3>1, <3>2 DEF Within
    <3> QED
      BY <2>2, <2>3, <3>3, AtTyped DEF x, Source
  <2> QED
    BY <2>2, <2>3
<1>4. v = [k \in 1..Elems(ne) |-> v[k]]
  OBVIOUS
<1>5. Padded(a, after) = [ne |-> ne, v |-> v]
  BY Zenon DEF Padded, Array, ne
<1> HIDE DEF v
<1> QED
  BY <1>2, <1>3, <1>4, <1>5, ArrayTyped

(* GET_ROWS: indices that the rows of the array have, counted from either end. *)
LEMMA TakenTyped ==
  ASSUME NEW a, Source(a), NEW b, Source(b), NEW g \in 1..Len(a.ne),
         \A i \in DOMAIN b.v : b.v[i] \in (-a.ne[g])..(a.ne[g] - 1)
  PROVE  IntArray(Array([a.ne EXCEPT ![g] = Len(b.v)],
                        LAMBDA c : At(a, [c EXCEPT ![g] = b.v[@ + 1] % a.ne[g]])))
<1> DEFINE x == a.ne  r == b.v  h == Len(b.v)
           ne == [a.ne EXCEPT ![g] = Len(b.v)]
           v == [k \in 1..Elems(ne) |->
                   At(a, [Coord(ne, k - 1) EXCEPT ![g] = b.v[@ + 1] % a.ne[g]])]
<1>1. x \in Seq(Nat) /\ g \in DOMAIN x /\ x[g] \in Nat
  <2>1. x \in Seq(Nat) /\ g \in 1..Len(x)
    BY SourceDims
  <2> HIDE DEF x
  <2> QED
    BY <2>1
<1>2. h \in Nat /\ DOMAIN r = 1..h /\ \A i \in 1..h : r[i] \in (-x[g])..(x[g] - 1)
  <2>1. r \in [1..Elems(b.ne) -> Int] /\ Elems(b.ne) \in Nat
    BY SourceDims, ElemsNat DEF Source, IntArray
  <2>2. r = [i \in 1..Elems(b.ne) |-> r[i]]
    BY <2>1
  <2>3. Len(r) = Elems(b.ne) /\ DOMAIN r = 1..Elems(b.ne)
    <3> HIDE DEF r
    <3> QED
      BY <2>1, <2>2, VectorIsSeq
  <2>4. \A i \in DOMAIN r : r[i] \in (-x[g])..(x[g] - 1)
    OBVIOUS
  <2> HIDE DEF r, x
  <2> QED
    BY <2>1, <2>3, <2>4 DEF r
<1>3. ne \in Seq(Nat) /\ DOMAIN ne = DOMAIN x /\ ne[g] = h /\ \A d \in DOMAIN x : d # g => ne[d] = x[d]
  <2>1. ne = [x EXCEPT ![g] = h]
    OBVIOUS
  <2> HIDE DEF x, ne, h
  <2> QED
    BY <1>1, <1>2, <2>1
<1> HIDE DEF ne
<1>4. ASSUME NEW k \in 1..Elems(ne) PROVE v[k] \in Int
  <2> DEFINE c == Coord(ne, k - 1)  f == [c EXCEPT ![g] = b.v[@ + 1] % a.ne[g]]
  <2>1. Within(ne, c)
    BY <1>3, CoordWithin
  <2>2. v[k] = At(a, f)
    OBVIOUS
  <2>3. f = [c EXCEPT ![g] = r[c[g] + 1] % x[g]]
    OBVIOUS
  <2> HIDE DEF c, v, f, x, r, h
  <2>4. DOMAIN c = DOMAIN x /\ c[g] \in 0..(h - 1) /\ \A d \in DOMAIN x : d # g => c[d] \in 0..(x[d] - 1)
    BY <1>1, <1>3, <2>1 DEF Within
  <2>5. r[c[g] + 1] % x[g] \in 0..(x[g] - 1)
    <3>1. c[g] + 1 \in 1..h
      BY <1>2, <2>4
    <3>2. r[c[g] + 1] \in (-x[g])..(x[g] - 1)
      BY <1>2, <3>1
    <3>3. \A p \in Int, w \in Nat : p \in (-w)..(w - 1) => w > 0 /\ p % w \in 0..(w - 1)
      <4> TAKE p \in Int, w \in Nat
      <4> HAVE p \in (-w)..(w - 1)
      <4>1. w > 0
        OBVIOUS
      <4> QED
        BY <4>1
    <3>4. r[c[g] + 1] \in Int
      BY <1>1, <3>2
    <3> QED
      BY <1>1, <3>2, <3>3, <3>4
  <2>6. DOMAIN f = DOMAIN x /\ f[g] = r[c[g] + 1] % x[g] /\ \A d \in DOMAIN x : d # g => f[d] = c[d]
    BY <1>1, <2>3, <2>4
  <2>7. Within(x, f)
    BY <2>4, <2>5, <2>6 DEF Within
  <2> QED
    BY <2>2, <2>7, AtTyped DEF x, Source
<1>5. v = [k \in 1..Elems(ne) |-> v[k]]
  OBVIOUS
<1>6. Array([a.ne EXCEPT ![g] = Len(b.v)], LAMBDA c : At(a, [c EXCEPT ![g] = b.v[@ + 1] % a.ne[g]]))
        = [ne |-> ne, v |-> v]
  BY Zenon DEF Array, ne
<1> HIDE DEF v
<1> QED
  BY <1>3, <1>4, <1>5, <1>6, ArrayTyped

(* np.where of a square mask. *)
LEMMA MaskedTyped ==
  ASSUME NEW a, Source(a), Broadcastable(Square(a), a.ne), NEW past, NEW fill \in Int
  PROVE  IntArray(Masked(a, past, fill))
<1> DEFINE x == Square(a)
           ne == Broadened(x, a.ne)
           v == [k \in 1..Elems(ne) |->
                   IF Clipped(x, Coord(ne, k - 1))[1] > Clipped(x, Coord(ne, k - 1))[2] + past THEN fill
                   ELSE At(a, Clipped(a.ne, Coord(ne, k - 1)))]
<1>1. x \in Seq(Nat) /\ a.ne \in Seq(Nat)
  <2>1. a.ne \in Seq(Nat) /\ a.ne[1] \in Nat
    BY SourceDims
  <2> QED
    BY <2>1 DEF Square
<1> HIDE DEF x
<1>2. ne \in Seq(Nat)
  BY <1>1, BroadenedShape
<1>3. ASSUME NEW k \in 1..Elems(ne) PROVE v[k] \in Int
  <2> DEFINE c == Coord(ne, k - 1)
  <2>1. Within(ne, c)
    BY <1>2, CoordWithin
  <2>2. v[k] = IF Clipped(x, c)[1] > Clipped(x, c)[2] + past THEN fill ELSE At(a, Clipped(a.ne, c))
    OBVIOUS
  <2> HIDE DEF c, v
  <2>3. Within(a.ne, Clipped(a.ne, c))
    BY <1>1, <2>1, ClippedWithin DEF x
  <2>4. At(a, Clipped(a.ne, c)) \in Int
    BY <2>3, AtTyped DEF Source
  <2> QED
    BY <2>2, <2>4
<1>4. v = [k \in 1..Elems(ne) |-> v[k]]
  OBVIOUS
<1>5. Masked(a, past, fill) = [ne |-> ne, v |-> v]
  BY Zenon DEF Masked, Array, x
<1> HIDE DEF v, ne
<1> QED
  BY <1>2, <1>3, <1>4, <1>5, ArrayTyped

(* np.repeat. *)
LEMMA RepeatedTyped ==
  ASSUME NEW a, Source(a), NEW f, f[1] \in Nat, f[2] \in Nat
  PROVE  IntArray(Repeated(a, f))
<1> DEFINE x == a.ne
           ne == [d \in DOMAIN a.ne |-> IF d <= 2 THEN a.ne[d] * f[d] ELSE a.ne[d]]
           v == [k \in 1..Elems(ne) |->
                   At(a, [d \in DOMAIN Coord(ne, k - 1) |-> IF d <= 2 THEN Coord(ne, k - 1)[d] \div f[d]
                                                            ELSE Coord(ne, k - 1)[d]])]
<1>1. x \in Seq(Nat) /\ Len(x) \in 1..4 /\ DOMAIN x = 1..Len(x) /\ \A d \in DOMAIN x : x[d] \in Nat
  BY SourceDims
<1>2. \A d \in DOMAIN x : d <= 2 => f[d] \in Nat
  <2> HIDE DEF x
  <2> QED
    BY <1>1
<1>3. ne \in Seq(Nat) /\ DOMAIN ne = DOMAIN x /\ \A d \in DOMAIN x : ne[d] = IF d <= 2 THEN x[d] * f[d] ELSE x[d]
  <2>1. ne = [d \in 1..Len(x) |-> IF d <= 2 THEN x[d] * f[d] ELSE x[d]]
    BY <1>1
  <2> HIDE DEF x, ne
  <2>2. \A d \in 1..Len(x) : (IF d <= 2 THEN x[d] * f[d] ELSE x[d]) \in Nat
    <3>1. \A p, q \in Nat : p * q \in Nat
      OBVIOUS
    <3> QED
      BY <1>1, <1>2, <3>1
  <2>3. ne \in [1..Len(x) -> Nat] /\ Len(x) \in Nat
    BY <1>1, <2>1, <2>2
  <2>4. ne \in Seq(Nat)
    BY <2>3
  <2> QED
    BY <1>1, <2>1, <2>4
<1> HIDE DEF ne
<1>4. ASSUME NEW k \in 1..Elems(ne) PROVE v[k] \in Int
  <2> DEFINE c == Coord(ne, k - 1)  q == [d \in DOMAIN c |-> IF d <= 2 THEN c[d] \div f[d] ELSE c[d]]
  <2>1. Within(ne, c)
    BY <1>3, CoordWithin
  <2>2. v[k] = At(a, q)
    OBVIOUS
  <2> HIDE DEF c, v, x
  <2>3. DOMAIN c = DOMAIN x /\ \A d \in DOMAIN x : c[d] \in 0..((IF d <= 2 THEN x[d] * f[d] ELSE x[d]) - 1)
    BY <1>3, <2>1 DEF Within
  <2>4. \A d \in DOMAIN x : q[d] \in 0..(x[d] - 1)
    <3> TAKE d \in DOMAIN x
    <3>1. CASE d <= 2
      <4> DEFINE e == c[d]  w == x[d]  t == f[d]
      <4>1. e \in Nat /\ e < w * t /\ w \in Nat /\ t \in Nat /\ q[d] = e \div t
        BY <1>1, <1>2, <2>3, <3>1
      <4> HIDE DEF e, w, t, q
      <4>2. \A p, y, z \in Nat : p < y * z => z > 0 /\ p \div z \in 0..(y - 1)
        <5> TAKE p, y, z \in Nat
        <5> HAVE p < y * z
        <5>1. z > 0
          OBVIOUS
        <5> DEFINE u == p \div z
        <5>2. u \in Nat /\ z * u <= p
          BY <5>1
        <5> HIDE DEF u
        <5>3. z * u < z * y
          BY <5>2
        <5>4. \A i, j, l \in Nat : i > 0 /\ i * j < i * l => j < l
          OBVIOUS
        <5>5. u < y
          BY <5>1, <5>2, <5>3, <5>4
        <5> QED
          BY <5>1, <5>2, <5>5 DEF u
      <4> QED
        BY <4>1, <4>2 DEF w
    <3>2. CASE ~(d <= 2)
      BY <2>3, <3>2
    <3> QED
      BY <3>1, <3>2
  <2>5. DOMAIN q = DOMAIN x
    BY <2>3
  <2> HIDE DEF q
  <2>6. Within(x, q)
    BY <2>4, <2>5 DEF Within
  <2> QED
    BY <2>2, <2>6, AtTyped DEF x, Source
<1>5. v = [k \in 1..Elems(ne) |-> v[k]]
  OBVIOUS
<1>6. Repeated(a, f) = [ne |-> ne, v |-> v]
  BY Zenon DEF Repeated, Array, ne
<1> HIDE DEF v
<1> QED
  BY <1>3, <1>4, <1>5, <1>6, ArrayTyped

(* The operators of the host that move elements read them inside their sources, or refuse. *)
LEMMA MovesTyped ==
  ASSUME NEW n \in NodeType, NEW s, SourceArrays(s), Len(s) \in Nat, Len(s) >= 1, n.op \in MoveOps,
         n.op \in {"CONCAT", "GET_ROWS"} => Len(s) >= 2
  PROVE  Typed(MoveResult(n, s))
<1> DEFINE a == s[1]  b == s[2]  p == n.p  nd == Len(s[1].ne)  dims == n.dst.ne
           g == 1 + (p[1] % nd)
           f == <<n.dst.ne[1] \div a.ne[1], n.dst.ne[2] \div a.ne[2]>>
           rows == Array([a.ne EXCEPT ![nd] = Len(b.v)],
                         LAMBDA c : At(a, [c EXCEPT ![nd] = b.v[@ + 1] % a.ne[nd]]))
           refused == \/ p[1] \notin 0..(2 * nd - 1) \/ Len(b.ne) # nd
                      \/ \E d \in 1..nd \ {g} : a.ne[d] # b.ne[d]
           outside == \E i \in DOMAIN b.v : b.v[i] \notin (-a.ne[nd])..(a.ne[nd] - 1)
           negative == \E i \in (5 - nd)..4 : p[i] < 0
           fill == IF n.op = "DIAG_MASK_INF" THEN NegInf ELSE 0
<1>1. Source(a) /\ (n.op \in {"CONCAT", "GET_ROWS"} => Source(b))
  <2>1. 1 \in 1..Len(s) /\ (n.op \in {"CONCAT", "GET_ROWS"} => 2 \in 1..Len(s))
    OBVIOUS
  <2> QED
    BY <2>1, Zenon DEF SourceArrays
<1>2. \A i \in 1..7 : p[i] \in Int
  BY Params
<1>3. nd = Len(a.ne) /\ nd \in 1..4 /\ a.ne \in Seq(Nat) /\ \A d \in 1..nd : a.ne[d] \in Nat
  BY <1>1, SourceDims
<1>18. nd \in 1..4
  BY <1>3
<1>4. n.dst \in TensorType /\ \A d \in 1..4 : dims[d] \in Nat
  BY TensorDims DEF NodeType
<1> HIDE DEF a, b, p, dims, nd
<1>15. g \in 1..nd
  <2>1. \A x \in Int, y \in Nat : y > 0 => 1 + (x % y) \in 1..y
    OBVIOUS
  <2>2. nd \in Nat /\ nd > 0
    BY <1>18
  <2>3. p[1] \in Int
    BY <1>2
  <2> QED
    BY <2>1, <2>2, <2>3
<1>16. 5 - nd \in Int /\ \A i \in (5 - nd)..4 : i \in 1..7
  BY <1>18
<1>17. \A d \in 1..nd : d \in 1..(4 - (5 - nd) + 1) /\ (5 - nd) + d - 1 \in (5 - nd)..4
  BY <1>18
<1>5. Typed(Ok(a))
  BY <1>1, TypedOk DEF Source
<1>6. Typed(Unless(\E d \in 1..nd : a.ne[d] = 0 /\ d > nd - NDim(n.dst), Ok(Tiled(a, Shape(n.dst)))))
  <2> SUFFICES ASSUME ~(\E d \in 1..nd : a.ne[d] = 0 /\ d > nd - NDim(n.dst)) PROVE Typed(Ok(Tiled(a, Shape(n.dst))))
    BY TypedUnless
  <2> DEFINE ne == Shape(n.dst)
  <2>1. ne \in Seq(Nat) /\ Len(ne) = NDim(n.dst) /\ Len(ne) \in 1..4
    <3>1. ne \in [1..NDim(n.dst) -> Nat] /\ NDim(n.dst) \in 1..4 /\ Len(ne) = NDim(n.dst)
      BY <1>4, Shapes
    <3> HIDE DEF ne
    <3> QED
      BY <3>1
  <2>2. \A d \in 1..Len(a.ne) : d > Len(a.ne) - Len(ne) => a.ne[d] # 0
    BY <1>3, <2>1
  <2> QED
    BY <1>1, <2>1, <2>2, TiledTyped, TypedOk
<1>7. n.op = "CONCAT" => Typed(Unless(refused, Ok(Concat(a, b, g))))
  <2> SUFFICES ASSUME n.op = "CONCAT", ~refused PROVE Typed(Ok(Concat(a, b, g)))
    BY TypedUnless
  <2>1. g \in 1..nd
    BY <1>15
  <2> HIDE DEF g
  <2>2. Len(b.ne) = Len(a.ne) /\ \A d \in 1..Len(a.ne) : d # g => a.ne[d] = b.ne[d]
    BY <1>3
  <2> QED
    BY <1>1, <1>3, <2>1, <2>2, ConcatTyped, TypedOk
<1>8. Typed(Unless(negative, Ok(Padded(a, SubSeq(p, 5 - nd, 4)))))
  <2> SUFFICES ASSUME ~negative PROVE Typed(Ok(Padded(a, SubSeq(p, 5 - nd, 4))))
    BY TypedUnless
  <2> DEFINE q == SubSeq(p, 5 - nd, 4)
  <2>1. \A d \in 1..Len(a.ne) : q[d] \in Nat

    <3>1. \A i \in (5 - nd)..4 : p[i] \in Nat
      <4> TAKE i \in (5 - nd)..4
      <4>1. i \in 1..7
        BY <1>16
      <4>2. p[i] \in Int /\ ~(p[i] < 0)
        BY <1>2, <4>1
      <4> QED
        BY <4>2
    <3>2. 5 - nd \in Int /\ 4 \in Int
      BY <1>16
    <3>3. \A i \in 1..(4 - (5 - nd) + 1) : q[i] = p[(5 - nd) + i - 1]
      BY <3>1, <3>2, SubSeqProperties
    <3> HIDE DEF q
    <3>4. Len(a.ne) = nd
      BY <1>3
    <3> QED
      BY <1>17, <3>1, <3>3, <3>4
  <2> HIDE DEF q
  <2> QED
    BY <1>1, <2>1, PaddedTyped, TypedOk DEF q
<1>9. n.op = "GET_ROWS" => Typed(Unless(outside, Ok(rows)))
  <2> SUFFICES ASSUME n.op = "GET_ROWS", ~outside PROVE Typed(Ok(rows))
    BY TypedUnless
  <2>1. Source(a) /\ Source(b) /\ nd \in 1..Len(a.ne)
        /\ \A i \in DOMAIN b.v : b.v[i] \in (-a.ne[nd])..(a.ne[nd] - 1)
    <3>1. \A i \in DOMAIN b.v : b.v[i] \in (-a.ne[nd])..(a.ne[nd] - 1)
      BY Zenon
    <3>2. nd \in 1..Len(a.ne)
      <4>1. nd \in 1..nd
        BY <1>18
      <4>2. nd = Len(a.ne)
        BY <1>3
      <4> QED
        BY <4>1, <4>2, Zenon
    <3> QED
      BY <1>1, <3>1, <3>2

  <2>2. IntArray(rows)
    BY <2>1, TakenTyped, Zenon DEF Array
  <2> QED
    BY <2>2, TypedOk
<1>10. Typed(Unless(~Broadcastable(Square(a), a.ne), Ok(Masked(a, p[1], fill))))
  <2>1. fill \in Int
    BY DEF NegInf
  <2> HIDE DEF fill
  <2> QED
    BY <1>1, <2>1, MaskedTyped, TypedOk, TypedUnless
<1>11. nd >= 2 /\ ~(\E d \in 1..2 : a.ne[d] = 0) => Typed(Ok(Repeated(a, f)))
  <2> SUFFICES ASSUME nd >= 2, ~(\E d \in 1..2 : a.ne[d] = 0) PROVE Typed(Ok(Repeated(a, f)))
    OBVIOUS
  <2>1. f[1] \in Nat /\ f[2] \in Nat
    <3>1. \A x \in Nat, y \in Nat : y > 0 => x \div y \in Nat
      OBVIOUS
    <3>2. a.ne[1] > 0 /\ a.ne[2] > 0 /\ a.ne[1] \in Nat /\ a.ne[2] \in Nat
      <4>1. 1 \in 1..nd /\ 2 \in 1..nd
        BY <1>18
      <4>2. \A d \in 1..nd : a.ne[d] \in Nat
        BY <1>3
      <4>3. a.ne[1] \in Nat /\ a.ne[2] \in Nat
        BY <4>1, <4>2
      <4>4. a.ne[1] # 0 /\ a.ne[2] # 0
        OBVIOUS
      <4> QED
        BY <4>3, <4>4
    <3>3. f[1] = dims[1] \div a.ne[1] /\ f[2] = dims[2] \div a.ne[2]
      BY DEF dims
    <3>4. dims[1] \in Nat /\ dims[2] \in Nat
      BY <1>4
    <3> HIDE DEF f
    <3> QED
      BY <3>1, <3>2, <3>3, <3>4
  <2> HIDE DEF f
  <2> QED
    BY <1>1, <2>1, RepeatedTyped, TypedOk
<1> HIDE DEF rows, refused, outside, negative, fill
<1>12. MoveResult(n, s) =
         CASE n.op \in {"DUP", "CPY", "CONT"} -> Ok(a)
           [] n.op = "REPEAT" -> Unless(\E d \in 1..nd : a.ne[d] = 0 /\ d > nd - NDim(n.dst), Ok(Tiled(a, Shape(n.dst))))
           [] n.op = "CONCAT" -> Unless(refused, Ok(Concat(a, b, g)))
           [] n.op = "PAD" -> Unless(negative, Ok(Padded(a, SubSeq(p, 5 - nd, 4))))
           [] n.op = "GET_ROWS" -> Unless(outside, Ok(rows))
           [] n.op \in {"DIAG_MASK_INF", "DIAG_MASK_ZERO"} ->
                Unless(~Broadcastable(Square(a), a.ne), Ok(Masked(a, p[1], fill)))
           [] OTHER -> (IF nd < 2 \/ \E d \in 1..2 : a.ne[d] = 0 THEN Raises
                        ELSE IF \/ p[1] % 256 # 0
                                \/ \E d \in 1..2 : f[d] = 0 \/ n.dst.ne[d] % a.ne[d] # 0
                             THEN NotImplemented ELSE Ok(Repeated(a, f)))
  BY Zenon DEF MoveResult, a, b, p, nd, rows, refused, outside, negative, fill
<1>13. ~(nd < 2) <=> nd >= 2
  BY <1>3
<1> HIDE DEF g, f
<1>14. /\ Typed(Unless(\E d \in 1..nd : a.ne[d] = 0 /\ d > nd - NDim(n.dst), Ok(Tiled(a, Shape(n.dst)))))
       /\ (nd < 2 \/ \E d \in 1..2 : a.ne[d] = 0) \/ Typed(Ok(Repeated(a, f)))
  BY <1>6, <1>11, <1>13, Zenon
<1> QED
  BY <1>5, <1>7, <1>8, <1>9, <1>10, <1>12, <1>14, TypedRefused, Zenon

-----------------------------------------------------------------------------
(* Sliding windows. *)

(* An array of four dimensions. *)
Four(a) == IntArray(a) /\ a.ne \in [1..4 -> Nat]

(* The four-dimensional view of an array of fewer dimensions. *)
LEMMA Rank4Typed ==
  ASSUME NEW a, Source(a)
  PROVE  Four(Rank4(a)) /\ \A d \in 1..4 : Rank4(a).ne[d] = Dim(a.ne, d)
<1> DEFINE x == a.ne  k == Len(a.ne)
           ones == [d \in 1..(4 - Len(a.ne)) |-> 1]
           y == [d \in 1..4 |-> IF d <= k THEN x[d] ELSE 1]
<1>1. x \in Seq(Nat) /\ Len(x) = k /\ k \in 1..4
  BY SourceDims
<1>2. x \o ones = y
  <2>1. ones = [d \in 1..(4 - k) |-> 1]
    OBVIOUS
  <2> HIDE DEF x, k, ones
  <2>2. ones \in Seq(Nat) /\ Len(ones) = 4 - k /\ \A d \in 1..(4 - k) : ones[d] = 1
    <3>1. 4 - k \in Nat
      BY <1>1
    <3>2. ones \in [1..(4 - k) -> Nat]
      BY <2>1
    <3>3. ones \in Seq(Nat) /\ Len(ones) = 4 - k
      BY <3>1, <3>2
    <3> QED
      BY <2>1, <3>3
  <2>3. (x \o ones) = [d \in 1..4 |-> IF d <= k THEN x[d] ELSE ones[d - k]]
    BY <1>1, <2>2, FilledUp
  <2>4. \A d \in 1..4 : (IF d <= k THEN x[d] ELSE ones[d - k]) = (IF d <= k THEN x[d] ELSE 1)
    BY <1>1, <2>2
  <2> QED
    BY <2>3, <2>4, Zenon
<1>3. y \in Seq(Nat) /\ y \in [1..4 -> Nat] /\ Len(y) = 4
      /\ \A d \in 1..4 : y[d] = Dim(x, d) /\ Dim(y, d) = Dim(x, d)
  <2> HIDE DEF x, k
  <2>1. y \in [1..4 -> Nat]
    BY <1>1
  <2>2. DOMAIN x = 1..k
    BY <1>1
  <2>3. \A d \in 1..4 : y[d] = Dim(x, d)
    BY <1>1, <2>2 DEF Dim
  <2> HIDE DEF y
  <2>4. y \in Seq(Nat) /\ DOMAIN y = 1..4
    BY <2>1, IntoSeq
  <2>5. Len(y) = 4
    BY <2>4
  <2> QED
    BY <2>1, <2>3, <2>4, <2>5 DEF Dim
<1> HIDE DEF y, ones
<1>4. Elems(y) = Elems(a.ne)
  <2> HIDE DEF x, k
  <2> QED
    <3>1. x \in Seq(Nat) /\ y \in Seq(Nat) /\ Len(x) \in 0..4 /\ Len(y) \in 0..4
      BY <1>1, <1>3
    <3>2. \A d \in 1..4 : Dim(y, d) = Dim(x, d)
      BY <1>3
    <3>3. Elems(y) = Elems(x)
      BY <3>1, <3>2, SameVolume
    <3> QED
      BY <3>3 DEF x
<1>5. IntArray(Reshaped(a, y)) /\ Reshaped(a, y).ne = y
  BY <1>3, <1>4, ReshapedTyped DEF Source
<1>6. Rank4(a) = Reshaped(a, y)
  BY <1>2, Zenon DEF Rank4, ones
<1> QED
  BY <1>3, <1>5, <1>6, Zenon DEF Four

(* Four dimensions, and the coordinates of an element of them. *)
LEMMA FourCoord ==
  ASSUME NEW p \in Nat, NEW q \in Nat, NEW r \in Nat, NEW t \in Nat
  PROVE  /\ <<p, q, r, t>> \in Seq(Nat)
         /\ \A k \in 1..Elems(<<p, q, r, t>>) :
              LET c == Coord(<<p, q, r, t>>, k - 1)
              IN c[1] \in 0..(p - 1) /\ c[2] \in 0..(q - 1) /\ c[3] \in 0..(r - 1) /\ c[4] \in 0..(t - 1)
<1> DEFINE ne == <<p, q, r, t>>
<1>1. ne \in Seq(Nat) /\ DOMAIN ne = 1..4 /\ ne[1] = p /\ ne[2] = q /\ ne[3] = r /\ ne[4] = t
  OBVIOUS
<1> HIDE DEF ne
<1>2. ASSUME NEW k \in 1..Elems(ne)
      PROVE  LET c == Coord(ne, k - 1)
             IN c[1] \in 0..(p - 1) /\ c[2] \in 0..(q - 1) /\ c[3] \in 0..(r - 1) /\ c[4] \in 0..(t - 1)
  <2> DEFINE c == Coord(ne, k - 1)
  <2>1. Within(ne, c)
    BY <1>1, CoordWithin
  <2> HIDE DEF c
  <2>2. \A d \in 1..4 : c[d] \in 0..(ne[d] - 1)
    BY <1>1, <2>1 DEF Within
  <2>3. c[1] \in 0..(p - 1) /\ c[2] \in 0..(q - 1) /\ c[3] \in 0..(r - 1) /\ c[4] \in 0..(t - 1)
    BY <1>1, <2>2
  <2> QED
    BY <2>3 DEF c
<1> QED
  BY <1>1, <1>2 DEF ne

(* An element of an array of four dimensions. *)
LEMMA FourAt ==
  ASSUME NEW a, Four(a), NEW c, DOMAIN c = 1..4, \A d \in 1..4 : c[d] \in 0..(a.ne[d] - 1)
  PROVE  At(a, c) \in Int
<1> DEFINE ne == a.ne
<1>1. DOMAIN ne = 1..4
  BY DEF Four
<1>2. Within(ne, c)
  BY <1>1 DEF Within
<1> QED
  BY <1>2, AtTyped DEF Four

(* A padded image is read anywhere in two dimensions. *)
LEMMA PaddedAtTyped ==
  ASSUME NEW b, Four(b), NEW x \in Int, NEW y \in Int, NEW p, p[1] \in Int, p[2] \in Int, NEW fill \in Int,
         NEW z \in 0..(b.ne[3] - 1), NEW w \in 0..(b.ne[4] - 1)
  PROVE  PaddedAt(b, <<x, y, z, w>>, p, fill) \in Int
<1> DEFINE c == <<x, y, z, w>>
           q == <<c[1] - p[1], c[2] - p[2], c[3], c[4]>>
           inside == c[1] - p[1] \in 0..(b.ne[1] - 1) /\ c[2] - p[2] \in 0..(b.ne[2] - 1)
<1>1. ASSUME inside PROVE At(b, q) \in Int
  <2>1. DOMAIN q = 1..4 /\ q[1] = c[1] - p[1] /\ q[2] = c[2] - p[2] /\ q[3] = z /\ q[4] = w
    OBVIOUS
  <2> HIDE DEF q, c
  <2>2. \A d \in 1..4 : q[d] \in 0..(b.ne[d] - 1)
    <3>1. q[1] \in 0..(b.ne[1] - 1)
      BY <1>1, <2>1
    <3>2. q[2] \in 0..(b.ne[2] - 1)
      BY <1>1, <2>1
    <3>3. q[3] \in 0..(b.ne[3] - 1) /\ q[4] \in 0..(b.ne[4] - 1)
      BY <2>1
    <3>4. \A d \in 1..4 : d = 1 \/ d = 2 \/ d = 3 \/ d = 4
      OBVIOUS
    <3> QED
      BY <3>1, <3>2, <3>3, <3>4
  <2> QED
    BY <2>1, <2>2, FourAt
<1>2. PaddedAt(b, c, p, fill) = IF inside THEN At(b, q) ELSE fill
  BY Zenon DEF PaddedAt
<1> HIDE DEF inside, q, c
<1>3. PaddedAt(b, c, p, fill) \in Int
  BY <1>1, <1>2
<1> QED
  BY <1>3 DEF c

(* The position of a tap in its window: column, row and channel. *)
LEMMA TapPlace ==
  ASSUME NEW kw \in Nat, NEW kh \in Nat, NEW l \in Nat, NEW i \in 1..(kw * kh * l)
  PROVE  /\ kw * kh # 0 /\ kw # 0 /\ kh # 0
         /\ (i - 1) % kw \in 0..(kw - 1) /\ ((i - 1) \div kw) % kh \in 0..(kh - 1)
         /\ 1 + (i - 1) \div (kw * kh) \in 1..l
<1> DEFINE a == kw * kh  x == i - 1
<1>1. a \in Nat /\ x \in Nat /\ x < a * l
  <2>1. \A p, q \in Nat : p * q \in Nat
    OBVIOUS
  <2>2. a \in Nat /\ a * l \in Nat
    BY <2>1
  <2> HIDE DEF a
  <2>3. i \in 1..(a * l)
    BY DEF a
  <2> QED
    BY <2>2, <2>3
<1>2. a > 0
  <2> HIDE DEF a, x
  <2> QED
    BY <1>1
<1>3. kw > 0 /\ kh > 0
  <2>1. \A p, q \in Nat : p * q > 0 => p > 0 /\ q > 0
    OBVIOUS
  <2> QED
    BY <1>2, <2>1
<1>4. x % kw \in 0..(kw - 1) /\ x \div kw \in Nat
  <2> HIDE DEF x, a
  <2> QED
    BY <1>1, <1>3
<1>5. (x \div kw) % kh \in 0..(kh - 1)
  <2> DEFINE y == x \div kw
  <2> HIDE DEF y
  <2>1. y % kh \in 0..(kh - 1)
    BY <1>3, <1>4 DEF y
  <2> QED
    BY <2>1 DEF y
<1>6. x \div a \in 0..(l - 1)
  <2> HIDE DEF x, a
  <2> DEFINE u == x \div a
  <2>1. u \in Nat /\ a * u <= x
    BY <1>1, <1>2
  <2> HIDE DEF u
  <2>2. a * u < a * l
    BY <1>1, <2>1
  <2>3. \A p, q, r \in Nat : p > 0 /\ p * q < p * r => q < r
    OBVIOUS
  <2>4. u < l
    BY <1>1, <1>2, <2>1, <2>2, <2>3
  <2> QED
    BY <2>1, <2>4 DEF u
<1>7. 1 + x \div a \in 1..l
  <2> DEFINE u == x \div a
  <2> HIDE DEF u
  <2>1. 1 + u \in 1..l
    BY <1>6 DEF u
  <2> QED
    BY <2>1 DEF u
<1> QED
  BY <1>2, <1>3, <1>4, <1>5, <1>7

(* The channels that a window over an array reads. *)
Reads(g, chans, b) ==
  /\ g.k[1] \in Nat /\ g.k[2] \in Nat
  /\ Len(chans) \in Nat
  /\ g.k[1] * g.k[2] # 0 => \A i \in 1..Len(chans) : chans[i] \in 0..(b.ne[3] - 1)

(* The window at a place of the output. *)
LEMMA PatchTyped ==
  ASSUME NEW b, Four(b), NEW g, NEW chans, Reads(g, chans, b),
         \A d \in {1, 2} : g.s[d] \in Int /\ g.p[d] \in Int /\ g.d[d] \in Int,
         NEW x \in Int, NEW y \in Int, NEW w \in 0..(b.ne[4] - 1), NEW fill \in Int
  PROVE  LET r == Patch(b, g, chans, <<x, y, w>>, fill)
         IN DOMAIN r = 1..(g.k[1] * g.k[2] * Len(chans))
            /\ \A i \in 1..(g.k[1] * g.k[2] * Len(chans)) : r[i] \in Int
<1> DEFINE o == <<x, y, w>>  kw == g.k[1]  kh == g.k[2]  l == Len(chans)
           Col(i) == o[1] * g.s[1] + ((i - 1) % kw) * g.d[1]
           Down(i) == o[2] * g.s[2] + (((i - 1) \div kw) % kh) * g.d[2]
           Chan(i) == chans[1 + (i - 1) \div (kw * kh)]
           r == [i \in 1..(kw * kh * l) |-> PaddedAt(b, <<Col(i), Down(i), Chan(i), o[3]>>, g.p, fill)]
<1>1. kw \in Nat /\ kh \in Nat /\ l \in Nat
  BY DEF Reads
<1>2. ASSUME NEW i \in 1..(kw * kh * l) PROVE r[i] \in Int
  <2>1. /\ kw * kh # 0 /\ kw # 0 /\ kh # 0
        /\ (i - 1) % kw \in 0..(kw - 1) /\ ((i - 1) \div kw) % kh \in 0..(kh - 1)
        /\ 1 + (i - 1) \div (kw * kh) \in 1..l
    <3> HIDE DEF kw, kh, l
    <3> QED
      BY <1>1, TapPlace
  <2> DEFINE e == (i - 1) % kw  f == ((i - 1) \div kw) % kh  h == 1 + (i - 1) \div (kw * kh)
  <2>2. e \in Int /\ f \in Int /\ h \in 1..l /\ kw * kh # 0
    <3> HIDE DEF e, f, h, l
    <3>1. e \in 0..(kw - 1) /\ f \in 0..(kh - 1) /\ h \in 1..l /\ kw * kh # 0
      BY <2>1 DEF e, f, h
    <3> QED
      BY <3>1
  <2>3. Chan(i) \in 0..(b.ne[3] - 1)
    <3>1. kw * kh # 0 => \A j \in 1..l : chans[j] \in 0..(b.ne[3] - 1)
      BY DEF Reads
    <3> HIDE DEF h, l
    <3>2. chans[h] \in 0..(b.ne[3] - 1)
      BY <2>2, <3>1
    <3> QED
      BY <3>2 DEF h
  <2>4. Col(i) \in Int /\ Down(i) \in Int
    <3>1. Col(i) = x * g.s[1] + e * g.d[1] /\ Down(i) = y * g.s[2] + f * g.d[2]
      OBVIOUS
    <3>2. \A p, q, u, z \in Int : p * q + u * z \in Int
      OBVIOUS
    <3> HIDE DEF e, f
    <3>3. g.s[1] \in Int /\ g.d[1] \in Int /\ g.s[2] \in Int /\ g.d[2] \in Int
      OBVIOUS
    <3>4. x * g.s[1] + e * g.d[1] \in Int /\ y * g.s[2] + f * g.d[2] \in Int
      BY <2>2, <3>2, <3>3
    <3> QED
      BY <3>1, <3>4, Zenon
  <2> DEFINE c1 == Col(i)  c2 == Down(i)  c3 == Chan(i)
  <2>5. r[i] = PaddedAt(b, <<c1, c2, c3, w>>, g.p, fill)
    OBVIOUS
  <2> HIDE DEF c1, c2, c3, r
  <2>6. PaddedAt(b, <<c1, c2, c3, w>>, g.p, fill) \in Int
    <3>1. c1 \in Int /\ c2 \in Int /\ c3 \in 0..(b.ne[3] - 1)
      BY <2>3, <2>4, Zenon DEF c1, c2, c3
    <3>2. g.p[1] \in Int /\ g.p[2] \in Int
      OBVIOUS
    <3> DEFINE pad == g.p
    <3>3. pad[1] \in Int /\ pad[2] \in Int
      BY <3>2
    <3> HIDE DEF pad
    <3>4. PaddedAt(b, <<c1, c2, c3, w>>, pad, fill) \in Int
      BY <3>1, <3>3, PaddedAtTyped
    <3> QED
      BY <3>4 DEF pad
  <2> QED
    BY <2>5, <2>6
<1>3. DOMAIN r = 1..(kw * kh * l)
  OBVIOUS
<1>4. Patch(b, g, chans, o, fill) = r
  BY Zenon DEF Patch
<1> HIDE DEF r
<1> QED
  BY <1>2, <1>3, <1>4, Zenon

(* The weights of a kernel. *)
LEMMA TapsTyped ==
  ASSUME NEW a, Four(a), NEW g, g.k[1] = a.ne[1], g.k[2] = a.ne[2], NEW chans, Reads(g, chans, a), NEW kernel,
         g.k[1] * g.k[2] # 0 => kernel \in 0..(a.ne[4] - 1)
  PROVE  LET r == Taps(a, g, chans, kernel)
         IN DOMAIN r = 1..(g.k[1] * g.k[2] * Len(chans))
            /\ \A i \in 1..(g.k[1] * g.k[2] * Len(chans)) : r[i] \in Int
<1> DEFINE kw == g.k[1]  kh == g.k[2]  l == Len(chans)
           C(i) == <<(i - 1) % kw, ((i - 1) \div kw) % kh, chans[1 + (i - 1) \div (kw * kh)], kernel>>
           r == [i \in 1..(kw * kh * l) |-> At(a, C(i))]
<1>1. kw \in Nat /\ kh \in Nat /\ l \in Nat
  BY DEF Reads
<1>2. ASSUME NEW i \in 1..(kw * kh * l) PROVE r[i] \in Int
  <2>1. /\ kw * kh # 0
        /\ (i - 1) % kw \in 0..(kw - 1) /\ ((i - 1) \div kw) % kh \in 0..(kh - 1)
        /\ 1 + (i - 1) \div (kw * kh) \in 1..l
    <3> HIDE DEF kw, kh, l
    <3> QED
      BY <1>1, TapPlace
  <2> DEFINE e == (i - 1) % kw  f == ((i - 1) \div kw) % kh  h == 1 + (i - 1) \div (kw * kh)
  <2>2. chans[h] \in 0..(a.ne[3] - 1)
    <3>1. kw * kh # 0 => \A j \in 1..l : chans[j] \in 0..(a.ne[3] - 1)
      BY DEF Reads
    <3>2. h \in 1..l
      BY <2>1
    <3> HIDE DEF h, l, kw, kh
    <3> QED
      BY <2>1, <3>1, <3>2
  <2> DEFINE c == <<e, f, chans[h], kernel>>
  <2>3. DOMAIN c = 1..4 /\ c[1] = e /\ c[2] = f /\ c[3] = chans[h] /\ c[4] = kernel
    OBVIOUS
  <2>4. e \in 0..(kw - 1) /\ f \in 0..(kh - 1) /\ kw * kh # 0
    BY <2>1
  <2>5. r[i] = At(a, c)
    OBVIOUS
  <2> HIDE DEF c, e, f, h, r
  <2>6. \A d \in 1..4 : c[d] \in 0..(a.ne[d] - 1)
    <3>1. c[1] \in 0..(a.ne[1] - 1) /\ c[2] \in 0..(a.ne[2] - 1)
      BY <2>3, <2>4
    <3>2. c[3] \in 0..(a.ne[3] - 1) /\ c[4] \in 0..(a.ne[4] - 1)
      BY <2>2, <2>3, <2>4
    <3>3. \A d \in 1..4 : d = 1 \/ d = 2 \/ d = 3 \/ d = 4
      OBVIOUS
    <3> QED
      BY <3>1, <3>2, <3>3
  <2>7. At(a, c) \in Int
    BY <2>3, <2>6, FourAt
  <2> QED
    BY <2>5, <2>7
<1>3. DOMAIN r = 1..(kw * kh * l)
  OBVIOUS
<1>4. Taps(a, g, chans, kernel) = r
  BY Zenon DEF Taps
<1> HIDE DEF r
<1> QED
  BY <1>2, <1>3, <1>4, Zenon

(* A window of numbers. *)
Geometry(g) == \A d \in {1, 2} : g.k[d] \in Nat /\ g.s[d] \in Int /\ g.p[d] \in Int /\ g.d[d] \in Int

(* The output of a window that NumPy accepts. *)
LEMMA OutputDims ==
  ASSUME NEW b, Four(b), NEW g, Geometry(g), Slides(g, b)
  PROVE  OutDim(g, b, 1) \in Nat /\ OutDim(g, b, 2) \in Nat
<1>1. ASSUME NEW i \in {1, 2} PROVE OutDim(g, b, i) \in Nat
  <2> DEFINE x == b.ne[i]  p == g.p[i]  d == g.d[i]  k == g.k[i]  s == g.s[i]
  <2>1. x \in Int /\ p \in Int /\ d \in Int /\ k \in Int /\ s \in Int
    <3> DEFINE ne == b.ne
    <3>1. ne \in [1..4 -> Nat]
      BY DEF Four
    <3> HIDE DEF ne
    <3>2. ne[i] \in Int
      BY <3>1
    <3> QED
      BY <3>2 DEF ne, Geometry
  <2>2. i \in 1..2
    OBVIOUS
  <2>3. s > 0 /\ OutDim(g, b, i) >= 0
    BY <2>2 DEF Slides
  <2>4. OutDim(g, b, i) = (x + 2 * p - d * (k - 1) - 1) \div s + 1
    BY DEF OutDim
  <2> HIDE DEF x, p, d, k, s
  <2>5. \A y, z \in Int : y * z \in Int
    OBVIOUS
  <2>6. d * (k - 1) \in Int
    BY <2>1, <2>5
  <2> DEFINE y == d * (k - 1)
  <2> HIDE DEF y
  <2>7. \A z \in Int : z \div s + 1 \in Int
    BY <2>1, <2>3
  <2>8. x + 2 * p - y - 1 \in Int
    BY <2>1, <2>6 DEF y
  <2>9. (x + 2 * p - y - 1) \div s + 1 \in Int
    BY <2>7, <2>8
  <2>10. OutDim(g, b, i) \in Int
    BY <2>4, <2>9, Zenon DEF y
  <2> QED
    BY <2>3, <2>10
<1> QED
  BY <1>1

(* A single channel stands for any number of them. *)
LEMMA ChannelsWithin ==
  ASSUME NEW b, Four(b), NEW depth \in Nat, depth = b.ne[3] \/ b.ne[3] = 1
  PROVE  /\ Len(Channels(b, depth)) = depth
         /\ \A i \in 1..Len(Channels(b, depth)) : Channels(b, depth)[i] \in 0..(b.ne[3] - 1)
<1> DEFINE w == b.ne[3]
           r == [i \in 1..depth |-> Min({i, w}) - 1]
<1>1. w \in Nat
  <2> DEFINE ne == b.ne
  <2>1. ne \in [1..4 -> Nat]
    BY DEF Four
  <2> HIDE DEF ne
  <2>2. ne[3] \in Nat
    BY <2>1
  <2> QED
    BY <2>2 DEF ne
<1>2. depth = w \/ w = 1
  OBVIOUS
<1>3. Channels(b, depth) = r
  BY DEF Channels
<1> HIDE DEF w
<1>4. ASSUME NEW i \in 1..depth PROVE r[i] \in 0..(w - 1)
  <2>1. {i, w} \in SUBSET (1..(i + w)) /\ {i, w} # {}
    BY <1>1, <1>2
  <2>2. i + w \in Nat
    BY <1>1
  <2>3. Min({i, w}) \in {i, w} /\ \A x \in {i, w} : Min({i, w}) <= x
    BY <2>1, <2>2, MinInSet
  <2>4. Min({i, w}) \in 1..w
    BY <1>1, <1>2, <2>3
  <2> QED
    BY <1>1, <2>4
<1>5. r = [i \in 1..depth |-> r[i]]
  OBVIOUS
<1> HIDE DEF r
<1>6. Len(r) = depth
  BY <1>5, VectorIsSeq
<1> QED
  BY <1>3, <1>4, <1>6 DEF w

(* im2col: one column for each place of the window. *)
LEMMA Im2ColTyped ==
  ASSUME NEW b, Four(b), NEW g, Geometry(g), Slides(g, b)
  PROVE  IntArray(Im2Col(g, b))
<1> DEFINE z == b.ne[3]  w == b.ne[4]  m == g.k[1] * g.k[2]  o1 == OutDim(g, b, 1)  o2 == OutDim(g, b, 2)
           chans == Channels(b, z)
           ne == <<m * z, o1, o2, w>>
           v == [k \in 1..Elems(ne) |->
                   Patch(b, g, chans, <<Coord(ne, k - 1)[2], Coord(ne, k - 1)[3], Coord(ne, k - 1)[4]>>, 0)
                     [Coord(ne, k - 1)[1] + 1]]
<1>1. z \in Nat /\ w \in Nat
  <2> DEFINE dims == b.ne
  <2>1. dims \in [1..4 -> Nat]
    BY DEF Four
  <2> HIDE DEF dims
  <2>2. dims[3] \in Nat /\ dims[4] \in Nat
    BY <2>1
  <2> QED
    BY <2>2 DEF dims
<1>2. m \in Nat /\ m * z \in Nat
  <2>1. \A x, y \in Nat : x * y \in Nat
    OBVIOUS
  <2>2. g.k[1] \in Nat /\ g.k[2] \in Nat
    BY DEF Geometry
  <2>3. m \in Nat
    BY <2>1, <2>2
  <2> HIDE DEF m, z
  <2> QED
    BY <1>1, <2>1, <2>3
<1>3. o1 \in Nat /\ o2 \in Nat
  BY OutputDims
<1>4. Len(chans) = z /\ Reads(g, chans, b)
  <2>1. Len(chans) = z /\ \A i \in 1..Len(chans) : chans[i] \in 0..(b.ne[3] - 1)
    BY <1>1, ChannelsWithin
  <2>2. g.k[1] \in Nat /\ g.k[2] \in Nat
    BY DEF Geometry
  <2> HIDE DEF chans
  <2> QED
    BY <1>1, <2>1, <2>2 DEF Reads
<1>5. \A d \in {1, 2} : g.s[d] \in Int /\ g.p[d] \in Int /\ g.d[d] \in Int
  BY DEF Geometry
<1> HIDE DEF z, chans, o1, o2
<1>6. /\ ne \in Seq(Nat)
      /\ \A k \in 1..Elems(ne) :
           LET c == Coord(ne, k - 1)
           IN c[1] \in 0..(m * z - 1) /\ c[2] \in 0..(o1 - 1) /\ c[3] \in 0..(o2 - 1) /\ c[4] \in 0..(w - 1)
  <2> DEFINE mz == m * z
  <2> HIDE DEF w, mz
  <2> QED
    BY <1>1, <1>2, <1>3, FourCoord DEF mz
<1> HIDE DEF ne
<1>7. ASSUME NEW k \in 1..Elems(ne) PROVE v[k] \in Int
  <2> DEFINE c == Coord(ne, k - 1)  x == c[2]  y == c[3]  t == c[4]  e == c[1] + 1
             r == Patch(b, g, chans, <<x, y, t>>, 0)
  <2>1. x \in Int /\ y \in Int /\ t \in 0..(b.ne[4] - 1) /\ e \in 1..(m * z)
    <3> DEFINE mz == m * z
    <3>1. c[1] \in 0..(mz - 1) /\ x \in 0..(o1 - 1) /\ y \in 0..(o2 - 1) /\ t \in 0..(w - 1)
      BY <1>6
    <3>2. mz \in Nat
      BY <1>2
    <3> HIDE DEF c, mz
    <3>3. e \in 1..mz
      BY <3>1, <3>2
    <3>4. x \in Int /\ y \in Int
      BY <3>1
    <3> QED
      BY <3>1, <3>3, <3>4 DEF mz
  <2>2. v[k] = r[e]
    OBVIOUS
  <2> HIDE DEF c, x, y, t, e, v
  <2>3. \A i \in 1..(g.k[1] * g.k[2] * Len(chans)) : r[i] \in Int
    BY <1>4, <1>5, <2>1, PatchTyped
  <2> HIDE DEF r
  <2>4. g.k[1] * g.k[2] * Len(chans) = m * z
    BY <1>4
  <2>5. r[e] \in Int
    BY <2>1, <2>3, <2>4, Zenon
  <2> QED
    BY <2>2, <2>5
<1>8. v = [k \in 1..Elems(ne) |-> v[k]]
  OBVIOUS
<1>9. Im2Col(g, b) = [ne |-> ne, v |-> v]
  BY Zenon DEF Im2Col, Array, ne, chans, z, o1, o2
<1> HIDE DEF v
<1> QED
  BY <1>6, <1>7, <1>8, <1>9, ArrayTyped

(* The product of a window and a kernel over the same channels. *)
LEMMA WindowDot ==
  ASSUME NEW a, Four(a), NEW b, Four(b), NEW g, Geometry(g), g.k[1] = a.ne[1], g.k[2] = a.ne[2],
         NEW chans, Reads(g, chans, b), NEW taps, Reads(g, taps, a), Len(taps) = Len(chans),
         NEW x \in Int, NEW y \in Int, NEW w \in 0..(b.ne[4] - 1), NEW kernel,
         g.k[1] * g.k[2] # 0 => kernel \in 0..(a.ne[4] - 1)
  PROVE  Dot(Patch(b, g, chans, <<x, y, w>>, 0), Taps(a, g, taps, kernel)) \in Int
<1> DEFINE p == Patch(b, g, chans, <<x, y, w>>, 0)  q == Taps(a, g, taps, kernel)
           n == g.k[1] * g.k[2] * Len(chans)
<1>1. n \in Nat
  <2>1. g.k[1] \in Nat /\ g.k[2] \in Nat /\ Len(chans) \in Nat
    BY DEF Reads
  <2>2. \A i, j, l \in Nat : i * j * l \in Nat
    <3> TAKE i, j, l \in Nat
    <3>1. i * j \in Nat
      OBVIOUS
    <3> DEFINE ij == i * j
    <3> HIDE DEF ij
    <3>2. ij * l \in Nat
      BY <3>1 DEF ij
    <3> QED
      BY <3>2 DEF ij
  <2> QED
    BY <2>1, <2>2
<1>2. DOMAIN p = 1..n /\ \A i \in 1..n : p[i] \in Int
  <2>1. \A d \in {1, 2} : g.s[d] \in Int /\ g.p[d] \in Int /\ g.d[d] \in Int
    BY DEF Geometry
  <2> QED
    BY <2>1, PatchTyped
<1>3. \A i \in 1..n : q[i] \in Int
  <2>1. \A i \in 1..(g.k[1] * g.k[2] * Len(taps)) : q[i] \in Int
    BY TapsTyped
  <2> HIDE DEF q
  <2> QED
    BY <2>1
<1> HIDE DEF p, q, n
<1>4. Dot(p, q) \in Int
  BY <1>1, <1>2, <1>3, DotInt
<1> QED
  BY <1>4 DEF p, q

(* The dimensions of an array of four. *)
LEMMA FourDimsNat ==
  ASSUME NEW a, Four(a)
  PROVE  a.ne[1] \in Nat /\ a.ne[2] \in Nat /\ a.ne[3] \in Nat /\ a.ne[4] \in Nat
<1> DEFINE ne == a.ne
<1>1. ne \in [1..4 -> Nat]
  BY DEF Four
<1> HIDE DEF ne
<1>2. ne[1] \in Nat /\ ne[2] \in Nat /\ ne[3] \in Nat /\ ne[4] \in Nat
  BY <1>1
<1> QED
  BY <1>2 DEF ne

(* A convolution: the channels of the kernel and of the image agree, or there is one. *)
LEMMA ConvTyped ==
  ASSUME NEW a, Four(a), NEW b, Four(b), NEW g, Geometry(g), Slides(g, b),
         g.k[1] = a.ne[1], g.k[2] = a.ne[2],
         a.ne[1] * a.ne[2] # 0 => a.ne[3] = b.ne[3] \/ a.ne[3] = 1 \/ b.ne[3] = 1
  PROVE  IntArray(Conv(a, b, g))
<1> DEFINE depth == IF a.ne[3] = 1 THEN b.ne[3] ELSE a.ne[3]
           o1 == OutDim(g, b, 1)  o2 == OutDim(g, b, 2)  h == a.ne[4]  w == b.ne[4]
           chans == Channels(b, depth)  taps == Channels(a, depth)
           ne == <<o1, o2, h, w>>
           v == [k \in 1..Elems(ne) |->
                   Dot(Patch(b, g, chans, <<Coord(ne, k - 1)[1], Coord(ne, k - 1)[2], Coord(ne, k - 1)[4]>>, 0),
                       Taps(a, g, taps, Coord(ne, k - 1)[3]))]
<1>1. a.ne[3] \in Nat /\ b.ne[3] \in Nat /\ h \in Nat /\ w \in Nat /\ depth \in Nat
      /\ g.k[1] \in Nat /\ g.k[2] \in Nat
  BY FourDimsNat DEF Geometry
<1>2. o1 \in Nat /\ o2 \in Nat
  BY OutputDims
<1>3. g.k[1] * g.k[2] # 0 => (depth = b.ne[3] \/ b.ne[3] = 1) /\ (depth = a.ne[3] \/ a.ne[3] = 1)
  BY <1>1
<1> HIDE DEF depth
<1>4. Len(chans) = depth /\ Len(taps) = depth
  <2>1. ASSUME NEW x PROVE Len(Channels(x, depth)) = depth
    <3> DEFINE r == [i \in 1..depth |-> Min({i, x.ne[3]}) - 1]
    <3>1. r = [i \in 1..depth |-> r[i]]
      OBVIOUS
    <3>2. Channels(x, depth) = r
      BY DEF Channels
    <3> HIDE DEF r
    <3> QED
      BY <1>1, <3>1, <3>2, VectorIsSeq
  <2> QED
    BY <2>1
<1>5. Reads(g, chans, b) /\ Reads(g, taps, a)
  <2>1. g.k[1] * g.k[2] # 0 => \A i \in 1..Len(chans) : chans[i] \in 0..(b.ne[3] - 1)
    BY <1>1, <1>3, ChannelsWithin
  <2>2. g.k[1] * g.k[2] # 0 => \A i \in 1..Len(taps) : taps[i] \in 0..(a.ne[3] - 1)
    BY <1>1, <1>3, ChannelsWithin
  <2> HIDE DEF chans, taps
  <2> QED
    BY <1>1, <1>4, <2>1, <2>2 DEF Reads
<1> HIDE DEF o1, o2, chans, taps
<1>6. /\ ne \in Seq(Nat)
      /\ \A k \in 1..Elems(ne) :
           LET c == Coord(ne, k - 1)
           IN c[1] \in 0..(o1 - 1) /\ c[2] \in 0..(o2 - 1) /\ c[3] \in 0..(h - 1) /\ c[4] \in 0..(w - 1)
  <2> HIDE DEF w, h
  <2> QED
    BY <1>1, <1>2, FourCoord
<1> HIDE DEF ne
<1>7. ASSUME NEW k \in 1..Elems(ne) PROVE v[k] \in Int
  <2> DEFINE c == Coord(ne, k - 1)  x == c[1]  y == c[2]  t == c[4]  e == c[3]
  <2>1. x \in Int /\ y \in Int /\ t \in 0..(b.ne[4] - 1) /\ e \in 0..(a.ne[4] - 1)
    <3>1. x \in 0..(o1 - 1) /\ y \in 0..(o2 - 1) /\ t \in 0..(w - 1) /\ e \in 0..(h - 1)
      BY <1>6
    <3> HIDE DEF x, y
    <3> QED
      BY <3>1
  <2>2. v[k] = Dot(Patch(b, g, chans, <<x, y, t>>, 0), Taps(a, g, taps, e))
    OBVIOUS
  <2> HIDE DEF c, x, y, t, e, v
  <2> QED
    BY <1>4, <1>5, <2>1, <2>2, WindowDot
<1>8. v = [k \in 1..Elems(ne) |-> v[k]]
  OBVIOUS
<1>9. Conv(a, b, g) = [ne |-> ne, v |-> v]
  BY Zenon DEF Conv, Array, ne, chans, taps, o1, o2, depth
<1> HIDE DEF v
<1> QED
  BY <1>6, <1>7, <1>8, <1>9, ArrayTyped

(* A depthwise convolution: one kernel for each channel, or one for all. *)
LEMMA DepthwiseTyped ==
  ASSUME NEW a, Four(a), NEW b, Four(b), NEW g, Geometry(g), Slides(g, b),
         g.k[1] = a.ne[1], g.k[2] = a.ne[2], a.ne[3] # 0,
         a.ne[1] * a.ne[2] # 0 => a.ne[4] \in {1, b.ne[3]}
  PROVE  IntArray(ConvDepthwise(a, b, g))
<1> DEFINE o1 == OutDim(g, b, 1)  o2 == OutDim(g, b, 2)  h == b.ne[3]  w == b.ne[4]
           ne == <<o1, o2, h, w>>
           v == [k \in 1..Elems(ne) |->
                   Dot(Patch(b, g, <<Coord(ne, k - 1)[3]>>,
                             <<Coord(ne, k - 1)[1], Coord(ne, k - 1)[2], Coord(ne, k - 1)[4]>>, 0),
                       Taps(a, g, <<0>>, IF a.ne[4] = 1 THEN 0 ELSE Coord(ne, k - 1)[3]))]
<1>1. a.ne[3] \in Nat /\ a.ne[4] \in Nat /\ h \in Nat /\ w \in Nat /\ g.k[1] \in Nat /\ g.k[2] \in Nat
  BY FourDimsNat DEF Geometry
<1>2. o1 \in Nat /\ o2 \in Nat
  BY OutputDims
<1> HIDE DEF o1, o2
<1>6. /\ ne \in Seq(Nat)
      /\ \A k \in 1..Elems(ne) :
           LET c == Coord(ne, k - 1)
           IN c[1] \in 0..(o1 - 1) /\ c[2] \in 0..(o2 - 1) /\ c[3] \in 0..(h - 1) /\ c[4] \in 0..(w - 1)
  <2> HIDE DEF w, h
  <2> QED
    BY <1>1, <1>2, FourCoord
<1> HIDE DEF ne
<1>7. ASSUME NEW k \in 1..Elems(ne) PROVE v[k] \in Int
  <2> DEFINE c == Coord(ne, k - 1)  x == c[1]  y == c[2]  t == c[4]  e == c[3]
             kernel == IF a.ne[4] = 1 THEN 0 ELSE e
  <2>1. x \in Int /\ y \in Int /\ t \in 0..(b.ne[4] - 1) /\ e \in 0..(b.ne[3] - 1)
    <3>1. x \in 0..(o1 - 1) /\ y \in 0..(o2 - 1) /\ t \in 0..(w - 1) /\ e \in 0..(h - 1)
      BY <1>6
    <3> HIDE DEF x, y
    <3> QED
      BY <3>1
  <2>2. v[k] = Dot(Patch(b, g, <<e>>, <<x, y, t>>, 0), Taps(a, g, <<0>>, kernel))
    OBVIOUS
  <2> HIDE DEF c, x, y, t, e, v
  <2>3. g.k[1] * g.k[2] # 0 => kernel \in 0..(a.ne[4] - 1)
    <3>1. g.k[1] * g.k[2] # 0 => a.ne[4] = 1 \/ a.ne[4] = b.ne[3]
      OBVIOUS
    <3>2. 0 \in 0..(1 - 1)
      OBVIOUS
    <3> QED
      BY <2>1, <3>1, <3>2
  <2>4. Reads(g, <<e>>, b) /\ Reads(g, <<0>>, a) /\ Len(<<e>>) = Len(<<0>>)
    <3>1. Len(<<e>>) = 1 /\ Len(<<0>>) = 1 /\ <<e>>[1] = e /\ <<0>>[1] = 0
      OBVIOUS
    <3>2. 0 \in 0..(a.ne[3] - 1)
      BY <1>1
    <3>3. \A i \in 1..1 : i = 1
      OBVIOUS
    <3>4. \A i \in 1..Len(<<e>>) : <<e>>[i] \in 0..(b.ne[3] - 1)
      BY <2>1, <3>1, <3>3
    <3>5. \A i \in 1..Len(<<0>>) : <<0>>[i] \in 0..(a.ne[3] - 1)
      BY <3>1, <3>2, <3>3
    <3>6. Len(<<e>>) \in Nat /\ Len(<<0>>) \in Nat
      BY <3>1
    <3> QED
      BY <1>1, <3>1, <3>4, <3>5, <3>6, Zenon DEF Reads
  <2> HIDE DEF kernel
  <2>5. Dot(Patch(b, g, <<e>>, <<x, y, t>>, 0), Taps(a, g, <<0>>, kernel)) \in Int
    BY <2>1, <2>3, <2>4, WindowDot
  <2> QED
    BY <2>2, <2>5
<1>8. v = [k \in 1..Elems(ne) |-> v[k]]
  OBVIOUS
<1>9. ConvDepthwise(a, b, g) = [ne |-> ne, v |-> v]
  BY Zenon DEF ConvDepthwise, Array, ne, o1, o2
<1> HIDE DEF v
<1> QED
  BY <1>6, <1>7, <1>8, <1>9, ArrayTyped

(* A pool; the largest of a window that is not empty. *)
LEMMA PoolTyped ==
  ASSUME NEW b, Four(b), NEW g, Geometry(g), Slides(g, b), NEW avg,
         avg \/ (g.k[1] > 0 /\ g.k[2] > 0)
  PROVE  IntArray(Pool2D(avg, g, b))
<1> DEFINE o1 == OutDim(g, b, 1)  o2 == OutDim(g, b, 2)  h == b.ne[3]  w == b.ne[4]
           fill == IF avg THEN 0 ELSE NegInf
           ne == <<o1, o2, h, w>>
           P(k) == Patch(b, g, <<Coord(ne, k - 1)[3]>>,
                         <<Coord(ne, k - 1)[1], Coord(ne, k - 1)[2], Coord(ne, k - 1)[4]>>, fill)
           v == [k \in 1..Elems(ne) |-> IF avg THEN Mean(P(k)) ELSE Greatest(P(k))]
<1>1. h \in Nat /\ w \in Nat /\ g.k[1] \in Nat /\ g.k[2] \in Nat /\ fill \in Int
  BY FourDimsNat DEF Geometry, NegInf
<1>2. o1 \in Nat /\ o2 \in Nat
  BY OutputDims
<1>3. \A d \in {1, 2} : g.s[d] \in Int /\ g.p[d] \in Int /\ g.d[d] \in Int
  BY DEF Geometry
<1> HIDE DEF o1, o2, fill
<1>6. /\ ne \in Seq(Nat)
      /\ \A k \in 1..Elems(ne) :
           LET c == Coord(ne, k - 1)
           IN c[1] \in 0..(o1 - 1) /\ c[2] \in 0..(o2 - 1) /\ c[3] \in 0..(h - 1) /\ c[4] \in 0..(w - 1)
  <2> HIDE DEF w, h
  <2> QED
    BY <1>1, <1>2, FourCoord
<1> HIDE DEF ne
<1>7. ASSUME NEW k \in 1..Elems(ne) PROVE v[k] \in Int
  <2> DEFINE c == Coord(ne, k - 1)  x == c[1]  y == c[2]  t == c[4]  e == c[3]
             r == Patch(b, g, <<e>>, <<x, y, t>>, fill)
             n == g.k[1] * g.k[2] * 1
  <2>1. x \in Int /\ y \in Int /\ t \in 0..(b.ne[4] - 1) /\ e \in 0..(b.ne[3] - 1)
    <3>1. x \in 0..(o1 - 1) /\ y \in 0..(o2 - 1) /\ t \in 0..(w - 1) /\ e \in 0..(h - 1)
      BY <1>6
    <3> HIDE DEF x, y
    <3> QED
      BY <3>1
  <2>2. v[k] = IF avg THEN Mean(r) ELSE Greatest(r)
    OBVIOUS
  <2> HIDE DEF c, x, y, t, e, v
  <2>3. Reads(g, <<e>>, b) /\ Len(<<e>>) = 1
    <3>1. Len(<<e>>) = 1 /\ <<e>>[1] = e
      OBVIOUS
    <3>2. \A i \in 1..1 : i = 1
      OBVIOUS
    <3>3. \A i \in 1..Len(<<e>>) : <<e>>[i] \in 0..(b.ne[3] - 1)
      BY <2>1, <3>1, <3>2
    <3>4. Len(<<e>>) \in Nat
      BY <3>1
    <3> QED
      BY <1>1, <3>1, <3>3, <3>4, Zenon DEF Reads
  <2>4. DOMAIN r = 1..n /\ \A i \in 1..n : r[i] \in Int
    <3>1. DOMAIN r = 1..(g.k[1] * g.k[2] * Len(<<e>>))
          /\ \A i \in 1..(g.k[1] * g.k[2] * Len(<<e>>)) : r[i] \in Int
      BY <1>1, <1>3, <2>1, <2>3, PatchTyped
    <3> HIDE DEF r
    <3> QED
      BY <2>3, <3>1
  <2>5. n \in Nat /\ (~avg => n # 0)
    <3>1. \A i, j \in Nat : i * j * 1 \in Nat /\ (i > 0 /\ j > 0 => i * j * 1 # 0)
      OBVIOUS
    <3> QED
      BY <1>1, <3>1
  <2>6. r = [i \in 1..n |-> r[i]]
    <3>1. r = [i \in 1..(g.k[1] * g.k[2] * Len(<<e>>)) |-> r[i]]
      BY Zenon DEF Patch
    <3> HIDE DEF r
    <3> QED
      BY <2>3, <3>1
  <2> HIDE DEF r, n
  <2>7. r \in [1..n -> Int]
    BY <2>4, <2>6
  <2>8. Mean(r) \in Int
    BY <2>5, <2>7, MeanInt
  <2>9. ~avg => Greatest(r) \in Int
    BY <2>5, <2>7, GreatestIn
  <2> QED
    BY <2>2, <2>8, <2>9
<1>8. v = [k \in 1..Elems(ne) |-> v[k]]
  OBVIOUS
<1>9. Pool2D(avg, g, b) = [ne |-> ne, v |-> v]
  BY Zenon DEF Pool2D, Array, ne, o1, o2, fill
<1> HIDE DEF v
<1> QED
  BY <1>6, <1>7, <1>8, <1>9, ArrayTyped

(* The kernel of a depthwise convolution, with or without its unit dimension. *)
LEMMA DepthwiseKernelTyped ==
  ASSUME NEW a, Source(a), Len(a.ne) >= 3
  PROVE  /\ Four(DepthwiseKernel(a))
         /\ DepthwiseKernel(a).ne[1] = a.ne[1] /\ DepthwiseKernel(a).ne[2] = a.ne[2]
<1> DEFINE x == a.ne  y == <<a.ne[1], a.ne[2], 1, a.ne[3]>>
<1>1. x \in Seq(Nat) /\ Len(x) \in {3, 4} /\ DOMAIN x = 1..Len(x) /\ \A d \in DOMAIN x : x[d] \in Nat
  <2> DEFINE l == Len(a.ne)
  <2>1. l \in 1..4 /\ l >= 3 /\ x \in Seq(Nat) /\ DOMAIN x = 1..l /\ \A d \in DOMAIN x : x[d] \in Nat
    BY SourceDims
  <2>2. l \in {3, 4}
    <3> HIDE DEF l
    <3> QED
      BY <2>1
  <2> QED
    BY <2>1, <2>2, Zenon
<1>2. CASE Len(x) = 3
  <2>1. x[1] \in Nat /\ x[2] \in Nat /\ x[3] \in Nat
    <3> HIDE DEF x
    <3>1. DOMAIN x = 1..3
      BY <1>1, <1>2, Zenon
    <3>2. \A d \in 1..3 : x[d] \in Nat
      BY <1>1, <3>1, Zenon
    <3> QED
      BY <3>2
  <2>2. y \in Seq(Nat) /\ y \in [1..4 -> Nat] /\ Len(y) = 4 /\ DOMAIN y = 1..4
        /\ y[1] = x[1] /\ y[2] = x[2] /\ y[3] = 1 /\ y[4] = x[3]
    <3>1. y = <<x[1], x[2], 1, x[3]>>
      OBVIOUS
    <3> HIDE DEF x, y
    <3>2. \A p, q, r \in Nat : LET z == <<p, q, 1, r>>
                               IN z \in Seq(Nat) /\ z \in [1..4 -> Nat] /\ Len(z) = 4 /\ DOMAIN z = 1..4
                                  /\ z[1] = p /\ z[2] = q /\ z[3] = 1 /\ z[4] = r
      OBVIOUS
    <3> QED
      BY <2>1, <3>1, <3>2
  <2> HIDE DEF y
  <2>3. Elems(y) = Elems(a.ne)
    <3> HIDE DEF x
    <3>1. Elems(y) = y[1] * y[2] * y[3] * y[4]
      <4>1. \A d \in 1..4 : y[d] \in Int
        BY <2>2
      <4> QED
        BY <2>2, <4>1, ElemsFour
    <3>2. Elems(x) = Volume(x)
      <4>1. DOMAIN x = 1..3
        BY <1>1, <1>2, Zenon
      <4>2. \A d \in 1..3 : x[d] \in Nat
        BY <1>1, <4>1, Zenon
      <4>3. \A d \in 1..3 : x[d] \in Int
        BY <4>2
      <4>4. 3 \in 0..4
        OBVIOUS
      <4> QED
        BY <4>1, <4>3, <4>4, ElemsVolume
    <3>3. Volume(x) = x[1] * x[2] * x[3] * 1
      <4>1. DOMAIN x = 1..3
        BY <1>1, <1>2
      <4>2. Dim(x, 1) = x[1] /\ Dim(x, 2) = x[2] /\ Dim(x, 3) = x[3] /\ Dim(x, 4) = 1
        BY <4>1 DEF Dim
      <4> QED
        BY <4>2, Zenon DEF Volume
    <3>4. \A p, q, r \in Nat : p * q * 1 * r = p * q * r * 1
      <4> TAKE p, q, r \in Nat
      <4>1. p * q \in Nat
        OBVIOUS
      <4> DEFINE pq == p * q
      <4> HIDE DEF pq
      <4>2. pq * 1 = pq
        BY <4>1 DEF pq
      <4>3. pq * r \in Nat
        BY <4>1 DEF pq
      <4> DEFINE z == pq * r
      <4> HIDE DEF z
      <4>4. z * 1 = z
        BY <4>3 DEF z
      <4> QED
        BY <4>2, <4>4 DEF pq, z
    <3>5. y[1] * y[2] * y[3] * y[4] = x[1] * x[2] * x[3] * 1
      BY <2>1, <2>2, <3>4
    <3>6. Elems(y) = Elems(x)
      BY <3>1, <3>2, <3>3, <3>5, Zenon
    <3> QED
      BY <3>6 DEF x
  <2>4. IntArray(Reshaped(a, y)) /\ Reshaped(a, y).ne = y
    BY <2>2, <2>3, ReshapedTyped DEF Source
  <2>5. DepthwiseKernel(a) = Reshaped(a, y)
    BY <1>2 DEF DepthwiseKernel, y
  <2> QED
    BY <2>2, <2>4, <2>5 DEF Four
<1>3. CASE Len(x) = 4
  <2>1. DepthwiseKernel(a) = a
    BY <1>3 DEF DepthwiseKernel
  <2>2. x \in [1..4 -> Nat]
    <3> HIDE DEF x
    <3>1. \A z \in Seq(Nat) : z \in [1..Len(z) -> Nat]
      OBVIOUS
    <3>2. x \in [1..Len(x) -> Nat]
      BY <1>1, <3>1
    <3> QED
      BY <1>3, <3>2, Zenon
  <2> QED
    BY <2>1, <2>2 DEF Four, Source
<1> QED
  BY <1>1, <1>2, <1>3

(* The operators of the host that slide a window leave integers, or refuse: an element of
   the padding is never read. *)
LEMMA WindowsTyped ==
  ASSUME NEW n \in NodeType, NEW s, SourceArrays(s), Len(s) \in Nat, n.op \in Windowed,
         n.op = "POOL_2D" => Len(s) >= 1,
         n.op \in {"CONV_2D", "CONV_2D_DW"} \/ (n.op = "IM2COL" /\ n.p[7] # 0) => Len(s) >= 2
  PROVE  Typed(WindowResult(n, s))
<1> DEFINE s1 == s[1]  s2 == s[2]  p == n.p  a == Rank4(s1)  b == Rank4(s2)  g == WindowOf(a, p)
           h == PoolWindow(p)  k == DepthwiseKernel(s1)
           Unpacks == Len(s1.ne) >= 2 /\ Len(s2.ne) >= 2
           poolbad == \/ Len(s1.ne) < 3 \/ ~Slides(h, a)
                      \/ \E i \in 2..3 : p[i] < 0 \/ (p[1] = 0 /\ p[i] = 0)
           colbad == ~Unpacks \/ ~Slides(g, b)
           convbad == \/ ~Unpacks \/ ~Slides(g, b)
                      \/ (a.ne[1] * a.ne[2] # 0 /\ ~Broadcastable(<<a.ne[3]>>, <<b.ne[3]>>))
           depthbad == \/ Len(s1.ne) < 3 \/ Len(s2.ne) < 3 \/ ~Slides(g, b)
                       \/ k.ne[3] = 0 \/ (a.ne[1] * a.ne[2] # 0 /\ k.ne[4] \notin {1, b.ne[3]})
           two == n.op \in {"CONV_2D", "CONV_2D_DW"} \/ (n.op = "IM2COL" /\ p[7] # 0)
<1>1. (n.op = "POOL_2D" => Source(s1)) /\ (two => Source(s1) /\ Source(s2))
  <2>1. (n.op = "POOL_2D" => 1 \in 1..Len(s)) /\ (two => 1 \in 1..Len(s) /\ 2 \in 1..Len(s))
    OBVIOUS
  <2> HIDE DEF two
  <2> QED
    BY <2>1, Zenon DEF SourceArrays
<1>2. \A i \in 1..7 : p[i] \in Int
  BY Params
<1> HIDE DEF s1, s2, p
<1>3. /\ n.op = "POOL_2D" => Four(a)
      /\ two => Four(a) /\ Four(b) /\ a.ne[1] = Dim(s1.ne, 1) /\ a.ne[2] = Dim(s1.ne, 2)
  BY <1>1, Rank4Typed
<1> HIDE DEF a, b
<1>4. Four(a) => Geometry(g) /\ g.k[1] = a.ne[1] /\ g.k[2] = a.ne[2]
  <2> SUFFICES ASSUME Four(a) PROVE Geometry(g) /\ g.k[1] = a.ne[1] /\ g.k[2] = a.ne[2]
    OBVIOUS
  <2>1. a.ne[1] \in Nat /\ a.ne[2] \in Nat
    BY FourDimsNat
  <2>2. /\ g.k[1] = a.ne[1] /\ g.k[2] = a.ne[2] /\ g.s[1] = p[1] /\ g.s[2] = p[2]
        /\ g.p[1] = p[3] /\ g.p[2] = p[4] /\ g.d[1] = p[5] /\ g.d[2] = p[6]
    BY DEF WindowOf, Window
  <2>3. p[1] \in Int /\ p[2] \in Int /\ p[3] \in Int /\ p[4] \in Int /\ p[5] \in Int /\ p[6] \in Int
    BY <1>2
  <2> HIDE DEF g
  <2>4. g.k[1] \in Nat /\ g.s[1] \in Int /\ g.p[1] \in Int /\ g.d[1] \in Int
    BY <2>1, <2>2, <2>3
  <2>5. g.k[2] \in Nat /\ g.s[2] \in Int /\ g.p[2] \in Int /\ g.d[2] \in Int
    BY <2>1, <2>2, <2>3
  <2>6. Geometry(g)
    BY <2>4, <2>5, Zenon DEF Geometry
  <2> QED
    BY <2>2, <2>6
<1>5. n.op = "POOL_2D" => Typed(Unless(poolbad, Ok(Pool2D(p[1] # 0, h, a))))
  <2> SUFFICES ASSUME n.op = "POOL_2D", ~poolbad PROVE Typed(Ok(Pool2D(p[1] # 0, h, a)))
    BY TypedUnless
  <2>1. Four(a) /\ Slides(h, a)
    BY <1>3
  <2>2. /\ h.k[1] = p[2] /\ h.k[2] = p[3] /\ h.s[1] = p[4] /\ h.s[2] = p[5]
        /\ h.p[1] = p[6] /\ h.p[2] = p[7] /\ h.d[1] = 1 /\ h.d[2] = 1
    BY DEF PoolWindow, Window
  <2>3. p[2] >= 0 /\ p[3] >= 0 /\ (p[1] = 0 => p[2] # 0 /\ p[3] # 0)
    <3>1. 2 \in 2..3 /\ 3 \in 2..3 /\ p[2] \in Int /\ p[3] \in Int
      BY <1>2
    <3>2. \A i \in 2..3 : ~(p[i] < 0) /\ ~(p[1] = 0 /\ p[i] = 0)
      OBVIOUS
    <3> QED
      BY <3>1, <3>2
  <2> HIDE DEF h, poolbad
  <2>4. Geometry(h) /\ ((p[1] # 0) \/ (h.k[1] > 0 /\ h.k[2] > 0))
    <3>1. p[2] \in Nat /\ p[3] \in Nat /\ p[4] \in Int /\ p[5] \in Int /\ p[6] \in Int /\ p[7] \in Int /\ p[1] \in Int
      BY <1>2, <2>3
    <3>2. Geometry(h)
      <4>1. h.k[1] \in Nat /\ h.s[1] \in Int /\ h.p[1] \in Int /\ h.d[1] \in Int
        BY <2>2, <3>1
      <4>2. h.k[2] \in Nat /\ h.s[2] \in Int /\ h.p[2] \in Int /\ h.d[2] \in Int
        BY <2>2, <3>1
      <4> QED
        BY <4>1, <4>2, Zenon DEF Geometry
    <3> QED
      BY <2>2, <2>3, <3>1, <3>2
  <2> QED
    BY <2>1, <2>4, PoolTyped, TypedOk
<1>6. two => Typed(Unless(colbad, Ok(Im2Col(g, b))))
  BY <1>3, <1>4, Im2ColTyped, TypedOk, TypedUnless
<1>7. two => Typed(Unless(convbad, Ok(Conv(a, b, g))))
  <2> SUFFICES ASSUME two, ~convbad PROVE Typed(Ok(Conv(a, b, g)))
    BY TypedUnless
  <2>1. Four(a) /\ Four(b) /\ Geometry(g) /\ g.k[1] = a.ne[1] /\ g.k[2] = a.ne[2] /\ Slides(g, b)
    BY <1>3, <1>4
  <2>2. a.ne[1] * a.ne[2] # 0 => Broadcastable(<<a.ne[3]>>, <<b.ne[3]>>)
    OBVIOUS
  <2>3. ASSUME NEW x, NEW y, Broadcastable(<<x>>, <<y>>) PROVE x = y \/ x = 1 \/ y = 1
    <3>1. 1 \in DOMAIN <<x>> \cap DOMAIN <<y>> /\ <<x>>[1] = x /\ <<y>>[1] = y
      OBVIOUS
    <3> QED
      BY <2>3, <3>1, Zenon DEF Broadcastable
  <2>4. a.ne[1] * a.ne[2] # 0 => a.ne[3] = b.ne[3] \/ a.ne[3] = 1 \/ b.ne[3] = 1
    BY <2>2, <2>3
  <2> HIDE DEF g, convbad, two
  <2> QED
    BY <2>1, <2>4, ConvTyped, TypedOk
<1>8. two => Typed(Unless(depthbad, Ok(ConvDepthwise(k, b, g))))
  <2> SUFFICES ASSUME two, ~depthbad PROVE Typed(Ok(ConvDepthwise(k, b, g)))
    BY TypedUnless
  <2>1. Four(a) /\ Four(b) /\ Geometry(g) /\ g.k[1] = a.ne[1] /\ g.k[2] = a.ne[2] /\ Slides(g, b)
        /\ Source(s1) /\ Source(s2) /\ a.ne[1] = Dim(s1.ne, 1) /\ a.ne[2] = Dim(s1.ne, 2)
    BY <1>1, <1>3, <1>4
  <2>2. Len(s1.ne) >= 3 /\ 1 \in DOMAIN s1.ne /\ 2 \in DOMAIN s1.ne
    <3> DEFINE l == Len(s1.ne)
    <3>1. l \in 1..4 /\ DOMAIN s1.ne = 1..l
      BY <2>1, SourceDims
    <3>2. ~(l < 3)
      OBVIOUS
    <3> HIDE DEF l
    <3>3. l >= 3 /\ 1 \in 1..l /\ 2 \in 1..l
      BY <3>1, <3>2
    <3> QED
      BY <3>1, <3>3 DEF l
  <2>3. Four(k) /\ k.ne[1] = a.ne[1] /\ k.ne[2] = a.ne[2]
    BY <2>1, <2>2, DepthwiseKernelTyped DEF Dim
  <2>4. k.ne[3] # 0 /\ (a.ne[1] * a.ne[2] # 0 => k.ne[4] \in {1, b.ne[3]})
    OBVIOUS
  <2> HIDE DEF g, depthbad, two, k
  <2>5. k.ne[1] * k.ne[2] # 0 => k.ne[4] \in {1, b.ne[3]}
    BY <2>3, <2>4
  <2>6. g.k[1] = k.ne[1] /\ g.k[2] = k.ne[2]
    BY <2>1, <2>3
  <2> QED
    BY <2>1, <2>3, <2>4, <2>5, <2>6, DepthwiseTyped, TypedOk
<1> HIDE DEF poolbad, colbad, convbad, depthbad, k, g, h
<1>9. WindowResult(n, s) =
        CASE n.op = "POOL_2D" -> Unless(poolbad, Ok(Pool2D(p[1] # 0, h, a)))
          [] n.op = "IM2COL" -> (IF p[7] = 0 THEN NotImplemented ELSE Unless(colbad, Ok(Im2Col(g, b))))
          [] n.op = "CONV_2D" -> Unless(convbad, Ok(Conv(a, b, g)))
          [] OTHER -> Unless(depthbad, Ok(ConvDepthwise(k, b, g)))
  BY Zenon DEF WindowResult, poolbad, colbad, convbad, depthbad, k, g, h, a, b, s1, s2, p
<1>10. n.op \in {"IM2COL", "CONV_2D_DW", "CONV_2D", "POOL_2D"}
  BY DEF Windowed
<1> QED
  BY <1>5, <1>6, <1>7, <1>8, <1>9, <1>10, TypedRefused, Zenon

-----------------------------------------------------------------------------
(* Products. *)

(* A row of a matrix: the first coordinate varies and the others are within the shape. *)
LEMMA LineTyped ==
  ASSUME NEW a, Source(a), NEW c, DOMAIN c = DOMAIN a.ne, \A d \in DOMAIN a.ne : d # 1 => c[d] \in 0..(a.ne[d] - 1)
  PROVE  Row(a, c) \in [1..a.ne[1] -> Int]
<1>1. IntArray(a) /\ Len(a.ne) > 0
  BY SourceDims DEF Source
<1> QED
  BY <1>1, RowTyped

(* The dimensions after the k-th. *)
LEMMA Beyond ==
  ASSUME NEW x \in Seq(Nat), Len(x) \in 1..4, NEW k \in 1..2
  PROVE  /\ SubSeq(x, k + 1, Len(x)) \in Seq(Nat)
         /\ Len(SubSeq(x, k + 1, Len(x))) = (IF Len(x) > k THEN Len(x) - k ELSE 0)
         /\ \A i \in 1..(Len(x) - k) : SubSeq(x, k + 1, Len(x))[i] = x[i + k]
<1> DEFINE l == Len(x)  y == SubSeq(x, k + 1, l)
<1>1. \A i \in (k + 1)..l : x[i] \in Nat
  <2>1. \A i \in 1..l : x[i] \in Nat
    OBVIOUS
  <2>2. l \in 1..4
    OBVIOUS
  <2> HIDE DEF l
  <2>3. \A i \in (k + 1)..l : i \in 1..l
    BY <2>2
  <2> QED
    BY <2>1, <2>3
<1>2. l \in 1..4 /\ l \in Int /\ k + 1 \in Int
  OBVIOUS
<1> HIDE DEF l
<1>3. y \in Seq(Nat) /\ Len(y) = (IF k + 1 <= l THEN l - (k + 1) + 1 ELSE 0)
      /\ \A i \in 1..(l - (k + 1) + 1) : y[i] = x[(k + 1) + i - 1]
  BY <1>1, <1>2, SubSeqProperties
<1> HIDE DEF y
<1>4. (IF k + 1 <= l THEN l - (k + 1) + 1 ELSE 0) = (IF l > k THEN l - k ELSE 0)
  BY <1>2
<1>5. \A i \in 1..(l - k) : i \in 1..(l - (k + 1) + 1) /\ (k + 1) + i - 1 = i + k
  BY <1>2
<1>6. \A i \in 1..(l - k) : y[i] = x[i + k]
  BY <1>3, <1>5
<1> QED
  BY <1>3, <1>4, <1>6 DEF y, l

(* The dimensions after the first. *)
LEMMA AfterFirst ==
  ASSUME NEW x \in Seq(Nat), Len(x) \in 1..4
  PROVE  /\ Tail(x) \in Seq(Nat) /\ Len(Tail(x)) = Len(x) - 1
         /\ \A i \in 1..(Len(x) - 1) : Tail(x)[i] = x[i + 1]
<1>1. x # <<>>
  <2>1. Len(<<>>) = 0
    OBVIOUS
  <2> DEFINE l == Len(x)
  <2>2. l \in 1..4
    OBVIOUS
  <2> HIDE DEF l
  <2>3. l # 0
    BY <2>2
  <2> QED
    BY <2>1, <2>3, Zenon DEF l
<1>2. Tail(x) \in Seq(Nat) /\ Len(Tail(x)) = Len(x) - 1 /\ \A i \in 1..Len(Tail(x)) : Tail(x)[i] = x[i + 1]
  BY <1>1, HeadTailProperties
<1> QED
  BY <1>2

(* The coordinates of an element, split where two shapes were joined. *)
LEMMA SplitCoord ==
  ASSUME NEW pre \in Seq(Nat), NEW outer \in Seq(Nat), NEW k \in 1..Elems(pre \o outer)
  PROVE  LET c == Coord(pre \o outer, k - 1)
             o == SubSeq(c, Len(pre) + 1, Len(c))
         IN /\ pre \o outer \in Seq(Nat)
            /\ \A d \in 1..Len(pre) : c[d] \in 0..(pre[d] - 1)
            /\ o \in Seq(Int) /\ Within(outer, o)
<1> DEFINE ne == pre \o outer  c == Coord(ne, k - 1)  l == Len(pre)  m == Len(outer)
           o == SubSeq(c, l + 1, Len(c))
<1>1. l \in Nat /\ m \in Nat
  OBVIOUS
<1>2. ne \in Seq(Nat) /\ Len(ne) = l + m
      /\ \A i \in 1..(l + m) : ne[i] = IF i <= l THEN pre[i] ELSE outer[i - l]
  BY ConcatProperties
<1>3. c = [d \in DOMAIN ne |-> c[d]]
  BY Zenon DEF Coord
<1>20. k \in 1..Elems(ne)
  OBVIOUS
<1> HIDE DEF ne
<1>4. Within(ne, c)
  BY <1>2, <1>20, CoordWithin
<1> HIDE DEF c
<1>5. DOMAIN ne = 1..(l + m)
  BY <1>2
<1>6. DOMAIN outer = 1..m
  OBVIOUS
<1> HIDE DEF l, m
<1>7. Len(c) = l + m
  <2>1. c = [d \in 1..(l + m) |-> c[d]]
    BY <1>3, <1>5, Zenon
  <2> QED
    BY <1>1, <2>1, VectorIsSeq
<1>8. \A d \in 1..(l + m) : c[d] \in 0..(ne[d] - 1)
  BY <1>4, <1>5 DEF Within
<1>9. \A d \in 1..l : c[d] \in 0..(pre[d] - 1)
  <2>1. \A d \in 1..l : d \in 1..(l + m) /\ d <= l
    BY <1>1
  <2>2. \A d \in 1..l : ne[d] = pre[d]
    BY <1>2, <2>1
  <2> QED
    BY <1>8, <2>1, <2>2
<1>10. o \in Seq(Int) /\ Len(o) = m /\ \A i \in 1..m : o[i] = c[l + i]
  <2>1. \A i \in (l + 1)..(l + m) : c[i] \in Int
    BY <1>1, <1>8
  <2> DEFINE q == SubSeq(c, l + 1, l + m)
  <2>2. /\ q \in Seq(Int)
        /\ Len(q) = (IF l + 1 <= l + m THEN (l + m) - (l + 1) + 1 ELSE 0)
        /\ \A i \in 1..((l + m) - (l + 1) + 1) : q[i] = c[(l + 1) + i - 1]
    <3>1. l + 1 \in Int /\ l + m \in Int
      BY <1>1
    <3> DEFINE x == l + 1  y == l + m
    <3>2. x \in Int /\ y \in Int /\ \A i \in x..y : c[i] \in Int
      BY <2>1, <3>1
    <3> HIDE DEF x, y
    <3>3. /\ SubSeq(c, x, y) \in Seq(Int)
          /\ Len(SubSeq(c, x, y)) = (IF x <= y THEN y - x + 1 ELSE 0)
          /\ \A i \in 1..(y - x + 1) : SubSeq(c, x, y)[i] = c[x + i - 1]
      BY <3>2, SubSeqProperties
    <3> QED
      BY <3>3 DEF x, y
  <2>3. o = q
    BY <1>7
  <2> HIDE DEF q, o
  <2>4. (IF l + 1 <= l + m THEN (l + m) - (l + 1) + 1 ELSE 0) = m /\ (l + m) - (l + 1) + 1 = m
        /\ \A i \in 1..m : (l + 1) + i - 1 = l + i
    BY <1>1
  <2> QED
    BY <2>2, <2>3, <2>4
<1> HIDE DEF o
<1>11. DOMAIN o = 1..m
  BY <1>10
<1>12. \A i \in 1..m : o[i] \in 0..(outer[i] - 1)
  <2> TAKE i \in 1..m
  <2>1. l + i \in 1..(l + m) /\ ~(l + i <= l) /\ (l + i) - l = i
    BY <1>1
  <2>2. ne[l + i] = outer[i]
    BY <1>2, <2>1
  <2>3. c[l + i] \in 0..(ne[l + i] - 1)
    BY <1>8, <2>1
  <2> QED
    BY <1>10, <2>2, <2>3
<1>13. Within(outer, o)
  BY <1>6, <1>11, <1>12 DEF Within
<1> QED
  BY <1>2, <1>9, <1>10, <1>13 DEF o, c, ne, l

(* A row of a matrix, at a place of the broadcast of the outer dimensions. *)
LEMMA LineReads ==
  ASSUME NEW x, Source(x), Len(x.ne) >= 2, NEW i \in 0..(x.ne[2] - 1), NEW o \in Seq(Int),
         Len(o) >= Len(x.ne) - 2,
         Within(SubSeq(x.ne, 3, Len(x.ne)), Clipped(SubSeq(x.ne, 3, Len(x.ne)), o))
  PROVE  Row(x, <<0>> \o Clipped(Tail(x.ne), <<i>> \o o)) \in [1..x.ne[1] -> Int]
<1> DEFINE ne == x.ne  l == Len(ne)  t == Tail(ne)  y == SubSeq(ne, 3, l)
           q == <<i>> \o o  f == Clipped(t, q)  c == <<0>> \o f
<1>1. ne \in Seq(Nat) /\ l \in 1..4 /\ l >= 2 /\ DOMAIN ne = 1..l /\ \A d \in 1..l : ne[d] \in Nat
  BY SourceDims
<1>2. t \in Seq(Nat) /\ Len(t) = l - 1 /\ \A d \in 1..(l - 1) : t[d] = ne[d + 1]
  <2> HIDE DEF ne
  <2> QED
    BY <1>1, AfterFirst
<1>3. y \in Seq(Nat) /\ \A d \in 1..(l - 2) : y[d] = ne[d + 2]
  <2> HIDE DEF ne
  <2>1. 2 \in 1..2 /\ 2 + 1 = 3
    OBVIOUS
  <2>2. SubSeq(ne, 2 + 1, Len(ne)) \in Seq(Nat) /\ \A d \in 1..(Len(ne) - 2) : SubSeq(ne, 2 + 1, Len(ne))[d] = ne[d + 2]
    BY <1>1, <2>1, Beyond
  <2> QED
    BY <2>1, <2>2
<1>4. DOMAIN y = 1..(l - 2)
  <2> HIDE DEF ne
  <2>1. 2 \in 1..2 /\ 2 + 1 = 3
    OBVIOUS
  <2>2. Len(SubSeq(ne, 2 + 1, Len(ne))) = (IF Len(ne) > 2 THEN Len(ne) - 2 ELSE 0)
    BY <1>1, <2>1, Beyond
  <2>3. Len(y) = (IF l > 2 THEN l - 2 ELSE 0)
    BY <2>1, <2>2
  <2>4. DOMAIN y = 1..Len(y)
    BY <1>3
  <2> HIDE DEF y, l
  <2>5. Len(y) = l - 2
    BY <1>1, <2>3
  <2> QED
    BY <2>4, <2>5
<1>5. \A d \in 1..(l - 2) : (IF y[d] = 1 THEN 0 ELSE o[d]) \in 0..(y[d] - 1)
  <2>1. Within(y, Clipped(y, o))
    OBVIOUS
  <2> HIDE DEF y
  <2> QED
    BY <1>4, <2>1 DEF Within, Clipped
<1>6. /\ q \in Seq(Int) /\ Len(q) = 1 + Len(o) /\ q[1] = i
      /\ \A d \in 2..(1 + Len(o)) : q[d] = o[d - 1]
  <2>1. i \in Int /\ Len(o) \in Nat
    OBVIOUS
  <2> DEFINE u == <<i>>
  <2>2. u \in Seq(Int) /\ Len(u) = 1 /\ u[1] = i
    BY <2>1
  <2> HIDE DEF u
  <2>3. /\ u \o o \in Seq(Int) /\ Len(u \o o) = Len(u) + Len(o)
        /\ \A d \in 1..(Len(u) + Len(o)) : (u \o o)[d] = IF d <= Len(u) THEN u[d] ELSE o[d - Len(u)]
    BY <2>2, ConcatProperties
  <2>4. q = u \o o
    BY DEF u
  <2> HIDE DEF q
  <2>5. \A d \in 1..(1 + Len(o)) : q[d] = IF d <= 1 THEN u[d] ELSE o[d - 1]
    BY <2>2, <2>3, <2>4
  <2>6. 1 \in 1..(1 + Len(o)) /\ \A d \in 2..(1 + Len(o)) : d \in 1..(1 + Len(o)) /\ ~(d <= 1)
    BY <2>1
  <2>7. q[1] = i
    BY <2>2, <2>5, <2>6
  <2>8. \A d \in 2..(1 + Len(o)) : q[d] = o[d - 1]
    BY <2>5, <2>6
  <2> QED
    BY <2>2, <2>3, <2>4, <2>7, <2>8
<1> DEFINE n == Len(o)
<1>7. n \in Nat /\ n >= l - 2
  OBVIOUS
<1>8. \A d \in 1..(l - 1) : f[d] \in 0..(ne[d + 1] - 1)
  <2> HIDE DEF q, y, t, ne, l, n
  <2> TAKE d \in 1..(l - 1)
  <2>1. d \in DOMAIN t
    <3>1. DOMAIN t = 1..Len(t)
      BY <1>2
    <3> QED
      BY <1>2, <3>1
  <2>2. f[d] = IF t[d] = 1 THEN 0 ELSE q[d]
    BY <2>1 DEF Clipped
  <2> HIDE DEF f
  <2>3. t[d] = ne[d + 1]
    BY <1>2
  <2>4. CASE d = 1
    <3>1. q[d] \in 0..(ne[d + 1] - 1)
      <4>1. ne[d + 1] = ne[2]
        BY <2>4
      <4>2. q[d] = i
        BY <1>6, <2>4
      <4>3. i \in 0..(ne[2] - 1)
        BY DEF ne
      <4> QED
        BY <4>1, <4>2, <4>3
    <3> QED
      BY <2>2, <2>3, <3>1
  <2>5. CASE d # 1
    <3>1. d - 1 \in 1..(l - 2) /\ d \in 2..(1 + n)
      BY <1>1, <1>7, <2>5
    <3>2. q[d] = o[d - 1]
      BY <1>6, <3>1 DEF n
    <3>3. y[d - 1] = ne[d + 1]
      <4>1. y[d - 1] = ne[(d - 1) + 2]
        BY <1>3, <3>1
      <4>2. (d - 1) + 2 = d + 1
        BY <1>1
      <4> QED
        BY <4>1, <4>2
    <3>4. (IF y[d - 1] = 1 THEN 0 ELSE o[d - 1]) \in 0..(y[d - 1] - 1)
      BY <1>5, <3>1
    <3> QED
      BY <2>2, <2>3, <3>2, <3>3, <3>4
  <2> QED
    BY <2>4, <2>5
<1>9. DOMAIN c = 1..l /\ \A d \in 2..l : c[d] = f[d - 1]
  <2>1. DOMAIN f = 1..(l - 1)
    <3> HIDE DEF q, l, t
    <3>1. DOMAIN t = 1..Len(t)
      BY <1>2
    <3> QED
      BY <1>2, <3>1 DEF Clipped
  <2>2. f = [d \in 1..(l - 1) |-> f[d]]
    <3> HIDE DEF q, l, t
    <3>1. f = [d \in DOMAIN t |-> f[d]]
      BY Zenon DEF Clipped
    <3>2. DOMAIN t = DOMAIN f
      BY DEF Clipped
    <3> QED
      BY <2>1, <3>1, <3>2, Zenon
  <2> HIDE DEF f, ne, l
  <2>3. f \in Seq(Int) /\ Len(f) = l - 1
    <3>1. l - 1 \in Nat
      BY <1>1
    <3>2. \A d \in 1..(l - 1) : f[d] \in Int
      <4> TAKE d \in 1..(l - 1)
      <4>1. d + 1 \in 1..l
        BY <1>1
      <4>2. ne[d + 1] \in Nat /\ f[d] \in 0..(ne[d + 1] - 1)
        BY <1>1, <1>8, <4>1
      <4> QED
        BY <4>2
    <3>3. f \in [1..(l - 1) -> Int]
      BY <2>2, <3>2
    <3>4. f \in Seq(Int)
      BY <3>1, <3>3, IntoSeq
    <3> QED
      BY <2>2, <3>1, <3>4, VectorIsSeq
  <2>4. 0 \in Int /\ <<0>> \in Seq(Int) /\ Len(<<0>>) = 1
    OBVIOUS
  <2> DEFINE u == <<0>>
  <2> HIDE DEF u
  <2>5. /\ u \o f \in Seq(Int) /\ Len(u \o f) = Len(u) + Len(f)
        /\ \A d \in 1..(Len(u) + Len(f)) : (u \o f)[d] = IF d <= Len(u) THEN u[d] ELSE f[d - Len(u)]
    BY <2>3, <2>4, ConcatProperties DEF u
  <2>6. Len(u) = 1 /\ c = u \o f
    BY <2>4 DEF u
  <2> HIDE DEF c
  <2>7. Len(u) + Len(f) = l /\ \A d \in 2..l : d \in 1..l /\ ~(d <= 1)
    BY <1>1, <2>3, <2>6
  <2>8. c \in Seq(Int) /\ Len(c) = l /\ \A d \in 1..l : c[d] = IF d <= 1 THEN u[d] ELSE f[d - 1]
    BY <2>5, <2>6, <2>7
  <2>9. DOMAIN c = 1..l
    BY <2>8
  <2> QED
    BY <2>7, <2>8, <2>9
<1> HIDE DEF c, f, ne, l
<1>10. \A d \in 2..l : c[d] \in 0..(ne[d] - 1)
  <2> TAKE d \in 2..l
  <2>1. d - 1 \in 1..(l - 1) /\ (d - 1) + 1 = d
    BY <1>1
  <2> QED
    BY <1>8, <1>9, <2>1
<1>11. DOMAIN c = DOMAIN ne /\ \A d \in DOMAIN ne : d # 1 => c[d] \in 0..(ne[d] - 1)
  <2>1. \A d \in 1..l : d # 1 => d \in 2..l
    BY <1>1
  <2> QED
    BY <1>1, <1>9, <1>10, <2>1
<1>12. Row(x, c) \in [1..x.ne[1] -> Int]
  BY <1>11, LineTyped DEF ne
<1> QED
  BY <1>12 DEF c, f, ne

(* What the two rows of a product are read with: the outer coordinates of both operands. *)
LEMMA OuterReads ==
  ASSUME NEW a, Source(a), NEW b, Source(b),
         Broadcastable(SubSeq(a.ne, 3, Len(a.ne)), SubSeq(b.ne, 3, Len(b.ne))),
         NEW o, o \in Seq(Int),
         Within(Broadened(SubSeq(a.ne, 3, Len(a.ne)), SubSeq(b.ne, 3, Len(b.ne))), o)
  PROVE  /\ Len(o) >= Len(a.ne) - 2 /\ Len(o) >= Len(b.ne) - 2
         /\ Within(SubSeq(a.ne, 3, Len(a.ne)), Clipped(SubSeq(a.ne, 3, Len(a.ne)), o))
         /\ Within(SubSeq(b.ne, 3, Len(b.ne)), Clipped(SubSeq(b.ne, 3, Len(b.ne)), o))
<1> DEFINE x == SubSeq(a.ne, 3, Len(a.ne))  y == SubSeq(b.ne, 3, Len(b.ne))
           k == Len(a.ne)  l == Len(b.ne)
<1>1. x \in Seq(Nat) /\ Len(x) = (IF k > 2 THEN k - 2 ELSE 0) /\ k \in 1..4
  <2>1. a.ne \in Seq(Nat) /\ Len(a.ne) \in 1..4 /\ 2 \in 1..2 /\ 2 + 1 = 3
    BY SourceDims
  <2>2. SubSeq(a.ne, 2 + 1, Len(a.ne)) \in Seq(Nat)
        /\ Len(SubSeq(a.ne, 2 + 1, Len(a.ne))) = (IF Len(a.ne) > 2 THEN Len(a.ne) - 2 ELSE 0)
    BY <2>1, Beyond
  <2> QED
    BY <2>1, <2>2
<1>2. y \in Seq(Nat) /\ Len(y) = (IF l > 2 THEN l - 2 ELSE 0) /\ l \in 1..4
  <2>1. b.ne \in Seq(Nat) /\ Len(b.ne) \in 1..4 /\ 2 \in 1..2 /\ 2 + 1 = 3
    BY SourceDims
  <2>2. SubSeq(b.ne, 2 + 1, Len(b.ne)) \in Seq(Nat)
        /\ Len(SubSeq(b.ne, 2 + 1, Len(b.ne))) = (IF Len(b.ne) > 2 THEN Len(b.ne) - 2 ELSE 0)
    BY <2>1, Beyond
  <2> QED
    BY <2>1, <2>2
<1>3. Broadcastable(x, y) /\ Within(Broadened(x, y), o)
  OBVIOUS
<1> HIDE DEF x, y, k, l
<1>4. Within(x, Clipped(x, o)) /\ Within(y, Clipped(y, o))
  BY <1>1, <1>2, <1>3, ClippedWithin
<1> DEFINE z == Broadened(x, y)  n == Len(o)  p == Len(x)  q == Len(y)
<1>5. z \in Seq(Nat) /\ Len(z) = (IF p >= q THEN p ELSE q)
  BY <1>1, <1>2, BroadenedShape
<1>6. Len(o) = Len(z)
  <2>1. DOMAIN o = DOMAIN z
    BY <1>3 DEF Within
  <2> HIDE DEF z
  <2>2. DOMAIN o = 1..Len(o) /\ DOMAIN z = 1..Len(z) /\ Len(o) \in Nat /\ Len(z) \in Nat
    BY <1>5
  <2> DEFINE u == Len(o)  w == Len(z)
  <2>3. u \in Nat /\ w \in Nat /\ 1..u = 1..w
    BY <2>1, <2>2
  <2> HIDE DEF u, w
  <2>4. u = w
    <3>1. u \in 1..u => u \in 1..w
      BY <2>3
    <3>2. w \in 1..w => w \in 1..u
      BY <2>3
    <3> QED
      BY <2>3, <3>1, <3>2
  <2> QED
    BY <2>4 DEF u, w
<1>7. n = (IF p >= q THEN p ELSE q) /\ p \in Nat /\ q \in Nat
  BY <1>1, <1>2, <1>5, <1>6
<1>8. n >= k - 2 /\ n >= l - 2
  <2>1. p = (IF k > 2 THEN k - 2 ELSE 0) /\ q = (IF l > 2 THEN l - 2 ELSE 0) /\ k \in 1..4 /\ l \in 1..4
    BY <1>1, <1>2
  <2> HIDE DEF n, p, q
  <2> QED
    BY <1>7, <2>1
<1> QED
  BY <1>4, <1>8 DEF n, x, y, k, l

(* The elements of a matrix product, for a second operand with or without rows. *)
LEMMA ProductReads ==
  ASSUME NEW a, Source(a), NEW b, Source(b), Len(a.ne) >= 2, a.ne[1] = b.ne[1],
         Broadcastable(SubSeq(a.ne, 3, Len(a.ne)), SubSeq(b.ne, 3, Len(b.ne))),
         NEW o, o \in Seq(Int),
         Within(Broadened(SubSeq(a.ne, 3, Len(a.ne)), SubSeq(b.ne, 3, Len(b.ne))), o),
         NEW i \in 0..(a.ne[2] - 1), NEW j, Len(b.ne) # 1 => j \in 0..(b.ne[2] - 1)
  PROVE  Dot(Row(a, <<0>> \o Clipped(Tail(a.ne), <<i>> \o o)),
             IF Len(b.ne) = 1 THEN b.v ELSE Row(b, <<0>> \o Clipped(Tail(b.ne), <<j>> \o o))) \in Int
<1> DEFINE s == Row(a, <<0>> \o Clipped(Tail(a.ne), <<i>> \o o))
           t == IF Len(b.ne) = 1 THEN b.v ELSE Row(b, <<0>> \o Clipped(Tail(b.ne), <<j>> \o o))
           n == a.ne[1]
<1>1. /\ Len(o) >= Len(a.ne) - 2 /\ Len(o) >= Len(b.ne) - 2
      /\ Within(SubSeq(a.ne, 3, Len(a.ne)), Clipped(SubSeq(a.ne, 3, Len(a.ne)), o))
      /\ Within(SubSeq(b.ne, 3, Len(b.ne)), Clipped(SubSeq(b.ne, 3, Len(b.ne)), o))
  BY OuterReads
<1>2. n \in Nat /\ b.ne \in Seq(Nat) /\ Len(b.ne) \in 1..4 /\ DOMAIN b.ne = 1..Len(b.ne) /\ b.ne[1] = n
  BY SourceDims
<1>3. s \in [1..n -> Int]
  BY <1>1, LineReads
<1>4. t \in [1..n -> Int]
  <2>1. CASE Len(b.ne) = 1
    <3>1. t = b.v
      BY <2>1
    <3>2. b.v \in [1..Elems(b.ne) -> Int]
      BY DEF Source, IntArray
    <3>3. Elems(b.ne) = n
      <4>1. DOMAIN b.ne = 1..1
        BY <1>2, <2>1
      <4>2. \A d \in 1..1 : b.ne[d] \in Int
        BY <1>2
      <4>3. 1 \in 0..4
        OBVIOUS
      <4>4. Elems(b.ne) = Volume(b.ne)
        BY <4>1, <4>2, <4>3, ElemsVolume
      <4>5. Dim(b.ne, 1) = n /\ Dim(b.ne, 2) = 1 /\ Dim(b.ne, 3) = 1 /\ Dim(b.ne, 4) = 1
        BY <1>2, <4>1 DEF Dim
      <4>6. n * 1 * 1 * 1 = n
        BY <1>2
      <4> QED
        BY <4>4, <4>5, <4>6 DEF Volume
    <3> QED
      BY <3>1, <3>2, <3>3
  <2>2. CASE Len(b.ne) # 1
    <3>1. t = Row(b, <<0>> \o Clipped(Tail(b.ne), <<j>> \o o))
      BY <2>2
    <3>2. Len(b.ne) >= 2 /\ j \in 0..(b.ne[2] - 1)
      BY <1>2, <2>2
    <3>3. Row(b, <<0>> \o Clipped(Tail(b.ne), <<j>> \o o)) \in [1..b.ne[1] -> Int]
      BY <1>1, <3>2, LineReads
    <3> QED
      BY <1>2, <3>1, <3>3
  <2> QED
    BY <2>1, <2>2
<1> HIDE DEF s, t, n
<1>5. DOMAIN s = 1..n /\ \A d \in 1..n : s[d] \in Int /\ t[d] \in Int
  BY <1>3, <1>4
<1>6. Dot(s, t) \in Int
  BY <1>2, <1>5, DotInt
<1> QED
  BY <1>6 DEF s, t

(* The leading dimensions of a matrix product. *)
LEMMA LeadingDims ==
  ASSUME NEW p \in Nat, NEW q \in Nat, NEW one \in BOOLEAN,
         NEW rows, rows = (IF one THEN <<>> ELSE <<q>>)
  PROVE  /\ <<p>> \o rows \in Seq(Nat) /\ Len(<<p>> \o rows) + 1 = Len(rows) + 2
         /\ 1 \in 1..Len(<<p>> \o rows) /\ (<<p>> \o rows)[1] = p
         /\ one <=> rows = <<>>
         /\ ~one => 2 \in 1..Len(<<p>> \o rows) /\ (<<p>> \o rows)[2] = q
<1>1. CASE one
  <2>1. rows = <<>> /\ <<p>> \o rows = <<p>>
    BY <1>1
  <2>2. <<p>> \in Seq(Nat) /\ Len(<<p>>) = 1 /\ <<p>>[1] = p /\ Len(<<>>) = 0 /\ 1 \in 1..1
    OBVIOUS
  <2> QED
    BY <1>1, <2>1, <2>2
<1>2. CASE ~one
  <2>1. rows = <<q>>
    BY <1>2
  <2>3. <<p>> \o <<q>> = <<p, q>>
    <3> DEFINE r == <<p>> \o <<q>>
    <3>1. r \in Seq(Nat) /\ Len(r) = 2 /\ r[1] = p /\ r[2] = q
      OBVIOUS
    <3> HIDE DEF r
    <3>2. r = <<p, q>>
      BY <3>1
    <3> QED
      BY <3>2 DEF r
  <2>2. <<p, q>> \in Seq(Nat) /\ Len(<<p, q>>) = 2 /\ <<p, q>>[1] = p /\ <<p, q>>[2] = q
        /\ Len(<<q>>) = 1 /\ 1 \in 1..2 /\ 2 \in 1..2 /\ <<q>> # <<>>
    OBVIOUS
  <2> QED
    BY <1>2, <2>1, <2>2, <2>3
<1> QED
  BY <1>1, <1>2

(* The batched product of the host reads its operands inside their extents. *)
LEMMA MatMulTyped ==
  ASSUME NEW a, Source(a), NEW b, Source(b), Len(a.ne) >= 2, a.ne[1] = b.ne[1],
         Broadcastable(SubSeq(a.ne, 3, Len(a.ne)), SubSeq(b.ne, 3, Len(b.ne)))
  PROVE  IntArray(MatMul(a, b))
<1> DEFINE outer == Broadened(SubSeq(a.ne, 3, Len(a.ne)), SubSeq(b.ne, 3, Len(b.ne)))
           rows == IF Len(b.ne) = 1 THEN <<>> ELSE <<b.ne[2]>>
           pre == <<a.ne[2]>> \o rows
           ne == pre \o outer
           Of(c) == SubSeq(c, Len(rows) + 2, Len(c))
           Elem(c) == Dot(Row(a, <<0>> \o Clipped(Tail(a.ne), <<c[1]>> \o Of(c))),
                          IF rows = <<>> THEN b.v
                          ELSE Row(b, <<0>> \o Clipped(Tail(b.ne), <<c[2]>> \o Of(c))))
           v == [k \in 1..Elems(ne) |-> Elem(Coord(ne, k - 1))]
<1>1. a.ne[2] \in Nat
  <2>1. DOMAIN a.ne = 1..Len(a.ne) /\ \A d \in DOMAIN a.ne : a.ne[d] \in Nat
    BY SourceDims
  <2>2. 2 \in 1..Len(a.ne)
    <3>1. Len(a.ne) \in Nat
      BY SourceDims
    <3> DEFINE l == Len(a.ne)
    <3>2. l \in Nat /\ l >= 2
      BY <3>1
    <3> HIDE DEF l
    <3> QED
      BY <3>2 DEF l
  <2> QED
    BY <2>1, <2>2
<1>2. /\ pre \in Seq(Nat) /\ Len(pre) + 1 = Len(rows) + 2
      /\ 1 \in 1..Len(pre) /\ pre[1] = a.ne[2]
      /\ (Len(b.ne) = 1) <=> (rows = <<>>)
      /\ Len(b.ne) # 1 => 2 \in 1..Len(pre) /\ pre[2] = b.ne[2]
  <2>1. CASE Len(b.ne) = 1
    <3>1. rows = (IF TRUE THEN <<>> ELSE <<0>>) /\ TRUE \in BOOLEAN /\ 0 \in Nat
      BY <2>1
    <3> HIDE DEF rows
    <3> QED
      BY <1>1, <2>1, <3>1, LeadingDims
  <2>2. CASE Len(b.ne) # 1
    <3>1. rows = (IF FALSE THEN <<>> ELSE <<b.ne[2]>>) /\ FALSE \in BOOLEAN
      BY <2>2
    <3>2. b.ne[2] \in Nat
      <4>1. DOMAIN b.ne = 1..Len(b.ne) /\ \A d \in DOMAIN b.ne : b.ne[d] \in Nat
        BY SourceDims
      <4>2. Len(b.ne) \in 1..4
        BY SourceDims
      <4> DEFINE l == Len(b.ne)
      <4>3. l \in 1..4 /\ l # 1
        BY <2>2, <4>2
      <4> HIDE DEF l
      <4>4. 2 \in 1..l
        BY <4>3
      <4> QED
        BY <4>1, <4>4 DEF l
    <3> HIDE DEF rows
    <3> DEFINE p == a.ne[2]  q == b.ne[2]
    <3>3. p \in Nat /\ q \in Nat /\ rows = (IF FALSE THEN <<>> ELSE <<q>>)
      BY <1>1, <3>1, <3>2
    <3> HIDE DEF p, q
    <3>4. /\ <<p>> \o rows \in Seq(Nat) /\ Len(<<p>> \o rows) + 1 = Len(rows) + 2
          /\ 1 \in 1..Len(<<p>> \o rows) /\ (<<p>> \o rows)[1] = p
          /\ FALSE <=> rows = <<>>
          /\ 2 \in 1..Len(<<p>> \o rows) /\ (<<p>> \o rows)[2] = q
      BY <3>1, <3>3, LeadingDims
    <3> QED
      BY <2>2, <3>4 DEF p, q
  <2> QED
    BY <2>1, <2>2
<1>3. outer \in Seq(Nat)
  <2>1. a.ne \in Seq(Nat) /\ Len(a.ne) \in 1..4 /\ b.ne \in Seq(Nat) /\ Len(b.ne) \in 1..4
    BY SourceDims
  <2>2. 2 \in 1..2 /\ 2 + 1 = 3
    OBVIOUS
  <2>3. SubSeq(a.ne, 2 + 1, Len(a.ne)) \in Seq(Nat) /\ SubSeq(b.ne, 2 + 1, Len(b.ne)) \in Seq(Nat)
    BY <2>1, <2>2, Beyond
  <2> QED
    BY <2>2, <2>3, BroadenedShape
<1> HIDE DEF rows, outer, pre
<1>4. \A k \in 1..Elems(ne) : v[k] \in Int
  <2> SUFFICES ASSUME NEW k \in 1..Elems(ne) PROVE Elem(Coord(ne, k - 1)) \in Int
    OBVIOUS
  <2> DEFINE c == Coord(ne, k - 1)  o == SubSeq(c, Len(pre) + 1, Len(c))
  <2>1. /\ \A d \in 1..Len(pre) : c[d] \in 0..(pre[d] - 1)
        /\ o \in Seq(Int) /\ Within(outer, o)
    BY <1>2, <1>3, SplitCoord
  <2> HIDE DEF c
  <2>2. Of(c) = o
    BY <1>2
  <2> HIDE DEF o
  <2>3. c[1] \in 0..(a.ne[2] - 1) /\ (Len(b.ne) # 1 => c[2] \in 0..(b.ne[2] - 1))
    BY <1>2, <2>1
  <2>4. Dot(Row(a, <<0>> \o Clipped(Tail(a.ne), <<c[1]>> \o o)),
            IF Len(b.ne) = 1 THEN b.v ELSE Row(b, <<0>> \o Clipped(Tail(b.ne), <<c[2]>> \o o))) \in Int
    <3>1. Within(Broadened(SubSeq(a.ne, 3, Len(a.ne)), SubSeq(b.ne, 3, Len(b.ne))), o)
      BY <2>1 DEF outer
    <3> QED
      BY <2>1, <2>3, <3>1, ProductReads
  <2>5. Elem(c) \in Int
    BY <1>2, <2>2, <2>4
  <2> QED
    BY <2>5 DEF c
<1>5. ne \in Seq(Nat)
  BY <1>2, <1>3, ConcatProperties
<1>6. v = [k \in 1..Elems(ne) |-> v[k]]
  OBVIOUS
<1>7. MatMul(a, b) = [ne |-> ne, v |-> v]
  BY Zenon DEF MatMul, Array, rows, outer, pre
<1> HIDE DEF v, ne
<1> QED
  BY <1>4, <1>5, <1>6, <1>7, ArrayTyped

(* An element of an operand of an outer product: a place in its first dimension, and one in the
   broadcast of the others. *)
LEMMA ColumnReads ==
  ASSUME NEW x, Source(x), NEW i \in 0..(x.ne[1] - 1), NEW o,
         Within(Tail(x.ne), Clipped(Tail(x.ne), o))
  PROVE  At(x, <<i>> \o Clipped(Tail(x.ne), o)) \in Int
<1> DEFINE ne == x.ne  l == Len(ne)  t == Tail(ne)  f == Clipped(t, o)  c == <<i>> \o f
<1>1. ne \in Seq(Nat) /\ l \in 1..4 /\ DOMAIN ne = 1..l /\ \A d \in 1..l : ne[d] \in Nat
  BY SourceDims
<1>2. t \in Seq(Nat) /\ Len(t) = l - 1 /\ \A d \in 1..(l - 1) : t[d] = ne[d + 1]
  <2> HIDE DEF ne
  <2> QED
    BY <1>1, AfterFirst
<1>3. DOMAIN t = 1..(l - 1)
  <2>1. DOMAIN t = 1..Len(t)
    BY <1>2
  <2> QED
    BY <1>2, <2>1
<1>4. \A d \in 1..(l - 1) : f[d] \in 0..(ne[d + 1] - 1)
  <2>1. Within(t, f)
    OBVIOUS
  <2> HIDE DEF f, t, ne, l
  <2> QED
    BY <1>2, <1>3, <2>1 DEF Within
<1>5. f = [d \in 1..(l - 1) |-> f[d]]
  <2> HIDE DEF t
  <2>1. f = [d \in DOMAIN t |-> f[d]]
    BY Zenon DEF Clipped
  <2> HIDE DEF f
  <2> QED
    BY <1>3, <2>1, Zenon
<1>6. i \in 0..(ne[1] - 1)
  OBVIOUS
<1> HIDE DEF f, t, ne, l
<1>7. f \in Seq(Int) /\ Len(f) = l - 1
  <2>1. l - 1 \in Nat
    BY <1>1
  <2>2. \A d \in 1..(l - 1) : f[d] \in Int
    <3> TAKE d \in 1..(l - 1)
    <3>1. d + 1 \in 1..l
      BY <1>1
    <3>2. ne[d + 1] \in Nat /\ f[d] \in 0..(ne[d + 1] - 1)
      BY <1>1, <1>4, <3>1
    <3> QED
      BY <3>2
  <2>3. f \in [1..(l - 1) -> Int]
    BY <1>5, <2>2
  <2>4. f \in Seq(Int)
    BY <2>1, <2>3, IntoSeq
  <2> QED
    BY <1>5, <2>1, <2>4, VectorIsSeq
<1>8. DOMAIN c = 1..l /\ c[1] = i /\ \A d \in 2..l : c[d] = f[d - 1]
  <2>1. i \in Int
    <3>1. 1 \in 1..l
      BY <1>1
    <3> QED
      BY <1>1, <1>6, <3>1
  <2> DEFINE u == <<i>>
  <2>2. u \in Seq(Int) /\ Len(u) = 1 /\ u[1] = i
    BY <2>1
  <2> HIDE DEF u
  <2>3. /\ u \o f \in Seq(Int) /\ Len(u \o f) = Len(u) + Len(f)
        /\ \A d \in 1..(Len(u) + Len(f)) : (u \o f)[d] = IF d <= Len(u) THEN u[d] ELSE f[d - Len(u)]
    BY <1>7, <2>2, ConcatProperties
  <2>4. c = u \o f
    BY DEF u
  <2> HIDE DEF c
  <2>5. Len(u) + Len(f) = l /\ 1 \in 1..l /\ \A d \in 2..l : d \in 1..l /\ ~(d <= 1)
    BY <1>1, <1>7, <2>2
  <2>6. c \in Seq(Int) /\ Len(c) = l /\ \A d \in 1..l : c[d] = IF d <= 1 THEN u[d] ELSE f[d - 1]
    BY <2>2, <2>3, <2>4, <2>5
  <2>7. DOMAIN c = 1..l
    BY <2>6
  <2> QED
    BY <2>2, <2>5, <2>6, <2>7
<1> HIDE DEF c
<1>9. \A d \in 1..l : c[d] \in 0..(ne[d] - 1)
  <2> TAKE d \in 1..l
  <2>1. CASE d = 1
    BY <1>6, <1>8, <2>1
  <2>2. CASE d # 1
    <3>1. d \in 2..l /\ d - 1 \in 1..(l - 1) /\ (d - 1) + 1 = d
      BY <1>1, <2>2
    <3> QED
      BY <1>4, <1>8, <3>1
  <2> QED
    BY <2>1, <2>2
<1>10. Within(ne, c)
  BY <1>1, <1>8, <1>9 DEF Within
<1>11. IntArray(x)
  BY DEF Source
<1>12. At(x, c) \in Int
  BY <1>10, <1>11, AtTyped DEF ne
<1> QED
  BY <1>12 DEF c, f, t, ne

(* The outer product of the host reads its operands inside their extents. *)
LEMMA OutProdTyped ==
  ASSUME NEW a, Source(a), NEW b, Source(b), Broadcastable(Tail(a.ne), Tail(b.ne))
  PROVE  IntArray(OutProd(a, b))
<1> DEFINE x == Tail(a.ne)  y == Tail(b.ne)  outer == Broadened(x, y)
           pre == <<a.ne[1], b.ne[1]>>  ne == pre \o outer
           Of(c) == SubSeq(c, 3, Len(c))
           Elem(c) == At(b, <<c[2]>> \o Clipped(y, Of(c))) * At(a, <<c[1]>> \o Clipped(x, Of(c)))
           v == [k \in 1..Elems(ne) |-> Elem(Coord(ne, k - 1))]
<1>1. x \in Seq(Nat) /\ y \in Seq(Nat)
  <2>1. a.ne \in Seq(Nat) /\ Len(a.ne) \in 1..4 /\ b.ne \in Seq(Nat) /\ Len(b.ne) \in 1..4
    BY SourceDims
  <2> QED
    BY <2>1, AfterFirst
<1>2. pre \in Seq(Nat) /\ Len(pre) + 1 = 3 /\ pre[1] = a.ne[1] /\ pre[2] = b.ne[1]
      /\ 1 \in 1..Len(pre) /\ 2 \in 1..Len(pre)
  <2> DEFINE p == a.ne[1]  q == b.ne[1]
  <2>1. p \in Nat /\ q \in Nat
    BY SourceDims
  <2> HIDE DEF p, q
  <2>2. <<p, q>> \in Seq(Nat) /\ Len(<<p, q>>) = 2 /\ <<p, q>>[1] = p /\ <<p, q>>[2] = q
    BY <2>1
  <2>3. pre = <<p, q>>
    BY DEF p, q
  <2> HIDE DEF pre
  <2>4. 2 + 1 = 3 /\ 1 \in 1..2 /\ 2 \in 1..2
    OBVIOUS
  <2>5. Len(pre) + 1 = 3 /\ 1 \in 1..Len(pre) /\ 2 \in 1..Len(pre)
    BY <2>2, <2>3, <2>4
  <2>6. pre[1] = p /\ pre[2] = q /\ pre \in Seq(Nat)
    BY <2>2, <2>3
  <2> QED
    BY <2>5, <2>6 DEF p, q
<1> HIDE DEF pre
<1>3. Broadcastable(x, y)
  OBVIOUS
<1>4. outer \in Seq(Nat)
  <2> HIDE DEF x, y
  <2> QED
    BY <1>1, BroadenedShape
<1>5. \A k \in 1..Elems(ne) : v[k] \in Int
  <2> SUFFICES ASSUME NEW k \in 1..Elems(ne) PROVE Elem(Coord(ne, k - 1)) \in Int
    OBVIOUS
  <2> DEFINE c == Coord(ne, k - 1)  o == SubSeq(c, Len(pre) + 1, Len(c))
  <2>1. /\ \A d \in 1..Len(pre) : c[d] \in 0..(pre[d] - 1)
        /\ o \in Seq(Int) /\ Within(outer, o)
    <3> HIDE DEF outer
    <3> QED
      BY <1>2, <1>4, SplitCoord
  <2> HIDE DEF c
  <2>2. Of(c) = o
    BY <1>2
  <2> HIDE DEF o
  <2>3. c[1] \in 0..(a.ne[1] - 1) /\ c[2] \in 0..(b.ne[1] - 1)
    BY <1>2, <2>1
  <2>4. Within(x, Clipped(x, o)) /\ Within(y, Clipped(y, o))
    <3> HIDE DEF x, y
    <3> QED
      BY <1>1, <1>3, <2>1, ClippedWithin
  <2>5. At(a, <<c[1]>> \o Clipped(x, o)) \in Int /\ At(b, <<c[2]>> \o Clipped(y, o)) \in Int
    BY <2>3, <2>4, ColumnReads
  <2>6. \A p, q \in Int : p * q \in Int
    OBVIOUS
  <2>7. At(b, <<c[2]>> \o Clipped(y, o)) * At(a, <<c[1]>> \o Clipped(x, o)) \in Int
    BY <2>5, <2>6
  <2>8. Elem(c) \in Int
    BY <2>2, <2>7
  <2> QED
    BY <2>8 DEF c
<1> HIDE DEF outer
<1>6. ne \in Seq(Nat)
  BY <1>2, <1>4, ConcatProperties
<1>7. v = [k \in 1..Elems(ne) |-> v[k]]
  OBVIOUS
<1>8. OutProd(a, b) = [ne |-> ne, v |-> v]
  BY Zenon DEF OutProd, Array, outer, pre
<1> HIDE DEF v, ne
<1> QED
  BY <1>5, <1>6, <1>7, <1>8, ArrayTyped

(* A matrix product or an outer product leaves integers. *)
LEMMA MatsTyped ==
  ASSUME NEW n, NEW s, SourceArrays(s), Len(s) \in Nat, Len(s) >= 2
  PROVE  Typed(MatResult(n, s))
<1> DEFINE a == s[1]  b == s[2]
           Refusal == \/ Len(a.ne) < 2 \/ a.ne[1] # b.ne[1]
                      \/ ~Broadcastable(SubSeq(a.ne, 3, Len(a.ne)), SubSeq(b.ne, 3, Len(b.ne)))
<1>1. Source(a) /\ Source(b)
  <2>1. 1 \in 1..Len(s) /\ 2 \in 1..Len(s)
    <3> DEFINE l == Len(s)
    <3>1. l \in Nat /\ l >= 2
      OBVIOUS
    <3> HIDE DEF l
    <3>2. 1 \in 1..l /\ 2 \in 1..l
      BY <3>1
    <3> QED
      BY <3>2 DEF l
  <2> QED
    BY <2>1 DEF SourceArrays
<1>2. MatResult(n, s) =
        IF n.op = "OUT_PROD"
        THEN Unless(~Broadcastable(Tail(a.ne), Tail(b.ne)), Ok(OutProd(a, b)))
        ELSE Unless(Refusal, Ok(MatMul(a, b)))
  BY Zenon DEF MatResult
<1> HIDE DEF a, b
<1>3. Typed(Unless(~Broadcastable(Tail(a.ne), Tail(b.ne)), Ok(OutProd(a, b))))
  <2>1. Broadcastable(Tail(a.ne), Tail(b.ne)) => Typed(Ok(OutProd(a, b)))
    BY <1>1, OutProdTyped, TypedOk
  <2> QED
    BY <2>1, TypedUnless
<1>4. Typed(Unless(Refusal, Ok(MatMul(a, b))))
  <2>1. ~Refusal => Typed(Ok(MatMul(a, b)))
    <3> HAVE ~Refusal
    <3>1. Len(a.ne) >= 2
      <4>1. ~(Len(a.ne) < 2) /\ Len(a.ne) \in Nat
        BY <1>1, SourceDims
      <4> DEFINE l == Len(a.ne)
      <4>2. ~(l < 2) /\ l \in Nat
        BY <4>1
      <4> HIDE DEF l
      <4>3. l >= 2
        BY <4>2
      <4> QED
        BY <4>3 DEF l
    <3> QED
      BY <1>1, <3>1, MatMulTyped, TypedOk
  <2> HIDE DEF Refusal
  <2> QED
    BY <2>1, TypedUnless
<1> HIDE DEF Refusal
<1> QED
  BY <1>2, <1>3, <1>4

(* FILL leaves a parameter everywhere. *)
LEMMA FilledTyped ==
  ASSUME NEW n \in NodeType
  PROVE  Typed(Ok(Array([d \in 1..4 |-> Max({1, n.dst.ne[d]})], LAMBDA c : n.p[1])))
<1> DEFINE ne == [d \in 1..4 |-> Max({1, n.dst.ne[d]})]
           v == [k \in 1..Elems(ne) |-> n.p[1]]
<1>1. ne \in Seq(Nat)
  <2>1. \A d \in 1..4 : ne[d] \in Nat
    <3> SUFFICES ASSUME NEW d \in 1..4 PROVE Max({1, n.dst.ne[d]}) \in Nat
      OBVIOUS
    <3> DEFINE x == n.dst.ne[d]
    <3>1. x \in Nat
      BY DEF NodeType, TensorType
    <3> HIDE DEF x
    <3>2. Max({1, x}) \in {1, x}
      <4>1. \E z \in {1, x} : \A w \in {1, x} : z >= w
        BY <3>1
      <4> QED
        BY <4>1 DEF Max
    <3>3. Max({1, x}) \in Nat
      BY <3>1, <3>2
    <3> QED
      BY <3>3 DEF x
  <2>2. ne \in [1..4 -> Nat] /\ 4 \in Nat
    BY <2>1
  <2> HIDE DEF ne
  <2> QED
    BY <2>2, IntoSeq
<1>2. n.p[1] \in Int
  BY Params
<1> HIDE DEF ne
<1>3. \A k \in 1..Elems(ne) : v[k] \in Int
  BY <1>2
<1>4. v = [k \in 1..Elems(ne) |-> v[k]]
  OBVIOUS
<1>5. Array([d \in 1..4 |-> Max({1, n.dst.ne[d]})], LAMBDA c : n.p[1]) = [ne |-> ne, v |-> v]
  BY Zenon DEF Array, ne
<1> HIDE DEF v
<1>6. IntArray([ne |-> ne, v |-> v])
  BY <1>1, <1>3, <1>4, ArrayTyped
<1> QED
  BY <1>5, <1>6, TypedOk

(* Every operator of the backend takes arrays of integers to one. *)
LEMMA ComputeTyped ==
  ASSUME NEW n \in NodeType, NEW s, SourceArrays(s), Len(s) \in Nat
  PROVE  Typed(Compute(n, s))
<1> DEFINE filled == Ok(Array([d \in 1..4 |-> Max({1, n.dst.ne[d]})], LAMBDA c : n.p[1]))
           l == Len(s)
<1>1. CASE l < Arity(n)
  BY <1>1, TypedRefused DEF Compute
<1>2. CASE ~(l < Arity(n))
  <2>1. l \in Nat /\ (Arity(n) = 1 => l >= 1) /\ (Arity(n) = 2 => l >= 1 /\ l >= 2)
    <3>1. l \in Nat
      OBVIOUS
    <3> HIDE DEF l
    <3> QED
      BY <1>2, <3>1
  <2>2. n.op \in Elementwise => Typed(ElementResult(n, s))
    <3> HAVE n.op \in Elementwise
    <3>1. Arity(n) \in {1, 2} /\ (n.op \in {"ADD1"} \cup BinaryOps => Arity(n) = 2)
      BY DEF Arity, OneSource, TwoSources, ElementOps, BinaryOps, Elementwise
    <3> QED
      BY <2>1, <3>1, ElementTyped
  <2>3. n.op \in RowOps => Typed(RowResult(n, s))
    <3> HAVE n.op \in RowOps
    <3>1. Arity(n) \in {1, 2} /\ (n.op = "COUNT_EQUAL" => Arity(n) = 2)
      BY DEF Arity, OneSource, TwoSources, ElementOps, BinaryOps, RowOps
    <3> QED
      BY <2>1, <3>1, RowsResultTyped
  <2>4. n.op \in MoveOps => Typed(MoveResult(n, s))
    <3> HAVE n.op \in MoveOps
    <3>1. Arity(n) \in {1, 2} /\ (n.op \in {"CONCAT", "GET_ROWS"} => Arity(n) = 2)
      BY DEF Arity, OneSource, TwoSources, ElementOps, BinaryOps, MoveOps
    <3> QED
      BY <2>1, <3>1, MovesTyped
  <2>5. n.op \in {"MUL_MAT", "OUT_PROD"} => Typed(MatResult(n, s))
    <3> HAVE n.op \in {"MUL_MAT", "OUT_PROD"}
    <3>1. Arity(n) = 2
      BY DEF Arity, OneSource, TwoSources, ElementOps, BinaryOps
    <3> QED
      BY <2>1, <3>1, MatsTyped
  <2>6. n.op \in Windowed => Typed(WindowResult(n, s))
    <3> HAVE n.op \in Windowed
    <3>1. /\ n.op = "POOL_2D" => Arity(n) = 1
          /\ n.op \in {"CONV_2D", "CONV_2D_DW"} \/ (n.op = "IM2COL" /\ n.p[7] # 0) => Arity(n) = 2
      BY DEF Arity, OneSource, TwoSources, ElementOps, BinaryOps, Windowed
    <3> QED
      BY <2>1, <3>1, WindowsTyped
  <2>7. Compute(n, s) =
          CASE n.op \in Elementwise -> ElementResult(n, s)
            [] n.op \in RowOps -> RowResult(n, s)
            [] n.op \in {"MUL_MAT", "OUT_PROD"} -> MatResult(n, s)
            [] n.op \in MoveOps -> MoveResult(n, s)
            [] n.op \in Windowed -> WindowResult(n, s)
            [] n.op = "FILL" -> filled
            [] n.op \in ViewOps -> Nothing
            [] OTHER -> NotImplemented
    BY <1>2, Zenon DEF Compute, Elementwise, Windowed
  <2>8. Typed(filled)
    BY FilledTyped
  <2> HIDE DEF filled
  <2> QED
    BY <2>2, <2>3, <2>4, <2>5, <2>6, <2>7, <2>8, TypedRefused
<1> QED
  BY <1>1, <1>2

-----------------------------------------------------------------------------
(* The memory that a graph names. *)

(* The halfwords that the server or NumPy reads of a tensor are integers. *)
Readable(t, m) ==
  /\ \A a \in Extent(t) : m[a] \in Int
  /\ \A k \in 0..(Elems(t.ne) - 1) :
       m[t.data + k] \in Int /\ m[t.data + Offset(t.nb, Coord(Shape(t), k))] \in Int

(* A view of such a tensor is an array of integers. *)
LEMMA ViewTyped ==
  ASSUME NEW t \in TensorType, NEW m, Readable(t, m)
  PROVE  Source(View(t, m))
<1> DEFINE ne == Shape(t)
           v == [k \in 1..Elems(ne) |-> m[t.data + Offset(t.nb, Coord(ne, k - 1))]]
<1>1. ne \in [1..NDim(t) -> Nat] /\ Len(ne) = NDim(t) /\ NDim(t) \in 1..4
  BY Shapes
<1>2. ne \in Seq(Nat)
  <2>1. NDim(t) \in Nat
    BY <1>1
  <2> HIDE DEF ne
  <2> QED
    BY <1>1, <2>1, IntoSeq
<1>3. Elems(ne) = Elems(t.ne) /\ Elems(t.ne) \in Nat
  BY ElemsOfTensor
<1>4. \A k \in 1..Elems(ne) : v[k] \in Int
  <2> SUFFICES ASSUME NEW k \in 1..Elems(ne)
               PROVE  m[t.data + Offset(t.nb, Coord(ne, k - 1))] \in Int
    OBVIOUS
  <2>1. k - 1 \in 0..(Elems(t.ne) - 1)
    BY <1>3
  <2> QED
    BY <2>1 DEF Readable
<1>5. View(t, m) = [ne |-> ne, v |-> v]
  BY Zenon DEF View, Array
<1>6. v = [k \in 1..Elems(ne) |-> v[k]]
  OBVIOUS
<1> HIDE DEF v, ne
<1>7. IntArray([ne |-> ne, v |-> v])
  BY <1>2, <1>4, <1>6, ArrayTyped
<1>8. IntArray(View(t, m)) /\ View(t, m).ne = ne
  BY <1>5, <1>7
<1> QED
  BY <1>1, <1>8 DEF Source

(* What a write encodes, and what it leaves. *)
LEMMA EncodeTyped ==
  ASSUME NEW type, NEW k \in Nat, NEW v, v = [i \in 1..k |-> v[i]], \A i \in 1..k : v[i] \in Int
  PROVE  \A i \in DOMAIN Encode(type, v) : Encode(type, v)[i] \in Int
<1>1. IsSeq(v) /\ Len(v) = k /\ DOMAIN v = 1..k
  BY VectorIsSeq
<1>2. CASE Width(type) = 1
  BY <1>1, <1>2 DEF Encode
<1>3. CASE Width(type) # 1
  <2> DEFINE u == Encode(type, v)
  <2>1. u = [i \in 1..(2 * k) |-> IF i % 2 = 1 THEN v[(i + 1) \div 2] ELSE Low]
    BY <1>1, <1>3 DEF Encode
  <2> HIDE DEF u
  <2>2. \A i \in 1..(2 * k) : u[i] \in Int
    <3> TAKE i \in 1..(2 * k)
    <3>1. i % 2 = 1 => (i + 1) \div 2 \in 1..k
      OBVIOUS
    <3>2. Low \in Int
      BY DEF Low
    <3> QED
      BY <2>1, <3>1, <3>2
  <2>3. DOMAIN u = 1..(2 * k)
    BY <2>1
  <2> QED
    BY <2>2, <2>3 DEF u
<1> QED
  BY <1>2, <1>3

(* Every unit of a memory is an integer. *)
Integral(m) == \A a \in DOMAIN m : m[a] \in Int

(* Writing integers into a buffer leaves one of integers. *)
LEMMA StoreTyped ==
  ASSUME NEW m, Integral(m), NEW at \in Nat, NEW units, Len(units) \in Nat,
         \A i \in 1..Len(units) : units[i] \in Int
  PROVE  Integral(Store(m, at, units))
<1> DEFINE w == Store(m, at, units)  l == Len(units)
<1>1. w = [i \in DOMAIN m |-> IF i \in at .. at + l - 1 THEN units[i - at + 1] ELSE m[i]]
  BY DEF Store
<1>2. l \in Nat /\ \A i \in 1..l : units[i] \in Int
  OBVIOUS
<1> HIDE DEF w, l
<1>3. ASSUME NEW i \in DOMAIN m PROVE w[i] \in Int
  <2>1. i \in at .. at + l - 1 => i - at + 1 \in 1..l
    BY <1>2
  <2> QED
    BY <1>1, <1>2, <2>1 DEF Integral
<1>4. DOMAIN w = DOMAIN m
  BY <1>1
<1> QED
  BY <1>3, <1>4 DEF Integral, w

(* Writing an array back through the strides of its tensor leaves a buffer of integers. *)
LEMMA WriteTyped ==
  ASSUME NEW t \in TensorType, NEW m, Integral(m), NEW a, IntArray(a), WriteTensor(t, m, a).is = "ok"
  PROVE  Integral(WriteTensor(t, m, a).x)
<1> DEFINE u == Encode(t.type, a.v)
<1>1. WriteTensor(t, m, a).x = Store(m, t.data, u)
  BY DEF WriteTensor, NotImplemented, Unless, Raises, Ok
<1>2. Elems(a.ne) \in Nat /\ a.v = [i \in 1..Elems(a.ne) |-> a.v[i]] /\ \A i \in 1..Elems(a.ne) : a.v[i] \in Int
  BY ElemsNat DEF IntArray
<1>3. IsSeq(u) /\ Len(u) = Width(t.type) * Elems(a.ne)
  BY <1>2, EncodeLen
<1>4. \A i \in DOMAIN u : u[i] \in Int
  BY <1>2, EncodeTyped
<1>5. t.data \in Nat
  BY DEF TensorType
<1> HIDE DEF u
<1>6. Len(u) \in Nat /\ DOMAIN u = 1..Len(u)
  BY <1>3, SeqHasLen
<1> QED
  BY <1>1, <1>4, <1>5, <1>6, StoreTyped

(* A fallback leaves integers in the memory. *)
LEMMA FallbackTyped ==
  ASSUME NEW n \in NodeType, NEW m, Integral(m),
         \A i \in DOMAIN n.src : n.src[i].type \in NumPyTypes => Readable(n.src[i], m),
         Fallback(n, m).is = "ok"
  PROVE  Integral(Fallback(n, m).x)
<1> DEFINE s == Views(n, m)
<1>1. /\ \A i \in DOMAIN n.src : n.src[i].type \in NumPyTypes
      /\ Compute(n, s).is = "ok"
      /\ Fallback(n, m) = WriteTensor(n.dst, m, Compute(n, s).x)
  BY FallbackWrites
<1>2. n.src \in Seq(TensorType) /\ n.dst \in TensorType
  BY DEF NodeType
<1>3. DOMAIN n.src = 1..Len(n.src) /\ Len(n.src) \in Nat /\ \A i \in DOMAIN n.src : n.src[i] \in TensorType
  BY <1>2
<1>4. s = [i \in 1..Len(n.src) |-> s[i]]
  BY <1>3 DEF Views
<1>5. \A i \in DOMAIN n.src : s[i] = View(n.src[i], m)
  BY DEF Views
<1> HIDE DEF s
<1>6. Len(s) = Len(n.src)
  BY <1>3, <1>4, VectorIsSeq
<1>7. SourceArrays(s)
  <2>1. \A i \in DOMAIN n.src : Source(s[i])
    BY <1>1, <1>3, <1>5, ViewTyped
  <2> QED
    BY <1>3, <1>6, <2>1 DEF SourceArrays
<1>8. Typed(Compute(n, s))
  BY <1>3, <1>6, <1>7, ComputeTyped
<1>9. IntArray(Compute(n, s).x)
  BY <1>1, <1>8 DEF Typed
<1> QED
  BY <1>1, <1>2, <1>9, WriteTyped

-----------------------------------------------------------------------------
(* The firmware. *)

(* An operand of a kernel reads integers everywhere. *)
LEMMA LoadInt == ASSUME NEW A \in Seq(Int), NEW off PROVE L2(A, off) \in Int
<1>1. \A k \in DOMAIN A : A[k] \in Int
  OBVIOUS
<1>2. 0 \in Int
  OBVIOUS
<1> QED
  BY <1>1, <1>2, Zenon DEF L2

(* A kernel that loads a line of an operand gets integers, beyond its end as well. *)
LEMMA LineInt ==
  ASSUME NEW A \in Seq(Int), NEW w \in Nat, NEW r
  PROVE  Line(A, w, r) \in [1..w -> Int]
BY LoadInt DEF Line

(* The sum of a line is an integer. *)
LEMMA LineTotal ==
  ASSUME NEW A \in Seq(Int), NEW w \in Nat, NEW r
  PROVE  Total(Line(A, w, r)) \in Int
<1> DEFINE s == Line(A, w, r)
<1>1. s \in [1..w -> Int]
  BY LineInt
<1> HIDE DEF s
<1>2. DOMAIN s = 1..w /\ \A d \in 1..w : s[d] \in Int
  BY <1>1
<1>3. Total(s) \in Int
  BY <1>2, TotalInt
<1> QED
  BY <1>3 DEF s

(* The templates that move elements or map them one by one. *)
LEMMA ElementKernels ==
  ASSUME NEW A \in Seq(Int), NEW B \in Seq(Int), NEW c, NEW fn
  PROVE  /\ Integral(unary_intrin1(c, A, fn)) /\ Integral(binary_intrin1(c, A, B, fn))
         /\ Integral(unary_sqr(c, A)) /\ Integral(unary_ceil(c, A)) /\ Integral(unary_expm1(c, A))
         /\ Integral(unary_scale(c, A, B)) /\ Integral(unary_clamp(c, A, B))
<1>1. Integral(unary_intrin1(c, A, fn))
  BY LoadInt, FnInt, Zenon DEF unary_intrin1, Rows, Integral
<1>2. Integral(binary_intrin1(c, A, B, fn))
  BY LoadInt, Fn2Int, Zenon DEF binary_intrin1, Rows, Integral
<1>3. Integral(unary_sqr(c, A))
  BY LoadInt, FnInt, Zenon DEF unary_sqr, Rows, Integral
<1>4. Integral(unary_ceil(c, A))
  BY LoadInt, FnInt, Zenon DEF unary_ceil, Rows, Integral
<1>5. Integral(unary_expm1(c, A))
  BY LoadInt, FnInt, Zenon DEF unary_expm1, Rows, Integral
<1>6. Integral(unary_scale(c, A, B))
  <2>1. \A x, y \in Int : x * y \in Int
    OBVIOUS
  <2> QED
    BY <2>1, LoadInt, Zenon DEF unary_scale, Rows, Integral
<1>7. Integral(unary_clamp(c, A, B))
  BY LoadInt, LargerInt, Zenon DEF unary_clamp, Rows, Integral
<1> QED
  BY <1>1, <1>2, <1>3, <1>4, <1>5, <1>6, <1>7

(* The kernels that move elements leave integers. *)
LEMMA MoveKernels ==
  ASSUME NEW A \in Seq(Int), NEW B \in Seq(Int), NEW c
  PROVE  /\ Integral(unary_tri(c, A)) /\ Integral(unary_pad(c, A)) /\ Integral(unary_cont(c, A))
         /\ Integral(unary_concat(c, A, B)) /\ Integral(unary_concat_channel(c, A, B))
         /\ Integral(unary_repeat(c, A)) /\ Integral(unary_im2col(c, B))
         /\ Integral(unary_im2col_multich(c, B))
<1>0. 0 \in Int
  OBVIOUS
<1>1. Integral(unary_tri(c, A))
  BY <1>0, LoadInt, Zenon DEF unary_tri, Rows, Integral
<1>2. Integral(unary_pad(c, A))
  BY <1>0, LoadInt, Zenon DEF unary_pad, Rows, Integral
<1>3. Integral(unary_cont(c, A))
  BY LoadInt, Zenon DEF unary_cont, Rows, Integral
<1>4. Integral(unary_concat(c, A, B))
  BY LoadInt, Zenon DEF unary_concat, Rows, Integral
<1>5. Integral(unary_concat_channel(c, A, B))
  BY LoadInt, Zenon DEF unary_concat_channel, Rows, Integral
<1>6. Integral(unary_repeat(c, A))
  BY LoadInt, Zenon DEF unary_repeat, Rows, Integral
<1>7. Integral(unary_im2col(c, B))
  BY LoadInt, Zenon DEF unary_im2col, Rows, Integral
<1>8. Integral(unary_im2col_multich(c, B))
  BY LoadInt, Zenon DEF unary_im2col_multich, Rows, Integral
<1> QED
  BY <1>1, <1>2, <1>3, <1>4, <1>5, <1>6, <1>7, <1>8

(* The templates that reduce rows, for the sizes that they are rendered with. *)
LEMMA RowKernels ==
  ASSUME NEW A \in Seq(Int), NEW c, c[1] \in Nat, c[2] \in Nat
  PROVE  /\ Integral(unary_sum_rows(c, A)) /\ Integral(unary_sum(c, A))
         /\ c[3] \in Int => Integral(unary_mean(c, A))
<1>1. Integral(unary_sum_rows(c, A))
  BY LineTotal, Zenon DEF unary_sum_rows, Rows, Integral
<1>2. ASSUME c[3] \in Int PROVE Integral(unary_mean(c, A))
  <2>1. \A x, y \in Int : x * y \in Int
    OBVIOUS
  <2> QED
    BY <1>2, <2>1, LineTotal, Zenon DEF unary_mean, Rows, Integral
<1>3. Integral(unary_sum(c, A))
  <2> DEFINE x == Total(Line(A, c[1] * c[2], 0))  z == Zeros(Bus - 1)  k == Bus - 1
  <2>1. x \in Int
    <3>1. c[1] * c[2] \in Nat
      BY NatProducts
    <3> QED
      BY <3>1, LineTotal
  <2>2. k \in Nat
    BY FirmwareAssumption
  <2> HIDE DEF x, k
  <2>3. z = [i \in 1..k |-> 0]
    BY DEF Zeros, k
  <2>4. z \in Seq(Int)
    <3> HIDE DEF z
    <3>1. z \in [1..k -> Int]
      BY <2>3
    <3> QED
      BY <2>2, <3>1, IntoSeq
  <2> HIDE DEF z
  <2>5. <<x>> \in Seq(Int)
    BY <2>1
  <2>6. <<x>> \o z \in Seq(Int)
    BY <2>4, <2>5, ConcatProperties
  <2>7. unary_sum(c, A) = <<x>> \o z
    BY DEF unary_sum, x, z
  <2> DEFINE r == <<x>> \o z
  <2> HIDE DEF r
  <2>8. r \in Seq(Int)
    BY <2>6 DEF r
  <2> QED
    BY <2>7, <2>8 DEF r, Integral
<1> QED
  BY <1>1, <1>2, <1>3

(* The place of an element in the row of w that it is stored with. *)
LEMMA StoredPlace ==
  ASSUME NEW n \in Nat, NEW w \in Nat, NEW k \in 1..(n * w)
  PROVE  w > 0 /\ (k - 1) % w \in 0..(w - 1) /\ (k - 1) \div w \in Int
<1>1. w > 0
  <2>1. n * 0 = 0
    OBVIOUS
  <2>2. CASE w = 0
    BY <2>1, <2>2
  <2> QED
    BY <2>2
<1>2. n * w \in Nat
  BY NatProducts
<1>3. k - 1 \in Nat
  BY <1>2
<1>4. \A x \in Nat, y \in Nat : y > 0 => x % y \in 0..(y - 1) /\ x \div y \in Int
  OBVIOUS
<1> QED
  BY <1>1, <1>3, <1>4

(* The normalising kernels leave integers. *)
LEMMA NormKernels ==
  ASSUME NEW A \in Seq(Int), NEW c, c[1] \in Nat, c[2] \in Nat, c[3] \in Int
  PROVE  Integral(unary_norm(c, A)) /\ Integral(unary_group_norm(c, A))
<1>1. \A w \in Nat : \A r : \A i \in 0..(w - 1) : Normal(Line(A, w, r), i + 1, c[3]) \in Int
  <2> TAKE w \in Nat
  <2> TAKE r
  <2> TAKE i \in 0..(w - 1)
  <2> DEFINE s == Line(A, w, r)
  <2>1. s \in [1..w -> Int]
    BY LineInt
  <2> HIDE DEF s
  <2>2. DOMAIN s = 1..w /\ (\A d \in 1..w : s[d] \in Int) /\ i + 1 \in 1..w
    BY <2>1
  <2>3. Normal(s, i + 1, c[3]) \in Int
    BY <2>2, NormalInt
  <2> QED
    BY <2>3 DEF s
<1>2. Integral(unary_norm(c, A))
  <2> DEFINE f == unary_norm(c, A)
  <2>1. f = [k \in 1..(c[2] * c[1]) |-> Normal(Line(A, c[1], (k - 1) \div c[1]), ((k - 1) % c[1]) + 1, c[3])]
    BY DEF unary_norm, Rows
  <2>2. ASSUME NEW k \in 1..(c[2] * c[1]) PROVE f[k] \in Int
    <3>1. (k - 1) % c[1] \in 0..(c[1] - 1)
      BY StoredPlace
    <3>2. Normal(Line(A, c[1], (k - 1) \div c[1]), ((k - 1) % c[1]) + 1, c[3]) \in Int
      BY <1>1, <3>1
    <3> HIDE DEF f
    <3> QED
      BY <2>1, <3>2, Zenon
  <2> HIDE DEF f
  <2>3. DOMAIN f = 1..(c[2] * c[1])
    BY <2>1
  <2> QED
    BY <2>2, <2>3 DEF Integral, f
<1>3. Integral(unary_group_norm(c, A))
  <2> DEFINE f == unary_group_norm(c, A)  w == c[1] * c[2]
  <2>0. w \in Nat /\ 1 \in Nat
    BY NatProducts
  <2> HIDE DEF w
  <2>1. f = [k \in 1..(1 * w) |-> Normal(Line(A, w, 0), ((k - 1) % w) + 1, c[3])]
    BY DEF unary_group_norm, Rows, w
  <2>2. ASSUME NEW k \in 1..(1 * w) PROVE f[k] \in Int
    <3>1. (k - 1) % w \in 0..(w - 1)
      BY <2>0, StoredPlace
    <3>2. Normal(Line(A, w, 0), ((k - 1) % w) + 1, c[3]) \in Int
      BY <1>1, <2>0, <3>1
    <3> HIDE DEF f
    <3> QED
      BY <2>1, <3>2, Zenon
  <2> HIDE DEF f
  <2>3. DOMAIN f = 1..(1 * w)
    BY <2>1
  <2> QED
    BY <2>2, <2>3 DEF Integral, f
<1> QED
  BY <1>2, <1>3

(* The kernel of ARANGE leaves integers. *)
LEMMA CountKernel ==
  ASSUME NEW c, c[1] \in Nat, c[2] \in Nat
  PROVE  Integral(unary_arange(c))
<1> DEFINE f == unary_arange(c)
<1>1. f = [k \in 1..(c[1] * c[2]) |-> ((k - 1) \div c[2]) * c[2] + ((k - 1) % c[2])]
  BY DEF unary_arange, Rows
<1>2. ASSUME NEW k \in 1..(c[1] * c[2]) PROVE f[k] \in Int
  <2> DEFINE q == (k - 1) \div c[2]  r == (k - 1) % c[2]  w == c[2]
  <2>1. r \in 0..(w - 1) /\ q \in Int /\ w \in Nat
    BY StoredPlace
  <2> HIDE DEF q, r, w
  <2>2. q * w + r \in Int
    BY <2>1
  <2> HIDE DEF f
  <2> QED
    BY <1>1, <2>2, Zenon DEF q, r, w
<1> HIDE DEF f
<1>3. DOMAIN f = 1..(c[1] * c[2])
  BY <1>1
<1> QED
  BY <1>2, <1>3 DEF Integral, f

(* The windows of the firmware. *)
LEMMA PoolKernels ==
  ASSUME NEW A \in Seq(Int), NEW c, c[5] * c[6] \in Nat \ {0}
  PROVE  /\ Integral(unary_pool_2d_max(c, A))
         /\ c[9] \in Int => Integral(unary_pool_2d_avg(c, A))
<1> DEFINE n == c[5] * c[6]
<1>1. \A r, i : PoolLine(c, A, r, i) \in [1..n -> Int]
  BY LoadInt, Zenon DEF PoolLine, Rows
<1>2. \A r, i : Greatest(PoolLine(c, A, r, i)) \in Int /\ Total(PoolLine(c, A, r, i)) \in Int
  <2> TAKE r, i
  <2> DEFINE s == PoolLine(c, A, r, i)
  <2>1. s \in [1..n -> Int] /\ n \in Nat \ {0}
    BY <1>1
  <2> HIDE DEF s, n
  <2>2. DOMAIN s = 1..n /\ \A d \in 1..n : s[d] \in Int
    BY <2>1
  <2>3. Greatest(s) \in Int /\ Total(s) \in Int
    BY <2>1, <2>2, GreatestIn, TotalInt
  <2> QED
    BY <2>3 DEF s
<1>3. Integral(unary_pool_2d_max(c, A))
  BY <1>2, Zenon DEF unary_pool_2d_max, Rows, Integral
<1>4. ASSUME c[9] \in Int PROVE Integral(unary_pool_2d_avg(c, A))
  <2>1. \A x, y \in Int : x * y \in Int
    OBVIOUS
  <2> QED
    BY <1>2, <1>4, <2>1, Zenon DEF unary_pool_2d_avg, Rows, Integral
<1> QED
  BY <1>3, <1>4

(* The kernels of the convolution and of the product leave integers. *)
LEMMA ProductKernels ==
  ASSUME NEW A \in Seq(Int), NEW B \in Seq(Int), NEW c
  PROVE  /\ c[3] * c[4] \in Nat => Integral(unary_conv_2d(c, A, B))
         /\ c[2] \in Nat => Integral(mul_mat(c, A, B))
<1>1. ASSUME c[3] * c[4] \in Nat PROVE Integral(unary_conv_2d(c, A, B))
  <2>1. \A x, y \in Int : x * y \in Int
    OBVIOUS
  <2> DEFINE n == c[3] * c[4]
             Tap(r, i) == Rows(c[3], c[4], LAMBDA y, x :
                                 L2(A, y * c[4] + x) * L2(B, (r + y) * c[2] + i + x))
  <2>2. \A r, i : Tap(r, i) \in [1..n -> Int]
    BY <2>1, LoadInt, Zenon DEF Rows
  <2>3. \A r, i : Total(Tap(r, i)) \in Int
    <3> HIDE DEF Tap
    <3> TAKE r, i
    <3> DEFINE s == Tap(r, i)
    <3>1. s \in [1..n -> Int] /\ n \in Nat
      BY <1>1, <2>2
    <3> HIDE DEF s, n
    <3>2. DOMAIN s = 1..n /\ \A d \in 1..n : s[d] \in Int
      BY <3>1
    <3>3. Total(s) \in Int
      BY <3>1, <3>2, TotalInt
    <3> QED
      BY <3>3 DEF s
  <2>4. unary_conv_2d(c, A, B) = Rows(c[1] - c[3] + 1, c[2] - c[4] + 1, LAMBDA r, i : Total(Tap(r, i)))
    BY Zenon DEF unary_conv_2d
  <2> HIDE DEF Tap
  <2> QED
    BY <2>3, <2>4, Zenon DEF Rows, Integral
<1>2. ASSUME c[2] \in Nat PROVE Integral(mul_mat(c, A, B))
  <2>1. \A r, i : Dot(Line(A, c[2], r), Line(B, c[2], i)) \in Int
    <3> TAKE r, i
    <3> DEFINE s == Line(A, c[2], r)  t == Line(B, c[2], i)  n == c[2]
    <3>1. s \in [1..n -> Int] /\ t \in [1..n -> Int] /\ n \in Nat
      BY <1>2, LineInt
    <3> HIDE DEF s, t, n
    <3>2. DOMAIN s = 1..n /\ \A d \in 1..n : s[d] \in Int /\ t[d] \in Int
      BY <3>1
    <3>3. Dot(s, t) \in Int
      BY <3>1, <3>2, DotInt
    <3> QED
      BY <3>3 DEF s, t
  <2> QED
    BY <2>1, Zenon DEF mul_mat, Rows, Integral
<1> QED
  BY <1>1, <1>2

-----------------------------------------------------------------------------
(* A call. *)

(* The templates the routes render. *)
Templates ==
  {"unary_intrin1", "binary_intrin1", "unary_sqr", "unary_ceil", "unary_expm1", "unary_scale",
   "unary_clamp", "unary_sum_rows", "unary_mean", "unary_norm", "unary_group_norm", "unary_sum",
   "unary_tri", "unary_pad", "unary_cont", "unary_concat", "unary_concat_channel", "unary_repeat",
   "unary_arange", "unary_pool_2d_max", "unary_pool_2d_avg", "unary_conv_2d", "unary_im2col",
   "unary_im2col_multich", "mul_mat"}

(* What the templates that compute on whole rows ask of the constants baked into them. *)
Renders(t) ==
  /\ t.tpl \in Templates
  /\ t.tpl \in {"unary_sum_rows", "unary_mean", "unary_norm", "unary_group_norm", "unary_sum", "unary_arange"}
       => t.c[1] \in Nat /\ t.c[2] \in Nat
  /\ t.tpl \in {"unary_mean", "unary_norm", "unary_group_norm"} => t.c[3] \in Int
  /\ t.tpl \in {"unary_pool_2d_max", "unary_pool_2d_avg"} => t.c[5] * t.c[6] \in Nat \ {0}
  /\ t.tpl = "unary_pool_2d_avg" => t.c[9] \in Int
  /\ t.tpl = "unary_conv_2d" => t.c[3] * t.c[4] \in Nat
  /\ t.tpl = "mul_mat" => t.c[2] \in Nat

(* Such a kernel stores integers, whatever integers its operands hold. *)
LEMMA KernelTyped ==
  ASSUME NEW t, Renders(t), NEW A \in Seq(Int), NEW B \in Seq(Int)
  PROVE  Integral(Kernel(t, A, B))
<1> DEFINE c == t.c
           k1 == unary_intrin1(c, A, t.name)  k2 == binary_intrin1(c, A, B, t.name)
           k3 == unary_sqr(c, A)  k4 == unary_ceil(c, A)  k5 == unary_expm1(c, A)
           k6 == unary_scale(c, A, B)  k7 == unary_clamp(c, A, B)  k8 == unary_sum_rows(c, A)
           k9 == unary_mean(c, A)  k10 == unary_norm(c, A)  k11 == unary_group_norm(c, A)
           k12 == unary_sum(c, A)  k13 == unary_tri(c, A)  k14 == unary_pad(c, A)
           k15 == unary_cont(c, A)  k16 == unary_concat(c, A, B)
           k17 == unary_concat_channel(c, A, B)  k18 == unary_repeat(c, A)
           k19 == unary_arange(c)  k20 == unary_pool_2d_max(c, A)  k21 == unary_pool_2d_avg(c, A)
           k22 == unary_conv_2d(c, A, B)  k23 == unary_im2col(c, B)
           k24 == unary_im2col_multich(c, B)  k25 == mul_mat(c, A, B)
<1>1. /\ Integral(k1) /\ Integral(k2) /\ Integral(k3) /\ Integral(k4) /\ Integral(k5)
      /\ Integral(k6) /\ Integral(k7)
  BY ElementKernels
<1>2. /\ Integral(k13) /\ Integral(k14) /\ Integral(k15) /\ Integral(k16) /\ Integral(k17)
      /\ Integral(k18) /\ Integral(k23) /\ Integral(k24)
  BY MoveKernels
<1>3. /\ t.tpl = "unary_sum_rows" => Integral(k8)
      /\ t.tpl = "unary_mean" => Integral(k9)
      /\ t.tpl = "unary_sum" => Integral(k12)
  BY RowKernels DEF Renders
<1>4. /\ t.tpl = "unary_norm" => Integral(k10)
      /\ t.tpl = "unary_group_norm" => Integral(k11)
  BY NormKernels DEF Renders
<1>5. t.tpl = "unary_arange" => Integral(k19)
  BY CountKernel DEF Renders
<1>6. /\ t.tpl = "unary_pool_2d_max" => Integral(k20)
      /\ t.tpl = "unary_pool_2d_avg" => Integral(k21)
  BY PoolKernels DEF Renders
<1>7. /\ t.tpl = "unary_conv_2d" => Integral(k22)
      /\ t.tpl = "mul_mat" => Integral(k25)
  BY ProductKernels DEF Renders
<1>8. Kernel(t, A, B) =
        CASE t.tpl = "unary_intrin1"        -> k1
          [] t.tpl = "binary_intrin1"       -> k2
          [] t.tpl = "unary_sqr"            -> k3
          [] t.tpl = "unary_ceil"           -> k4
          [] t.tpl = "unary_expm1"          -> k5
          [] t.tpl = "unary_scale"          -> k6
          [] t.tpl = "unary_clamp"          -> k7
          [] t.tpl = "unary_sum_rows"       -> k8
          [] t.tpl = "unary_mean"           -> k9
          [] t.tpl = "unary_norm"           -> k10
          [] t.tpl = "unary_group_norm"     -> k11
          [] t.tpl = "unary_sum"            -> k12
          [] t.tpl = "unary_tri"            -> k13
          [] t.tpl = "unary_pad"            -> k14
          [] t.tpl = "unary_cont"           -> k15
          [] t.tpl = "unary_concat"         -> k16
          [] t.tpl = "unary_concat_channel" -> k17
          [] t.tpl = "unary_repeat"         -> k18
          [] t.tpl = "unary_arange"         -> k19
          [] t.tpl = "unary_pool_2d_max"    -> k20
          [] t.tpl = "unary_pool_2d_avg"    -> k21
          [] t.tpl = "unary_conv_2d"        -> k22
          [] t.tpl = "unary_im2col"         -> k23
          [] t.tpl = "unary_im2col_multich" -> k24
          [] t.tpl = "mul_mat"              -> k25
  BY Zenon DEF Kernel
<1>9. t.tpl \in Templates
  BY DEF Renders
<1> HIDE DEF k1, k2, k3, k4, k5, k6, k7, k8, k9, k10, k11, k12, k13, k14, k15, k16, k17, k18, k19, k20,
             k21, k22, k23, k24, k25
<1> QED
  BY <1>1, <1>2, <1>3, <1>4, <1>5, <1>6, <1>7, <1>8, <1>9 DEF Templates

(* The words of the bus, reversed, are those of the same sequence. *)
LEMMA ReverseTyped ==
  ASSUME NEW q \in Nat, NEW s, DOMAIN s = 1..(Bus * q), \A i \in 1..(Bus * q) : s[i] \in Int
  PROVE  /\ DOMAIN ReverseBusWords(s) = 1..(Bus * q)
         /\ \A i \in 1..(Bus * q) : ReverseBusWords(s)[i] \in Int
<1> DEFINE f == ReverseBusWords(s)
<1>1. f = [i \in 1..(Bus * q) |-> s[Bus * ((i - 1) \div Bus) + Bus - ((i - 1) % Bus)]]
  BY Zenon DEF ReverseBusWords
<1>2. Bus \in Nat \ {0}
  BY FirmwareAssumption
<1>3. ASSUME NEW i \in 1..(Bus * q)
      PROVE  Bus * ((i - 1) \div Bus) + Bus - ((i - 1) % Bus) \in 1..(Bus * q)
  <2> DEFINE d == (i - 1) \div Bus  r == (i - 1) % Bus  t == Bus * q
  <2>1. t \in Nat
    BY <1>2
  <2>2. i - 1 = Bus * d + r /\ r \in 0..(Bus - 1) /\ d \in Nat
    <3>1. i - 1 \in Nat
      BY <2>1
    <3>2. \A x \in Nat, y \in Nat \ {0} :
            x = y * (x \div y) + (x % y) /\ x % y \in 0..(y - 1) /\ x \div y \in Nat
      OBVIOUS
    <3> QED
      BY <1>2, <3>1, <3>2
  <2>3. Bus * d + r < Bus * q
    BY <2>1, <2>2
  <2> HIDE DEF d, r, t
  <2>4. d + 1 <= q
    <3>1. CASE q <= d
      <4>1. Bus * q <= Bus * d
        BY <1>2, <2>2, <3>1
      <4> QED
        BY <1>2, <2>2, <2>3, <4>1
    <3> QED
      BY <2>2, <3>1
  <2>5. Bus * d + Bus <= Bus * q
    <3>1. Bus * (d + 1) <= Bus * q
      BY <1>2, <2>2, <2>4
    <3>2. Bus * (d + 1) = Bus * d + Bus
      BY <1>2, <2>2
    <3> QED
      BY <3>1, <3>2
  <2>6. Bus * d \in Nat
    BY <1>2, <2>2
  <2>7. Bus * d + Bus - r \in 1..(Bus * q)
    <3> DEFINE x == Bus * d  y == Bus * q
    <3>1. x \in Nat /\ y \in Nat /\ x + Bus <= y
      BY <2>1, <2>5, <2>6 DEF t
    <3> HIDE DEF x, y
    <3>2. x + Bus - r \in 1..y
      BY <1>2, <2>2, <3>1
    <3> QED
      BY <3>2 DEF x, y
  <2> QED
    BY <2>7 DEF d, r
<1> HIDE DEF f
<1>4. \A i \in 1..(Bus * q) : f[i] \in Int
  BY <1>1, <1>3, Zenon
<1>5. DOMAIN f = 1..(Bus * q)
  BY <1>1
<1> QED
  BY <1>4, <1>5 DEF f

(* A section is padded to whole words of the bus. *)
LEMMA WholeWords ==
  ASSUME NEW n \in Nat
  PROVE  \E q \in Nat : n + Padding(n) = Bus * q
<1> DEFINE d == n \div Bus  r == n % Bus
<1>1. Bus \in Nat \ {0}
  BY FirmwareAssumption
<1>2. n = Bus * d + r /\ r \in 0..(Bus - 1) /\ d \in Nat
  <2>1. \A x \in Nat, y \in Nat \ {0} :
          x = y * (x \div y) + (x % y) /\ x % y \in 0..(y - 1) /\ x \div y \in Nat
    OBVIOUS
  <2> QED
    BY <1>1, <2>1
<1>3. Padding(n) = (Bus - r) % Bus
  BY DEF Padding
<1> HIDE DEF d, r
<1>4. CASE r = 0
  <2>1. Padding(n) = 0
    BY <1>1, <1>3, <1>4
  <2>2. Bus * d \in Nat
    BY <1>1, <1>2
  <2>3. n + Padding(n) = Bus * d
    BY <1>2, <1>4, <2>1, <2>2
  <2> QED
    BY <1>2, <2>3
<1>5. CASE r # 0
  <2>1. Padding(n) = Bus - r
    BY <1>1, <1>2, <1>3, <1>5
  <2>2. Bus * d \in Nat /\ Bus * (d + 1) = Bus * d + Bus
    BY <1>1, <1>2
  <2>3. n + Padding(n) = Bus * (d + 1)
    <3> DEFINE x == Bus * d
    <3>1. x \in Nat /\ n = x + r /\ Bus * (d + 1) = x + Bus
      BY <1>2, <2>2
    <3> HIDE DEF x
    <3>2. n + Padding(n) = x + Bus
      BY <1>1, <1>2, <2>1, <3>1
    <3> QED
      BY <3>1, <3>2
  <2>4. d + 1 \in Nat
    BY <1>2
  <2> QED
    BY <2>3, <2>4
<1> QED
  BY <1>4, <1>5

(* A section through the hex files, on its way to the DDR and back. *)
LEMMA FileTyped ==
  ASSUME NEW n \in Nat, NEW s, s = [i \in 1..n |-> s[i]], \A i \in 1..n : s[i] \in Int
  PROVE  LET f == ReverseBusWords(BusPadded(s))
             g == ReverseBusWords(f)
             k == n + Padding(n)
         IN DOMAIN g = 1..k /\ \A i \in 1..k : g[i] \in Int
<1> DEFINE p == BusPadded(s)  f == ReverseBusWords(p)  g == ReverseBusWords(f)  k == n + Padding(n)
<1>1. PICK q \in Nat : k = Bus * q
  BY WholeWords
<1>2. p \in Seq(Int) /\ DOMAIN p = 1..k
  <2>1. s \in Seq(Int)
    <3>1. s \in [1..n -> Int]
      OBVIOUS
    <3> QED
      BY <3>1, IntoSeq
  <2>2. Len(s) = n
    BY VectorIsSeq
  <2>3. Padding(n) \in Nat
    BY SpansBus
  <2> DEFINE m == Padding(n)  z == Zeros(m)
  <2>4. z \in Seq(Int)
    <3>1. z \in [1..m -> Int]
      BY DEF Zeros
    <3> HIDE DEF z
    <3> QED
      BY <2>3, <3>1, IntoSeq
  <2>5. p = s \o z
    BY <2>2 DEF BusPadded
  <2> HIDE DEF z
  <2>6. s \o z \in Seq(Int)
    BY <2>1, <2>4, ConcatProperties
  <2>7. DOMAIN p = 1..k
    BY PaddedLen
  <2> QED
    BY <2>5, <2>6, <2>7
<1>3. \A i \in 1..k : p[i] \in Int
  <2> HIDE DEF p, k
  <2>1. p \in Seq(Int)
    BY <1>2
  <2>2. \A i \in DOMAIN p : p[i] \in Int
    BY <2>1
  <2>3. DOMAIN p = 1..k
    BY <1>2
  <2> QED
    BY <2>2, <2>3, Zenon
<1> HIDE DEF p, k
<1>4. DOMAIN f = 1..k /\ \A i \in 1..k : f[i] \in Int
  BY <1>1, <1>2, <1>3, ReverseTyped
<1> HIDE DEF f
<1>5. DOMAIN g = 1..k /\ \A i \in 1..k : g[i] \in Int
  BY <1>1, <1>4, ReverseTyped
<1> QED
  BY <1>5 DEF g, f, p, k

(* What the input section of a call loads into the simulator are integers. *)
LEMMA SectionTyped ==
  ASSUME NEW data \in Seq(Int)
  PROVE  LoadHex(WriteHexSection(data)) \in Seq(Int)
<1> DEFINE n == Len(data)  g == LoadHex(WriteHexSection(data))  k == n + Padding(n)
<1>1. n \in Nat /\ data = [i \in 1..n |-> data[i]] /\ \A i \in 1..n : data[i] \in Int
  OBVIOUS
<1> HIDE DEF n
<1>2. g = ReverseBusWords(ReverseBusWords(BusPadded(data)))
  BY DEF LoadHex, WriteHexSection
<1>3. DOMAIN g = 1..k /\ \A i \in 1..k : g[i] \in Int
  BY <1>1, <1>2, FileTyped
<1>4. k \in Nat
  BY <1>1, SpansBus
<1>5. g = [i \in DOMAIN g |-> g[i]]
  <2> DEFINE h == ReverseBusWords(BusPadded(data))
  <2>1. g = ReverseBusWords(h)
    BY <1>2
  <2> HIDE DEF h, g
  <2>2. ReverseBusWords(h) = [i \in DOMAIN ReverseBusWords(h) |-> ReverseBusWords(h)[i]]
    BY DEF ReverseBusWords
  <2> QED
    BY <2>1, <2>2
<1> HIDE DEF g, k
<1>6. g \in [1..k -> Int]
  BY <1>3, <1>5
<1> QED
  BY <1>4, <1>6, IntoSeq DEF g

(* What the dump of a call is decoded to are integers. *)
LEMMA DumpTyped ==
  ASSUME NEW stored, Integral(stored), NEW n \in Nat
  PROVE  DecodeHex(SaveHex(stored, n), n) \in Seq(Int)
<1> DEFINE raw == [i \in 1..n |-> IF i \in DOMAIN stored THEN stored[i] ELSE 0]
           g == ReverseBusWords(ReverseBusWords(BusPadded(raw)))
           k == n + Padding(n)
<1>1. raw = [i \in 1..n |-> raw[i]] /\ \A i \in 1..n : raw[i] \in Int
  <2>1. \A i \in DOMAIN stored : stored[i] \in Int
    BY DEF Integral
  <2> QED
    BY <2>1
<1> HIDE DEF raw
<1>2. DOMAIN g = 1..k /\ \A i \in 1..k : g[i] \in Int
  BY <1>1, FileTyped
<1>3. k \in Nat /\ n <= k
  BY SpansBus
<1>4. DecodeHex(SaveHex(stored, n), n) = SubSeq(g, 1, n)
  BY DEF DecodeHex, SaveHex, raw
<1> HIDE DEF g, k
<1>5. \A i \in 1..n : g[i] \in Int
  BY <1>2, <1>3
<1>6. SubSeq(g, 1, n) \in Seq(Int)
  <2>1. 1 \in Int /\ n \in Int
    OBVIOUS
  <2> QED
    BY <1>5, <2>1, SubSeqProperties
<1> QED
  BY <1>4, <1>6

(* A call whose operands and kernel are of integers returns integers. *)
Computes(call) ==
  call.a \in Seq(Int) /\ call.b \in Seq(Int) /\ call.dump \in Nat /\ Renders(call.text)

(* A call that computes returns a sequence of integers. *)
LEMMA RunTyped ==
  ASSUME NEW call, Computes(call)
  PROVE  RunPyspike(call.text, call) \in Seq(Int)
<1> DEFINE A == LoadHex(WriteHexSection(call.a))  B == LoadHex(WriteHexSection(call.b))
           stored == Kernel(call.text, A, B)
<1>1. A \in Seq(Int) /\ B \in Seq(Int)
  BY SectionTyped DEF Computes
<1> HIDE DEF A, B
<1>2. Integral(stored)
  BY <1>1, KernelTyped DEF Computes
<1> HIDE DEF stored
<1>3. DecodeHex(SaveHex(stored, call.dump), call.dump) \in Seq(Int)
  BY <1>2, DumpTyped DEF Computes
<1>4. RunPyspike(call.text, call) = DecodeHex(SaveHex(stored, call.dump), call.dump)
  BY DEF RunPyspike, stored, A, B
<1> QED
  BY <1>3, <1>4

-----------------------------------------------------------------------------
(* The routes. *)

(* What a node reads of the memory, where its sources have a dtype. *)
Loads(n, m) == \A i \in DOMAIN n.src : n.src[i].type \in NumPyTypes => Readable(n.src[i], m)

(* The operand a route flattens, or takes as it lies in the buffer, is a sequence of integers. *)
LEMMA FlatTyped ==
  ASSUME NEW t \in TensorType, NEW m, Readable(t, m)
  PROVE  Flat(t, m) \in Seq(Int) /\ Raw(t, m) \in Seq(Int)
<1> DEFINE w == Width(t.type)  s == Span(t)  k == s \div w
<1>1. w \in {1, 2} /\ s \in Nat /\ t.data \in Nat
  BY WidthNat, SpanFacts DEF TensorType
<1>2. \A a \in t.data .. t.data + s - 1 : m[a] \in Int
  BY DEF Readable, Extent
<1>3. Flat(t, m) = [i \in 1..k |-> m[t.data + w * (i - 1)]] /\ Raw(t, m) = [i \in 1..s |-> m[t.data + i - 1]]
  BY DEF Flat, Raw
<1> HIDE DEF w, s
<1>4. k \in Nat
  BY <1>1
<1>5. \A i \in 1..k : m[t.data + w * (i - 1)] \in Int
  <2> TAKE i \in 1..k
  <2>1. w * (i - 1) \in 0..(s - 1)
    <3>1. CASE w = 1
      <4>1. k = s /\ 1 * (i - 1) = i - 1
        BY <1>1, <1>4, <3>1
      <4> QED
        BY <1>1, <3>1, <4>1
    <3>2. CASE w = 2
      <4>1. 2 * k <= s
        BY <1>1, <3>2
      <4>2. i \in Nat /\ i >= 1 /\ i <= k
        BY <1>4
      <4> HIDE DEF k
      <4>3. 2 * (i - 1) \in 0..(s - 1)
        BY <1>1, <1>4, <4>1, <4>2
      <4> QED
        BY <3>2, <4>3
    <3> QED
      BY <1>1, <3>1, <3>2
  <2> DEFINE x == w * (i - 1)
  <2>2. x \in 0..(s - 1)
    BY <2>1
  <2> HIDE DEF x
  <2>3. t.data + x \in t.data .. t.data + s - 1
    BY <1>1, <2>2
  <2> QED
    BY <1>2, <2>3 DEF x
<1>6. \A i \in 1..s : m[t.data + i - 1] \in Int
  <2> TAKE i \in 1..s
  <2>1. t.data + i - 1 \in t.data .. t.data + s - 1
    BY <1>1
  <2> QED
    BY <1>2, <2>1
<1> HIDE DEF k
<1>7. Flat(t, m) \in [1..k -> Int] /\ Raw(t, m) \in [1..s -> Int]
  BY <1>3, <1>5, <1>6
<1> QED
  BY <1>1, <1>4, <1>7, IntoSeq

(* The sources of a route, and their elements. *)
LEMMA SourceReads ==
  ASSUME NEW n \in NodeType, NEW m, Loads(n, m), NEW k \in {1, 2}, Len(n.src) >= k,
         n.src[k].type \in NumPyTypes
  PROVE  /\ n.src[k] \in TensorType /\ Readable(n.src[k], m)
         /\ Flat(n.src[k], m) \in Seq(Int) /\ Raw(n.src[k], m) \in Seq(Int)
         /\ Len(Flat(n.src[k], m)) \in Nat /\ Len(Raw(n.src[k], m)) \in Nat
<1> DEFINE s == n.src  l == Len(s)
<1>1. s \in Seq(TensorType)
  BY DEF NodeType
<1>2. l \in Nat /\ l >= k /\ DOMAIN s = 1..l
  BY <1>1
<1>3. k \in 1..l
  <2> HIDE DEF l
  <2> QED
    BY <1>2
<1>4. s[k] \in TensorType /\ Readable(s[k], m)
  BY <1>1, <1>2, <1>3 DEF Loads
<1> HIDE DEF s
<1>5. Flat(s[k], m) \in Seq(Int) /\ Raw(s[k], m) \in Seq(Int)
  BY <1>4, FlatTyped
<1> DEFINE x == Flat(s[k], m)  y == Raw(s[k], m)
<1>6. x \in Seq(Int) /\ y \in Seq(Int)
  BY <1>5
<1> HIDE DEF x, y
<1>7. Len(x) \in Nat /\ Len(y) \in Nat
  BY <1>6
<1> QED
  BY <1>4, <1>5, <1>7 DEF s, x, y

(* The types a kernel takes are types NumPy reads. *)
LEMMA NumPyKinds ==
  /\ F16 \subseteq NumPyTypes /\ Castable \subseteq NumPyTypes
BY DEF F16, Castable, NumPyTypes

(* Every call of a route computes. *)
ComputesAll(cs) == \A i \in 1..Len(cs) : Computes(cs[i])

(* A route of a single call. *)
LEMMA OneComputes == ASSUME NEW c, Computes(c) PROVE ComputesAll(<<c>>)
<1>1. \A i \in 1..Len(<<c>>) : <<c>>[i] = c
  OBVIOUS
<1> QED
  BY <1>1 DEF ComputesAll

(* A call of integer operands whose text renders to a computing kernel computes. *)
LEMMA CallComputes ==
  ASSUME NEW tpl, NEW name, NEW c, NEW a \in Seq(Int), NEW b \in Seq(Int), NEW dump \in Nat, NEW key,
         Renders(Text(tpl, name, c))
  PROVE  Computes(SimpleCall(tpl, name, c, a, b, dump)) /\ Computes(Call(Text(tpl, name, c), key, a, b, dump))
BY DEF Computes, SimpleCall, Call

(* The templates that ask nothing of their constants. *)
Unconditional ==
  {"unary_intrin1", "binary_intrin1", "unary_sqr", "unary_ceil", "unary_expm1", "unary_scale",
   "unary_clamp", "unary_tri", "unary_pad", "unary_cont", "unary_concat", "unary_concat_channel",
   "unary_repeat", "unary_im2col", "unary_im2col_multich"}
(* The templates that need nothing of their constants. *)
LEMMA PlainComputes ==
  ASSUME NEW tpl \in Unconditional, NEW name, NEW c, NEW a \in Seq(Int), NEW b \in Seq(Int), NEW dump \in Nat
  PROVE  Computes(SimpleCall(tpl, name, c, a, b, dump))
<1>1. Renders(Text(tpl, name, c))
  BY DEF Renders, Text, Templates, Unconditional
<1> QED
  BY <1>1, CallComputes

(* The operands that are not taken from a source. *)
LEMMA NoOperand == <<>> \in Seq(Int) /\ \A x, y \in Int : <<x>> \in Seq(Int) /\ <<x, y>> \in Seq(Int)
OBVIOUS

(* The reciprocal a call is given is an integer. *)
LEMMA InvInt == ASSUME NEW k \in Int PROVE Inv(k) \in Int
BY DEF Inv

(* The shape-parameterised unary operators. *)
LEMMA SimpleComputes ==
  ASSUME NEW n \in NodeType, Simple(n), NEW w \in Nat, NEW h \in Nat, NEW data \in Seq(Int)
  PROVE  Computes(SimpleCallOf(n, w, h, data))
<1> DEFINE p == n.p  l == Len(data)
           c1 == SimpleCall("unary_sqr", "SQR", <<w, h>>, data, <<>>, l)
           c2 == SimpleCall("unary_ceil", "CEIL", <<w, h>>, data, <<>>, l)
           c3 == SimpleCall("unary_expm1", "EXPM1", <<w, h>>, data, <<>>, l)
           c4 == SimpleCall("unary_sum_rows", "", <<w, h>>, data, <<>>, h)
           c5 == SimpleCall("unary_norm", "", <<w, h, p[1]>>, data, <<>>, l)
           c6 == SimpleCall("unary_group_norm", "", <<w, h, p[2]>>, data, <<>>, l)
           c7 == SimpleCall("unary_scale", "", <<w, h>>, data, <<p[1]>>, l)
           c8 == SimpleCall("unary_clamp", "", <<w, h>>, data, <<p[1], p[2]>>, l)
           c9 == SimpleCall("unary_mean", "", <<w, h, Inv(w)>>, data, <<>>, h)
           c10 == SimpleCall("unary_sum", "", <<w, h>>, data, <<>>, Bus)
           c11 == SimpleCall("unary_tri", "", <<w, h, p[1]>>, data, <<>>, l)
<1>1. l \in Nat /\ Bus \in Nat
  BY FirmwareAssumption
<1>2. p[1] \in Int /\ p[2] \in Int /\ Inv(w) \in Int
  BY Params, InvInt
<1>3. /\ SimpleCallOf(n, w, h, data) =
           CASE n.op = "SQR" -> c1
             [] n.sub = "CEIL" -> c2
             [] n.sub = "EXPM1" -> c3
             [] n.op = "SUM_ROWS" -> c4
             [] n.op = "NORM" -> c5
             [] n.op = "GROUP_NORM" -> c6
             [] n.op = "SCALE" -> c7
             [] n.op = "CLAMP" -> c8
             [] n.op = "MEAN" -> c9
             [] n.op = "SUM" -> c10
             [] n.op = "TRI" -> c11
  BY Zenon DEF SimpleCallOf
<1>4. \/ n.op = "SQR" \/ n.sub = "CEIL" \/ n.sub = "EXPM1" \/ n.op = "SUM_ROWS" \/ n.op = "NORM"
      \/ n.op = "GROUP_NORM" \/ n.op = "SCALE" \/ n.op = "CLAMP" \/ n.op = "MEAN" \/ n.op = "SUM"
      \/ n.op = "TRI"
  BY DEF Simple, SimpleUnary, SimpleSubops
<1> HIDE DEF p, l
<1>5. Computes(c1) /\ Computes(c2) /\ Computes(c3) /\ Computes(c7) /\ Computes(c8) /\ Computes(c11)
  <2>1. {"unary_sqr", "unary_ceil", "unary_expm1", "unary_scale", "unary_clamp", "unary_tri"} \subseteq Unconditional
    BY DEF Unconditional
  <2> QED
    BY <1>1, <1>2, <2>1, NoOperand, PlainComputes
<1>6. Computes(c4) /\ Computes(c10)
  <2>1. Renders(Text("unary_sum_rows", "", <<w, h>>)) /\ Renders(Text("unary_sum", "", <<w, h>>))
    BY DEF Renders, Text, Templates
  <2> QED
    BY <1>1, <2>1, NoOperand, CallComputes
<1>7. \A x \in Int : /\ Renders(Text("unary_norm", "", <<w, h, x>>))
                     /\ Renders(Text("unary_group_norm", "", <<w, h, x>>))
                     /\ Renders(Text("unary_mean", "", <<w, h, x>>))
  BY DEF Renders, Text, Templates
<1>8. Computes(c5) /\ Computes(c6) /\ Computes(c9)
  BY <1>1, <1>2, <1>7, NoOperand, CallComputes
<1> HIDE DEF c1, c2, c3, c4, c5, c6, c7, c8, c9, c10, c11
<1> QED
  BY <1>3, <1>4, <1>5, <1>6, <1>8

(* The routes of a single template compute. *)
LEMMA SimpleRouteComputes ==
  ASSUME NEW n \in NodeType, Simple(n), NEW m, Loads(n, m), SimpleRoute(n, m).to = "call"
  PROVE  ComputesAll(SimpleRoute(n, m).calls)
<1> DEFINE data == Flat(n.src[1], m)  w == n.src[1].ne[1]  h == Len(data) \div w
           c == SimpleCallOf(n, w, h, data)
           g == n.dst.type = "F16" /\ Sources(n, 1, F16) /\ Positive(n.src[1])
                /\ Len(data) % w = 0 /\ SimpleGuard(n, h)
<1>1. g /\ SimpleRoute(n, m).calls = <<c>>
  BY Guarded, Zenon DEF SimpleRoute, OneCall
<1>2. Len(n.src) >= 1 /\ n.src[1].type \in NumPyTypes
  BY <1>1, NumPyKinds DEF Sources
<1>3. n.src[1] \in TensorType /\ data \in Seq(Int) /\ Len(data) \in Nat
  BY <1>2, SourceReads
<1>4. w \in Nat /\ w > 0
  BY <1>1, <1>3, TensorDims DEF Positive
<1>5. h \in Nat
  <2> DEFINE l == Len(data)
  <2>1. l \in Nat
    BY <1>3
  <2> HIDE DEF l, w
  <2>2. l \div w \in Nat
    BY <1>4, <2>1
  <2> QED
    BY <2>2 DEF l
<1> HIDE DEF data, w, h
<1>6. Computes(c)
  BY <1>3, <1>4, <1>5, SimpleComputes
<1> QED
  BY <1>1, <1>6, OneComputes

(* A source that a guard has typed. *)
LEMMA FirstSource ==
  ASSUME NEW n \in NodeType, NEW m, Loads(n, m), NEW types, types \subseteq NumPyTypes, Sources(n, 1, types)
  PROVE  /\ n.src[1] \in TensorType /\ Readable(n.src[1], m)
         /\ Flat(n.src[1], m) \in Seq(Int) /\ Raw(n.src[1], m) \in Seq(Int)
         /\ Len(Flat(n.src[1], m)) \in Nat /\ Len(Raw(n.src[1], m)) \in Nat
<1>1. Len(n.src) >= 1 /\ n.src[1].type \in NumPyTypes
  BY DEF Sources
<1> QED
  BY <1>1, SourceReads

(* A node of two sources: both are readable, and give sequences of integers. *)
LEMMA BothSources ==
  ASSUME NEW n \in NodeType, NEW m, Loads(n, m), NEW types, types \subseteq NumPyTypes, Sources(n, 2, types),
         NEW k \in {1, 2}
  PROVE  /\ n.src[k] \in TensorType /\ Readable(n.src[k], m)
         /\ Flat(n.src[k], m) \in Seq(Int) /\ Raw(n.src[k], m) \in Seq(Int)
         /\ Len(Flat(n.src[k], m)) \in Nat /\ Len(Raw(n.src[k], m)) \in Nat
<1> DEFINE l == Len(n.src)
<1>1. l \in Nat /\ l >= 2 /\ n.src[k].type \in NumPyTypes
  BY SourceCount DEF Sources
<1> HIDE DEF l
<1>2. l >= k
  BY <1>1
<1> QED
  BY <1>1, <1>2, SourceReads DEF l

(* PAD computes. *)
LEMMA PadRouteComputes ==
  ASSUME NEW n \in NodeType, NEW m, Loads(n, m), PadRoute(n, m).to = "call"
  PROVE  ComputesAll(PadRoute(n, m).calls)
<1> DEFINE s == n.src[1]  p == n.p  data == Flat(s, m)
           dump == (s.ne[2] + p[2]) * (s.ne[1] + p[1])
           c == SimpleCall("unary_pad", "", <<s.ne[2], s.ne[1], p[1], p[2]>>, data, <<>>, dump)
           g == /\ n.dst.type = "F16" /\ Sources(n, 1, F16) /\ Positive(s)
                /\ p[3] = 0 /\ p[4] = 0 /\ Flat2D(s) /\ p[1] >= 0 /\ p[2] >= 0
                /\ Len(data) = s.ne[2] * s.ne[1]
<1>1. g /\ PadRoute(n, m).calls = <<c>>
  BY Guarded, Zenon DEF PadRoute, OneCall
<1>2. Sources(n, 1, F16)
  BY <1>1
<1>3. s \in TensorType /\ data \in Seq(Int)
  BY <1>2, FirstSource, NumPyKinds
<1>4. dump \in Nat
  <2> DEFINE x == s.ne[2]  y == s.ne[1]  u == p[2]  v == p[1]
  <2>1. x \in Nat /\ y \in Nat /\ u \in Int /\ v \in Int /\ u >= 0 /\ v >= 0
    <3>1. x \in Nat /\ y \in Nat
      BY <1>3, TensorDims
    <3>2. u \in Int /\ v \in Int
      BY Params
    <3>3. u >= 0 /\ v >= 0
      BY <1>1
    <3> QED
      BY <3>1, <3>2, <3>3
  <2> HIDE DEF x, y, u, v
  <2>2. x + u \in Nat /\ y + v \in Nat
    BY <2>1
  <2>3. (x + u) * (y + v) \in Nat
    BY <2>2, NatProducts
  <2> QED
    BY <2>3 DEF x, y, u, v
<1> HIDE DEF data, dump
<1>5. "unary_pad" \in Unconditional
  BY DEF Unconditional
<1>6. Computes(c)
  BY <1>3, <1>4, <1>5, NoOperand, PlainComputes
<1> QED
  BY <1>1, <1>6, OneComputes

(* POOL_2D computes. *)
LEMMA PoolRouteComputes ==
  ASSUME NEW n \in NodeType, NEW m, Loads(n, m), PoolRoute(n, m).to = "call"
  PROVE  ComputesAll(PoolRoute(n, m).calls)
<1> DEFINE s == n.src[1]  p == n.p  data == Flat(s, m)  tpl == PoolTpl(p[1])
           Outs(i) == ((s.ne[i] - p[i + 1]) \div p[i + 3]) + 1
           text == PoolText(tpl, s.ne[2], s.ne[1], p[3], p[2], p[5], p[4])
           dump == Outs(1) * Outs(2)
           key == Key(<<tpl, "">>, <<s.ne[2], s.ne[1], p[3], p[2], p[5], p[4]>>)
           c == Call(text, key, data, <<>>, dump)
           g == /\ n.dst.type = "F16" /\ Sources(n, 1, F16) /\ Positive(s)
                /\ p[1] \in {0, 1} /\ p[6] = 0 /\ p[7] = 0 /\ Flat2D(s)
                /\ Len(data) = s.ne[1] * s.ne[2]
                /\ \A i \in 2..5 : p[i] > 0
                /\ Outs(1) > 0 /\ Outs(2) > 0
<1>1. g /\ PoolRoute(n, m).calls = <<c>>
  BY Guarded, Zenon DEF PoolRoute, OneCall
<1>2. Sources(n, 1, F16)
  BY <1>1
<1>3. s \in TensorType /\ data \in Seq(Int)
  BY <1>2, FirstSource, NumPyKinds
<1>4. /\ p[2] \in Int /\ p[3] \in Int /\ p[4] \in Int /\ p[5] \in Int
      /\ p[2] > 0 /\ p[3] > 0 /\ p[4] > 0 /\ p[5] > 0
  <2>1. \A i \in 2..5 : p[i] > 0
    BY <1>1
  <2>2. \A i \in 1..7 : p[i] \in Int
    BY Params
  <2> HIDE DEF p
  <2> QED
    BY <2>1, <2>2
<1>5. dump \in Nat
  <2>1. s.ne[1] \in Nat /\ s.ne[2] \in Nat
    BY <1>3, TensorDims
  <2>2. \A x, y, z \in Int : z > 0 => ((x - y) \div z) + 1 \in Int
    OBVIOUS
  <2>3. Outs(1) \in Int /\ Outs(2) \in Int
    <3>1. ((s.ne[1] - p[2]) \div p[4]) + 1 \in Int /\ ((s.ne[2] - p[3]) \div p[5]) + 1 \in Int
      BY <1>4, <2>1, <2>2
    <3> QED
      BY <3>1
  <2> DEFINE x == Outs(1)  y == Outs(2)
  <2>4. x \in Nat /\ y \in Nat
    <3>1. x \in Int /\ y \in Int /\ x > 0 /\ y > 0
      BY <1>1, <2>3
    <3> HIDE DEF x, y
    <3> QED
      BY <3>1
  <2> HIDE DEF x, y
  <2>5. x * y \in Nat
    BY <2>4, NatProducts
  <2> QED
    BY <2>5 DEF x, y
<1>6. Renders(text)
  <2> DEFINE kh == p[3]  kw == p[2]  sh == p[5]  sw == p[4]  h == s.ne[2]  w == s.ne[1]
             b == <<h, w, ((h - kh) \div sh) + 1, ((w - kw) \div sw) + 1, kh, kw, sh, sw>>
             d == IF tpl = PoolTpl(1) THEN Append(b, Inv(kw * kh)) ELSE b
  <2>1. text = Text(tpl, "", d)
    BY DEF PoolText
  <2>2. tpl \in {"unary_pool_2d_max", "unary_pool_2d_avg"} /\ PoolTpl(1) = "unary_pool_2d_avg"
    BY DEF PoolTpl
  <2>3. kh \in Int /\ kw \in Int /\ kh > 0 /\ kw > 0
    BY <1>4
  <2> DEFINE oh == ((h - kh) \div sh) + 1  ow == ((w - kw) \div sw) + 1
  <2> HIDE DEF kh, kw, sh, sw, h, w, tpl, oh, ow
  <2>4. kh * kw \in Nat \ {0} /\ kw * kh \in Int
    <3>1. \A x, y \in Int : x > 0 /\ y > 0 => x * y \in Nat \ {0} /\ y * x \in Int
      OBVIOUS
    <3> QED
      BY <2>3, <3>1
  <2>5. Inv(kw * kh) \in Int
    BY <2>4, InvInt
  <2> DEFINE e == <<h, w, oh, ow, kh, kw, sh, sw>>
  <2>6. b = e
    BY DEF oh, ow
  <2>7. d[5] = kh /\ d[6] = kw /\ (tpl = "unary_pool_2d_avg" => d[9] = Inv(kw * kh))
    <3> DEFINE z == Inv(kw * kh)
    <3> HIDE DEF z
    <3>1. e[5] = kh /\ e[6] = kw /\ Append(e, z)[5] = kh /\ Append(e, z)[6] = kw /\ Append(e, z)[9] = z
      OBVIOUS
    <3> HIDE DEF e, b
    <3>2. d = IF tpl = "unary_pool_2d_avg" THEN Append(e, z) ELSE e
      BY <2>2, <2>6 DEF z
    <3> HIDE DEF d
    <3> QED
      BY <3>1, <3>2 DEF z
  <2> HIDE DEF d
  <2>8. Text(tpl, "", d).tpl = tpl /\ Text(tpl, "", d).c = d
    BY DEF Text
  <2>9. tpl \in Templates
    BY <2>2 DEF Templates
  <2>10. Renders(Text(tpl, "", d))
    <3> DEFINE t == Text(tpl, "", d)
    <3>1. t.tpl = tpl /\ t.c = d
      BY <2>8
    <3> HIDE DEF t
    <3>2. Renders(t)
      BY <2>2, <2>4, <2>5, <2>7, <2>9, <3>1 DEF Renders
    <3> QED
      BY <3>2 DEF t
  <2> QED
    BY <2>1, <2>10
<1> HIDE DEF data, text, dump, key
<1>7. Computes(c)
  BY <1>3, <1>5, <1>6, NoOperand DEF Computes, Call
<1> QED
  BY <1>1, <1>7, OneComputes

(* REPEAT computes. *)
LEMMA RepeatRouteComputes ==
  ASSUME NEW n \in NodeType, NEW m, Loads(n, m), RepeatRoute(n, m).to = "call"
  PROVE  ComputesAll(RepeatRoute(n, m).calls)
<1> DEFINE s == n.src[1].ne  d == n.dst.ne  total == Elems(s)  from == n.src[1].data
           x == [i \in 1..total |-> m[from + i - 1]]
           c == SimpleCall("unary_repeat", "", s \o d, x, <<>>, Elems(d))
           g == /\ n.dst.type = "F16" /\ Sources(n, 1, F16) /\ Positive(n.src[1])
                /\ Positive(n.dst) /\ \A i \in 1..4 : d[i] % s[i] = 0
                /\ total <= RepeatBudget /\ Elems(d) <= RepeatBudget
<1>1. g /\ RepeatRoute(n, m).calls = <<c>>
  BY Guarded, Zenon DEF RepeatRoute, OneCall
<1>2. Sources(n, 1, F16)
  BY <1>1
<1>3. n.src[1] \in TensorType /\ Readable(n.src[1], m)
  BY <1>2, FirstSource, NumPyKinds
<1>4. total \in Nat /\ from \in Nat
  BY <1>3, ElemsOfTensor DEF TensorType
<1>5. Elems(d) \in Nat
  <2>1. n.dst \in TensorType
    BY SourceOf
  <2> QED
    BY <2>1, ElemsOfTensor
<1>6. \A k \in 0..(total - 1) : m[from + k] \in Int
  BY <1>3, Zenon DEF Readable
<1>7. x \in Seq(Int)
  <2> HIDE DEF total, from
  <2>1. \A i \in 1..total : m[from + i - 1] \in Int
    <3> TAKE i \in 1..total
    <3>1. i - 1 \in 0..(total - 1) /\ from + (i - 1) = from + i - 1
      BY <1>4
    <3>2. m[from + (i - 1)] \in Int
      BY <1>6, <3>1
    <3> QED
      BY <3>1, <3>2
  <2>2. x \in [1..total -> Int]
    BY <2>1
  <2> QED
    BY <1>4, <2>2, IntoSeq
<1>8. "unary_repeat" \in Unconditional
  BY DEF Unconditional
<1> HIDE DEF x, s, d
<1>9. Computes(c)
  BY <1>5, <1>7, <1>8, NoOperand, PlainComputes
<1> QED
  BY <1>1, <1>9, OneComputes DEF s, d, x

(* The rows of a copy. *)
LEMMA CopyComputes ==
  ASSUME NEW data \in Seq(Int), NEW row, NEW rows, row * rows \in Nat, CopyRows(data, row, rows).to = "call"
  PROVE  ComputesAll(CopyRows(data, row, rows).calls)
<1>1. "unary_cont" \in Unconditional
  BY DEF Unconditional
<1>2. Computes(SimpleCall("unary_cont", "", <<row, rows>>, data, <<>>, row * rows))
  BY <1>1, NoOperand, PlainComputes
<1> QED
  BY <1>2, CopyCalls, OneComputes

(* CONT and DUP compute. *)
LEMMA ContRouteComputes ==
  ASSUME NEW n \in NodeType, NEW m, Loads(n, m), ContRoute(n, m).to = "call"
  PROVE  ComputesAll(ContRoute(n, m).calls)
<1> DEFINE g == /\ n.dst.type \in Castable /\ Sources(n, 1, {n.dst.type})
                /\ IsContiguous(n.src[1], 4) /\ IsContiguous(n.dst, 4) /\ n.src[1].ne = n.dst.ne /\ Positive(n.dst)
           row == n.dst.ne[1] * Width(n.dst.type)
           rows == Elems(Tail(n.dst.ne))
<1>1. ContRoute(n, m) = IF g THEN CopyRows(Raw(n.src[1], m), row, rows) ELSE Miss
  BY Zenon DEF ContRoute
<1>2. g
  BY <1>1, Guarded
<1>3. Raw(n.src[1], m) \in Seq(Int)
  <2>1. Sources(n, 1, {n.dst.type}) /\ {n.dst.type} \subseteq NumPyTypes
    BY <1>2, NumPyKinds
  <2> QED
    BY <2>1, FirstSource
<1>4. row * rows \in Nat
  <2>1. n.dst \in TensorType
    BY SourceOf
  <2>2. rows = n.dst.ne[2] * n.dst.ne[3] * n.dst.ne[4]
    BY <2>1, RowsOfTensor
  <2>3. n.dst.ne[1] \in Nat /\ n.dst.ne[2] \in Nat /\ n.dst.ne[3] \in Nat /\ n.dst.ne[4] \in Nat
    BY <2>1, TensorDims
  <2>4. Width(n.dst.type) \in Nat
    BY WidthNat
  <2>5. row \in Nat
    BY <2>3, <2>4, NatProducts
  <2>6. rows \in Nat
    BY <2>2, <2>3, NatProducts
  <2> HIDE DEF row, rows
  <2> QED
    BY <2>5, <2>6, NatProducts
<1> HIDE DEF row, rows
<1>5. ContRoute(n, m) = CopyRows(Raw(n.src[1], m), row, rows)
  BY <1>1, <1>2, Zenon
<1> QED
  BY <1>3, <1>4, <1>5, CopyComputes

(* ARANGE computes. *)
LEMMA ArangeRouteComputes ==
  ASSUME NEW n \in NodeType, ArangeRoute(n).to = "call"
  PROVE  ComputesAll(ArangeRoute(n).calls)
<1> DEFINE len == n.dst.ne[1]
           t == Text("unary_arange", "", <<len \div LaneWidth, LaneWidth>>)
           key == Key(<<"unary_arange", "">>, <<len>>)
<1>1. ArangeRoute(n).calls = <<Call(t, key, <<>>, <<>>, len)>>
  BY Guarded, Zenon DEF ArangeRoute
<1>2. len \in Nat
  BY SourceOf, TensorDims
<1>3. Renders(t)
  <2>1. LaneWidth \in Nat \ {0}
    BY FirmwareAssumption
  <2> DEFINE q == len \div LaneWidth
  <2> HIDE DEF len
  <2>2. q \in Nat
    <3>1. \A x \in Nat, y \in Nat \ {0} : x \div y \in Nat
      OBVIOUS
    <3> QED
      BY <1>2, <2>1, <3>1
  <2>3. LaneWidth \in Nat
    BY <2>1
  <2> QED
    <3> DEFINE cc == <<q, LaneWidth>>
    <3>1. cc[1] = q /\ cc[2] = LaneWidth
      OBVIOUS
    <3> HIDE DEF q, cc
    <3>2. Text("unary_arange", "", cc).tpl = "unary_arange" /\ Text("unary_arange", "", cc).c = cc
      BY DEF Text
    <3>3. Renders(Text("unary_arange", "", cc))
      BY <2>2, <2>3, <3>1, <3>2 DEF Renders, Templates
    <3> QED
      BY <3>3 DEF cc, q
<1> HIDE DEF t, len, key
<1>4. Computes(Call(t, key, <<>>, <<>>, len))
  BY <1>2, <1>3, NoOperand DEF Computes, Call
<1> QED
  BY <1>1, <1>4, OneComputes

(* The tensor that UPSCALE enlarges, as an array. *)
LEMMA UpscaledTyped ==
  ASSUME NEW n \in NodeType, NEW m, Loads(n, m), UpscaleGuard(n),
         Len(Flat(n.src[1], m)) = Elems(n.src[1].ne)
  PROVE  Upscaled(n, m) \in Seq(Int)
<1> DEFINE s == n.src[1]  ne == s.ne  d == n.dst.ne  x == Flat(s, m)
           a == [ne |-> ne, v |-> x]
           f == <<d[1] \div ne[1], d[2] \div ne[2]>>
<1>1. Sources(n, 1, Castable) /\ Positive(s)
  BY Zenon DEF UpscaleGuard
<1>2. s \in TensorType /\ x \in Seq(Int)
  BY <1>1, FirstSource, NumPyKinds
<1>3. n.dst \in TensorType
  BY SourceOf
<1>4. ne \in Seq(Nat) /\ Len(ne) = 4
  BY <1>2, Shapes
<1>5. f[1] \in Nat /\ f[2] \in Nat
  <2> DEFINE p == d[1]  q == ne[1]  u == d[2]  w == ne[2]
  <2>1. p \in Nat /\ q \in Nat /\ u \in Nat /\ w \in Nat
    BY <1>2, <1>3, TensorDims
  <2>2. q > 0 /\ w > 0
    BY <1>1 DEF Positive
  <2> HIDE DEF p, q, u, w
  <2>3. p \div q \in Nat /\ u \div w \in Nat
    BY <2>1, <2>2
  <2> QED
    BY <2>3 DEF p, q, u, w
<1>6. Source(a)
  <2>1. x \in [1..Elems(ne) -> Int]
    <3> DEFINE l == Elems(ne)
    <3>1. Len(x) = l
      OBVIOUS
    <3> HIDE DEF x, l
    <3>2. x \in [1..Len(x) -> Int]
      BY <1>2
    <3> QED
      BY <3>1, <3>2, Zenon DEF l
  <2> HIDE DEF x, ne
  <2>2. a.ne = ne /\ a.v = x /\ Len(ne) \in 1..4
    BY <1>4
  <2> QED
    BY <1>4, <2>1, <2>2 DEF Source, IntArray
<1> HIDE DEF x, f
<1>7. IntArray(Repeated(a, f))
  BY <1>5, <1>6, RepeatedTyped
<1>8. Repeated(a, f).v \in Seq(Int)
  <2> DEFINE r == Repeated(a, f)
  <2> HIDE DEF r
  <2>1. r.ne \in Seq(Nat) /\ r.v \in [1..Elems(r.ne) -> Int]
    BY <1>7 DEF IntArray, r
  <2>2. Elems(r.ne) \in Nat
    BY <2>1, ElemsNat
  <2> QED
    BY <2>1, <2>2, IntoSeq DEF r
<1> QED
  BY <1>8, Zenon DEF Upscaled, x, f

(* UPSCALE, whose operand the host has already enlarged, computes. *)
LEMMA UpscaleRouteComputes ==
  ASSUME NEW n \in NodeType, NEW m, Loads(n, m), UpscaleRoute(n, m).to = "call"
  PROVE  ComputesAll(UpscaleRoute(n, m).calls)
<1> DEFINE row == n.dst.ne[1]  rows == n.dst.ne[2] * n.dst.ne[3] * n.dst.ne[4]
<1>1. /\ UpscaleGuard(n) /\ Len(Flat(n.src[1], m)) = Elems(n.src[1].ne)
      /\ UpscaleRoute(n, m) = CopyRows(Upscaled(n, m), row, rows)
  BY UpscaleArms, Guarded, Zenon
<1>2. Upscaled(n, m) \in Seq(Int)
  BY <1>1, UpscaledTyped
<1>3. row * rows \in Nat
  <2>1. n.dst \in TensorType
    BY SourceOf
  <2>2. n.dst.ne[1] \in Nat /\ n.dst.ne[2] \in Nat /\ n.dst.ne[3] \in Nat /\ n.dst.ne[4] \in Nat
    BY <2>1, TensorDims
  <2>3. row \in Nat /\ rows \in Nat
    BY <2>2, NatProducts
  <2> HIDE DEF row, rows
  <2> QED
    BY <2>3, NatProducts
<1> HIDE DEF row, rows
<1> QED
  BY <1>1, <1>2, <1>3, CopyComputes

(* CONCAT computes. *)
LEMMA ConcatRouteComputes ==
  ASSUME NEW n \in NodeType, NEW m, Loads(n, m), ConcatRoute(n, m).to = "call"
  PROVE  ComputesAll(ConcatRoute(n, m).calls)
<1> DEFINE a == n.src[1]  b == n.src[2]  x == Flat(a, m)  y == Flat(b, m)
           plane == a.ne[1] * a.ne[2]
           g == n.dst.type \in Castable /\ Sources(n, 2, Castable) /\ SubSeq(a.ne, 1, 2) = SubSeq(b.ne, 1, 2) /\ Positive(a)
           h1 == Flat2D(a) /\ Flat2D(b) /\ Len(x) = plane /\ Len(y) = plane
           h2 == /\ n.p[1] = 2 /\ a.ne[4] = 1 /\ b.ne[4] = 1 /\ Positive(b)
                 /\ Len(x) = plane * a.ne[3] /\ Len(y) = plane * b.ne[3]
           c1 == SimpleCall("unary_concat", "", SubSeq(a.ne, 1, 2), x, y, 2 * plane)
           c2 == SimpleCall("unary_concat_channel", "", <<1, a.ne[3], b.ne[3], a.ne[2], a.ne[1]>>,
                            x, y, (a.ne[3] + b.ne[3]) * plane)
<1>1. g /\ (ConcatRoute(n, m).calls = <<c1>> \/ ConcatRoute(n, m).calls = <<c2>>)
  BY Guarded, Zenon DEF ConcatRoute
<1>2. Sources(n, 2, Castable)
  BY <1>1
<1>3. a \in TensorType /\ x \in Seq(Int) /\ b \in TensorType /\ y \in Seq(Int)
  BY <1>2, BothSources, NumPyKinds
<1>4. 2 * plane \in Nat /\ (a.ne[3] + b.ne[3]) * plane \in Nat
  <2> DEFINE p == a.ne[1]  q == a.ne[2]  r == a.ne[3]  t == b.ne[3]
  <2>1. p \in Nat /\ q \in Nat /\ r \in Nat /\ t \in Nat
    BY <1>3, TensorDims
  <2> HIDE DEF p, q, r, t
  <2> DEFINE z == p * q
  <2>2. z \in Nat
    BY <2>1, NatProducts
  <2> HIDE DEF z
  <2>3. r + t \in Nat /\ 2 * z \in Nat
    BY <2>1, <2>2
  <2>4. (r + t) * z \in Nat
    BY <2>2, <2>3, NatProducts
  <2> QED
    BY <2>3, <2>4 DEF p, q, r, t, z
<1>5. {"unary_concat", "unary_concat_channel"} \subseteq Unconditional
  BY DEF Unconditional
<1> HIDE DEF x, y, plane
<1>6. Computes(c1) /\ Computes(c2)
  BY <1>3, <1>4, <1>5, PlainComputes
<1> HIDE DEF c1, c2
<1> QED
  BY <1>1, <1>6, OneComputes

(* CONV_2D computes. *)
LEMMA ConvRouteComputes ==
  ASSUME NEW n \in NodeType, NEW m, Loads(n, m), ConvRoute(n, m).to = "call"
  PROVE  ComputesAll(ConvRoute(n, m).calls)
<1> DEFINE k == n.src[1]  im == n.src[2]  x == Flat(k, m)  y == Flat(im, m)
           cs == <<im.ne[2], im.ne[1], k.ne[2], k.ne[1]>>
           dump == (im.ne[1] - k.ne[1] + 1) * (im.ne[2] - k.ne[2] + 1)
           g == /\ n.dst.type = "F16" /\ Sources(n, 2, F16) /\ SubSeq(n.p, 1, 6) = <<1, 1, 0, 0, 1, 1>>
                /\ Flat2D(k) /\ Flat2D(im) /\ Positive(k) /\ im.ne[1] >= k.ne[1] /\ im.ne[2] >= k.ne[2]
                /\ Len(x) = Elems(k.ne) /\ Len(y) = Elems(im.ne)
           c == SimpleCall("unary_conv_2d", "", cs, x, y, dump)
<1>1. g /\ ConvRoute(n, m).calls = <<c>>
  BY Guarded, Zenon DEF ConvRoute
<1>2. Sources(n, 2, F16) /\ im.ne[1] >= k.ne[1] /\ im.ne[2] >= k.ne[2]
  BY <1>1
<1>3. k \in TensorType /\ x \in Seq(Int) /\ im \in TensorType /\ y \in Seq(Int)
  BY <1>2, BothSources, NumPyKinds
<1> DEFINE p == im.ne[1]  q == im.ne[2]  r == k.ne[1]  t == k.ne[2]
<1>4. p \in Nat /\ q \in Nat /\ r \in Nat /\ t \in Nat /\ p >= r /\ q >= t
  <2>1. p \in Nat /\ q \in Nat
    BY <1>3, TensorDims
  <2>2. r \in Nat /\ t \in Nat
    BY <1>3, TensorDims
  <2> QED
    BY <1>2, <2>1, <2>2
<1> HIDE DEF x, y
<1>5. dump \in Nat
  <2> HIDE DEF p, q, r, t
  <2>1. p - r + 1 \in Nat /\ q - t + 1 \in Nat
    BY <1>4
  <2>2. (p - r + 1) * (q - t + 1) \in Nat
    BY <2>1, NatProducts
  <2> QED
    BY <2>2 DEF p, q, r, t
<1>6. Renders(Text("unary_conv_2d", "", cs))
  <2>1. t * r \in Nat
    BY <1>4, NatProducts
  <2>2. cs = <<q, p, t, r>>
    OBVIOUS
  <2> HIDE DEF p, q, r, t
  <2>3. cs[3] = t /\ cs[4] = r
    BY <2>2
  <2> HIDE DEF cs
  <2>4. Text("unary_conv_2d", "", cs).tpl = "unary_conv_2d" /\ Text("unary_conv_2d", "", cs).c = cs
    BY DEF Text
  <2> QED
    BY <2>1, <2>3, <2>4 DEF Renders, Templates
<1> HIDE DEF dump, cs
<1>7. Computes(c)
  BY <1>3, <1>5, <1>6, CallComputes
<1> QED
  BY <1>1, <1>7, OneComputes

(* IM2COL computes. *)
LEMMA Im2ColRouteComputes ==
  ASSUME NEW n \in NodeType, NEW m, Loads(n, m), Im2ColRoute(n, m).to = "call"
  PROVE  ComputesAll(Im2ColRoute(n, m).calls)
<1> DEFINE k == n.src[1]  im == n.src[2]  p == n.p
           ic == im.ne[3]
           geometry == <<im.ne[2], im.ne[1], k.ne[2], k.ne[1], p[1]>>
           OutOf(i) == (im.ne[i] - k.ne[i]) \div p[1] + 1
           y == Flat(im, m)
           dump == OutOf(1) * OutOf(2) * ic * k.ne[1] * k.ne[2]
           c1 == SimpleCall("unary_im2col", "", geometry, <<>>, y, dump)
           c2 == SimpleCall("unary_im2col_multich", "", <<ic>> \o geometry, <<>>, y, dump)
           g == /\ n.dst.type \in Castable /\ Len(n.src) >= 2
                /\ k.type # Missing /\ im.type \in Castable
                /\ p[1] = p[2] /\ p[1] > 0 /\ SubSeq(p, 3, 7) = <<0, 0, 1, 1, 1>>
                /\ im.ne[4] = 1 /\ k.ne[4] = 1 /\ k.ne[3] = ic /\ Positive(k) /\ Positive(im)
                /\ Len(y) = Elems(im.ne) /\ OutOf(1) > 0 /\ OutOf(2) > 0
<1>1. g /\ (Im2ColRoute(n, m).calls = <<c1>> \/ Im2ColRoute(n, m).calls = <<c2>>)
  BY Guarded, Zenon DEF Im2ColRoute
<1>2. Len(n.src) >= 2 /\ im.type \in NumPyTypes /\ p[1] > 0 /\ OutOf(1) > 0 /\ OutOf(2) > 0
  BY <1>1, NumPyKinds
<1>3. k \in TensorType /\ im \in TensorType
  BY <1>2, SourceOf
<1>4. y \in Seq(Int)
  BY <1>2, SourceReads
<1>5. dump \in Nat
  <2> DEFINE o1 == OutOf(1)  o2 == OutOf(2)  k1 == k.ne[1]  k2 == k.ne[2]  i1 == im.ne[1]  i2 == im.ne[2]  s == p[1]
  <2>1. k1 \in Nat /\ k2 \in Nat
    BY <1>3, TensorDims
  <2>2. i1 \in Nat /\ i2 \in Nat /\ ic \in Nat
    BY <1>3, TensorDims
  <2>3. s \in Int /\ s > 0
    BY <1>2, Params
  <2>4. o1 = (i1 - k1) \div s + 1 /\ o2 = (i2 - k2) \div s + 1
    OBVIOUS
  <2>5. o1 > 0 /\ o2 > 0
    BY <1>2
  <2> HIDE DEF o1, o2, k1, k2, i1, i2, s, ic
  <2>6. o1 \in Nat /\ o2 \in Nat
    BY <2>1, <2>2, <2>3, <2>4, <2>5
  <2>7. o1 * o2 * ic \in Nat
    BY <2>2, <2>6, NatProducts
  <2> DEFINE z == o1 * o2 * ic
  <2> HIDE DEF z
  <2>8. z * k1 * k2 \in Nat
    BY <2>1, <2>7, NatProducts DEF z
  <2> QED
    BY <2>8 DEF z, o1, o2, k1, k2
<1>6. {"unary_im2col", "unary_im2col_multich"} \subseteq Unconditional
  BY DEF Unconditional
<1> HIDE DEF y, dump, geometry
<1>7. Computes(c1) /\ Computes(c2)
  BY <1>4, <1>5, <1>6, NoOperand, PlainComputes
<1> HIDE DEF c1, c2
<1> QED
  BY <1>1, <1>7, OneComputes

-----------------------------------------------------------------------------
(* The slices of an operand. *)

(* Min of two integers is the smaller one. *)
LEMMA Smaller ==
  ASSUME NEW x \in Int, NEW y \in Int
  PROVE  Min({x, y}) = IF x <= y THEN x ELSE y
<1> DEFINE a == IF x <= y THEN x ELSE y
<1>1. a \in {x, y} /\ \A z \in {x, y} : a <= z
  OBVIOUS
<1>2. \A b \in {x, y} : (\A z \in {x, y} : b <= z) => b = a
  OBVIOUS
<1> HIDE DEF a
<1>3. Min({x, y}) = CHOOSE b \in {x, y} : \A z \in {x, y} : b <= z
  BY Zenon DEF Min
<1>4. Min({x, y}) = a
  BY <1>1, <1>2, <1>3, Zenon
<1> QED
  BY <1>4 DEF a

(* A slice of a sequence of integers is one. *)
LEMMA CutTyped ==
  ASSUME NEW s \in Seq(Int), NEW from \in Nat \ {0}, NEW to \in Int
  PROVE  Cut(s, from, to) \in Seq(Int) /\ Len(Cut(s, from, to)) \in Nat
<1> DEFINE l == Len(s)  e == Min({to, l})
<1>1. l \in Nat
  OBVIOUS
<1>2. e \in Int /\ e <= l
  <2> HIDE DEF l
  <2>1. e = IF to <= l THEN to ELSE l
    BY <1>1, Smaller
  <2> QED
    BY <1>1, <2>1
<1>3. \A i \in 1..l : s[i] \in Int
  OBVIOUS
<1> HIDE DEF e, l
<1>4. \A i \in from..e : s[i] \in Int
  BY <1>1, <1>2, <1>3
<1>5. SubSeq(s, from, e) \in Seq(Int)
  BY <1>2, <1>4, SubSeqProperties
<1>6. Len(SubSeq(s, from, e)) \in Nat
  BY <1>5
<1> QED
  BY <1>5, <1>6 DEF Cut, e, l

(* The chunks an elementwise call is cut into compute. *)
LEMMA ChunksCompute ==
  ASSUME NEW tpl \in {"unary_intrin1", "binary_intrin1"}, NEW name, NEW x \in Seq(Int), NEW y \in Seq(Int)
  PROVE  ComputesAll(Chunked(tpl, name, x, y))
<1> DEFINE l == Len(x)  q == Ceiling(l, Chunk)
           from(k) == (k - 1) * Chunk + 1
           xs(k) == Cut(x, from(k), k * Chunk)
           ys(k) == Cut(y, from(k), k * Chunk)
           cs == Chunked(tpl, name, x, y)
<1>1. cs = [k \in 1..q |-> SimpleCall(tpl, name, <<Len(xs(k)) \div LaneWidth>>, xs(k), ys(k), Len(xs(k)))]
  BY Zenon DEF Chunked
<1>2. l \in Nat /\ Chunk \in Nat \ {0}
  BY RouteAssumption
<1>3. q \in Nat
  BY <1>2, CeilingInt
<1>4. tpl \in Unconditional
  BY DEF Unconditional
<1>5. \A k \in 1..q : Computes(cs[k])
  <2> TAKE k \in 1..q
  <2>1. k \in Nat /\ k >= 1
    BY <1>3
  <2>2. from(k) \in Nat \ {0} /\ k * Chunk \in Int
    <3>1. (k - 1) * Chunk \in Nat
      <4>1. k - 1 \in Nat
        BY <2>1
      <4> QED
        BY <1>2, <4>1, NatProducts
    <3>2. k * Chunk \in Int
      BY <1>2, <2>1
    <3> QED
      BY <3>1, <3>2
  <2> HIDE DEF from
  <2>3. xs(k) \in Seq(Int) /\ ys(k) \in Seq(Int) /\ Len(xs(k)) \in Nat
    BY <2>2, CutTyped
  <2> DEFINE u == xs(k)  v == ys(k)  w == Len(u)
  <2> HIDE DEF u, v, w
  <2>4. Computes(SimpleCall(tpl, name, <<w \div LaneWidth>>, u, v, w))
    BY <1>4, <2>3, PlainComputes DEF u, v, w
  <2> QED
    BY <1>1, <2>4, Zenon DEF u, v, w
<1>6. Len(cs) = q
  <2> HIDE DEF q, xs, ys
  <2> QED
    BY <1>1, <1>3
<1> HIDE DEF q, cs
<1> QED
  BY <1>5, <1>6 DEF ComputesAll, cs

(* Where a tile starts. *)
LEMMA TilePlace ==
  ASSUME NEW M \in Nat, NEW N \in Nat, NEW t \in 1..(Ceiling(M, TileM) * Ceiling(N, TileN))
  PROVE  LET mo == ((t - 1) \div Ceiling(N, TileN)) * TileM
             no == ((t - 1) % Ceiling(N, TileN)) * TileN
         IN mo \in Nat /\ no \in Nat /\ mo < M /\ no < N
<1> DEFINE cm == Ceiling(M, TileM)  cn == Ceiling(N, TileN)
           q == (t - 1) \div cn  r == (t - 1) % cn
<1>1. TileM \in Nat \ {0} /\ TileN \in Nat \ {0}
  BY RouteAssumption
<1>2. cm \in Nat /\ cn \in Nat
  BY <1>1, CeilingCovers
<1>3. \A k \in 1..cm : (k - 1) * TileM < M
  BY <1>1, CeilingCovers
<1>4. \A k \in 1..cn : (k - 1) * TileN < N
  BY <1>1, CeilingCovers
<1>5. q \in 0..(cm - 1) /\ r \in 0..(cn - 1)
  <2> HIDE DEF cm, cn
  <2>1. t \in 1..(cm * cn)
    BY DEF cm, cn
  <2>2. cn # 0
    BY <1>2, <2>1
  <2>3. q \in Nat /\ r \in 0..(cn - 1) /\ t - 1 = cn * q + r
    <3> DEFINE z == t - 1
    <3>1. z \in Nat
      BY <1>2, <2>1
    <3> HIDE DEF z
    <3>2. cn > 0
      BY <1>2, <2>2
    <3> QED
      BY <1>2, <3>1, <3>2 DEF z
  <2>4. q <= cm - 1
    <3> HIDE DEF q, r
    <3>1. t - 1 < cm * cn
      BY <1>2, <2>1
    <3>2. cn * q < cm * cn
      <4> DEFINE u == cn * q  w == cm * cn
      <4>1. u \in Int /\ w \in Int /\ r >= 0 /\ r \in Int
        BY <1>2, <2>3
      <4>2. u + r < w
        BY <2>3, <3>1
      <4> HIDE DEF u, w
      <4>3. u < w
        BY <4>1, <4>2
      <4> QED
        BY <4>3 DEF u, w
    <3>3. SUFFICES ASSUME q >= cm PROVE FALSE
      BY <1>2, <2>3
    <3>4. cn * q >= cn * cm
      BY <1>2, <2>3, <3>3, LargerProduct
    <3>5. cn * cm = cm * cn
      BY <1>2
    <3> DEFINE u == cn * q  w == cm * cn
    <3>6. u \in Int /\ w \in Int /\ u >= w /\ u < w
      BY <1>2, <2>3, <3>2, <3>4, <3>5
    <3> HIDE DEF u, w
    <3> QED
      BY <3>6
  <2> HIDE DEF q
  <2> QED
    BY <1>2, <2>3, <2>4
<1> DEFINE i == q + 1  j == r + 1
<1>6. q \in Nat /\ r \in Nat /\ i \in 1..cm /\ j \in 1..cn /\ i - 1 = q /\ j - 1 = r
  <2> HIDE DEF q, r, cm, cn
  <2> QED
    BY <1>2, <1>5
<1> HIDE DEF q, r, i, j, cm, cn
<1>7. q * TileM < M /\ r * TileN < N
  BY <1>3, <1>4, <1>6
<1>8. q * TileM \in Nat /\ r * TileN \in Nat
  BY <1>1, <1>6, NatProducts
<1> QED
  BY <1>7, <1>8 DEF q, r, cn

(* The tiles a product is cut into compute. *)
LEMMA TilesCompute ==
  ASSUME NEW a \in Seq(Int), NEW b \in Seq(Int), NEW M \in Nat, NEW K \in Nat, NEW N \in Nat
  PROVE  ComputesAll(TileCalls(a, b, M, K, N))
<1> DEFINE cm == Ceiling(M, TileM)  cn == Ceiling(N, TileN)  l == cm * cn
           mo(t) == ((t - 1) \div cn) * TileM
           no(t) == ((t - 1) % cn) * TileN
           rows(t) == Min({TileM, M - mo(t)})
           cols(t) == Min({TileN, N - no(t)})
           cs == TileCalls(a, b, M, K, N)
<1>1. cs = [t \in 1..l |-> SimpleCall("mul_mat", "", <<rows(t), K, cols(t)>>,
                                     Cut(a, mo(t) * K + 1, (mo(t) + rows(t)) * K),
                                     Cut(b, no(t) * K + 1, (no(t) + cols(t)) * K), rows(t) * cols(t))]
  BY Zenon DEF TileCalls
<1>2. TileM \in Nat \ {0} /\ TileN \in Nat \ {0}
  BY RouteAssumption
<1>3. l \in Nat
  <2>1. cm \in Nat /\ cn \in Nat
    BY <1>2, CeilingCovers
  <2> HIDE DEF cm, cn
  <2> QED
    BY <2>1, NatProducts
<1>4. \A t \in 1..l : Computes(cs[t])
  <2> TAKE t \in 1..l
  <2> DEFINE p == mo(t)  q == no(t)  u == rows(t)  v == cols(t)
             x == Cut(a, p * K + 1, (p + u) * K)  y == Cut(b, q * K + 1, (q + v) * K)
  <2>1. p \in Nat /\ q \in Nat /\ p < M /\ q < N
    BY TilePlace
  <2>2. u \in Nat /\ v \in Nat
    <3> HIDE DEF p, q
    <3>1. u = IF TileM <= M - p THEN TileM ELSE M - p
      <4>1. M - p \in Int /\ TileM \in Int
        BY <1>2, <2>1
      <4>2. u = Min({TileM, M - p})
        BY DEF p
      <4> QED
        BY <4>1, <4>2, Smaller
    <3>2. v = IF TileN <= N - q THEN TileN ELSE N - q
      <4>1. N - q \in Int /\ TileN \in Int
        BY <1>2, <2>1
      <4>2. v = Min({TileN, N - q})
        BY DEF q
      <4> QED
        BY <4>1, <4>2, Smaller
    <3> HIDE DEF u, v
    <3> QED
      BY <1>2, <2>1, <3>1, <3>2
  <2>3. cs[t] = SimpleCall("mul_mat", "", <<u, K, v>>, x, y, u * v)
    BY <1>1, Zenon
  <2> HIDE DEF p, q, u, v, cs
  <2>4. p * K + 1 \in Nat \ {0} /\ q * K + 1 \in Nat \ {0}
    <3>1. p * K \in Nat /\ q * K \in Nat
      BY <2>1, NatProducts
    <3> QED
      BY <3>1
  <2>5. (p + u) * K \in Int /\ (q + v) * K \in Int
    BY <2>1, <2>2
  <2>6. x \in Seq(Int) /\ y \in Seq(Int)
    BY <2>4, <2>5, CutTyped
  <2>7. u * v \in Nat
    BY <2>2, NatProducts
  <2>8. Renders(Text("mul_mat", "", <<u, K, v>>))
    BY DEF Renders, Text, Templates
  <2> HIDE DEF x, y
  <2> QED
    BY <2>3, <2>6, <2>7, <2>8, CallComputes
<1>5. Len(cs) = l
  <2> HIDE DEF l, rows, cols, mo, no
  <2>1. cs = [t \in 1..l |-> cs[t]]
    BY <1>1, Zenon
  <2> QED
    BY <1>3, <2>1, VectorIsSeq
<1> HIDE DEF l, cs
<1> QED
  BY <1>4, <1>5 DEF ComputesAll, cs

-----------------------------------------------------------------------------
(* The elementwise routes and the products. *)

(* The elementwise routes of one operand compute. *)
LEMMA UnaryRouteComputes ==
  ASSUME NEW n \in NodeType, NEW m, Loads(n, m), NEW name, UnaryRoute(n, m, name).to = "call"
  PROVE  ComputesAll(UnaryRoute(n, m, name).calls)
<1> DEFINE x == Flat(n.src[1], m)
           g == n.dst.type \in Castable /\ Sources(n, 1, Castable) /\ Len(x) > 0 /\ Len(x) % LaneWidth = 0
<1>1. g /\ UnaryRoute(n, m, name).calls = Chunked("unary_intrin1", name, x, <<>>)
  BY Guarded, Zenon DEF UnaryRoute
<1>2. Sources(n, 1, Castable)
  BY <1>1
<1>3. x \in Seq(Int)
  BY <1>2, FirstSource, NumPyKinds
<1> HIDE DEF x
<1>4. ComputesAll(Chunked("unary_intrin1", name, x, <<>>))
  BY <1>3, NoOperand, ChunksCompute
<1> QED
  BY <1>1, <1>4

(* The second operand, repeated over the first. *)
LEMMA BroadcastSrcTyped ==
  ASSUME NEW a \in TensorType, NEW b \in TensorType, NEW y \in Seq(Int), CanBroadcast(a, b, y)
  PROVE  BroadcastSrcTo(a, b, y) \in Seq(Int)
<1> DEFINE e == [ne |-> b.ne, v |-> y]  k == Elems(a.ne)
           v == [i \in 1..k |-> At(e, Clipped(b.ne, Coord(a.ne, i - 1)))]
<1>1. a.ne \in Seq(Nat) /\ Len(a.ne) = 4 /\ b.ne \in Seq(Nat) /\ Len(b.ne) = 4
  BY Shapes
<1>2. k \in Nat
  BY ElemsOfTensor
<1>3. BroadcastSrcTo(a, b, y) = v
  BY DEF BroadcastSrcTo, Array
<1>4. IntArray(e)
  <2>1. y \in [1..Elems(b.ne) -> Int]
    <3> DEFINE l == Elems(b.ne)
    <3>1. Len(y) = l
      BY DEF CanBroadcast
    <3> HIDE DEF l
    <3> QED
      BY <3>1 DEF l
  <2> HIDE DEF k, v
  <2>2. e.ne = b.ne /\ e.v = y /\ e = [ne |-> e.ne, v |-> e.v]
    OBVIOUS
  <2> HIDE DEF e
  <2> QED
    BY <1>1, <2>1, <2>2 DEF IntArray
<1>5. \A d \in 1..4 : a.ne[d] \in Nat /\ b.ne[d] \in {1, a.ne[d]}
  BY TensorDims DEF CanBroadcast
<1>6. \A i \in 1..k : v[i] \in Int
  <2> TAKE i \in 1..k
  <2> DEFINE c == Coord(a.ne, i - 1)  o == Clipped(b.ne, c)
  <2>1. Within(a.ne, c)
    BY <1>1, CoordWithin
  <2>2. DOMAIN a.ne = 1..4 /\ DOMAIN b.ne = 1..4
    BY <1>1
  <2>3. o = [d \in 1..4 |-> IF b.ne[d] = 1 THEN 0 ELSE c[d]]
    BY <2>2 DEF Clipped
  <2> HIDE DEF c
  <2>4. DOMAIN o = 1..4
    BY <2>3
  <2>5. \A d \in 1..4 : o[d] \in 0..(b.ne[d] - 1)
    <3> TAKE d \in 1..4
    <3>1. c[d] \in 0..(a.ne[d] - 1) /\ o[d] = IF b.ne[d] = 1 THEN 0 ELSE c[d]
      BY <2>1, <2>2, <2>3 DEF Within
    <3> HIDE DEF o
    <3> DEFINE p == a.ne[d]  q == b.ne[d]
    <3>2. p \in Nat /\ q \in {1, p}
      BY <1>5
    <3> HIDE DEF p, q
    <3> QED
      BY <3>1, <3>2 DEF p, q
  <2> HIDE DEF o
  <2>6. Within(b.ne, o)
    BY <2>2, <2>4, <2>5 DEF Within
  <2>7. e.ne = b.ne
    OBVIOUS
  <2> HIDE DEF e
  <2>8. At(e, o) \in Int
    BY <1>4, <2>6, <2>7, AtTyped
  <2> QED
    BY <2>8 DEF o, c
<1>7. v = [i \in 1..k |-> v[i]]
  OBVIOUS
<1> HIDE DEF v, k
<1>8. v \in [1..k -> Int]
  BY <1>6, <1>7
<1> QED
  BY <1>2, <1>3, <1>8, IntoSeq

(* The elementwise routes of two operands compute, the second one broadcast or not. *)
LEMMA BinaryRouteComputes ==
  ASSUME NEW n \in NodeType, NEW m, Loads(n, m), BinaryRoute(n, m).to = "call"
  PROVE  ComputesAll(BinaryRoute(n, m).calls)
<1> DEFINE a == n.src[1]  b == n.src[2]  x == Flat(a, m)  y == Flat(b, m)
           z == IF Len(x) = Len(y) THEN y ELSE BroadcastSrcTo(a, b, y)
           g == /\ n.dst.type \in Castable /\ Sources(n, 2, Castable)
                /\ Len(x) > 0 /\ Len(y) > 0 /\ (Len(x) = Len(y) \/ CanBroadcast(a, b, y))
                /\ Len(z) = Len(x) /\ Len(x) % LaneWidth = 0
<1>1. g /\ BinaryRoute(n, m).calls = Chunked("binary_intrin1", n.op, x, z)
  BY Guarded, Zenon DEF BinaryRoute
<1>2. Sources(n, 2, Castable) /\ (Len(x) = Len(y) \/ CanBroadcast(a, b, y))
  BY <1>1, Zenon
<1>3. a \in TensorType /\ x \in Seq(Int) /\ b \in TensorType /\ y \in Seq(Int)
  BY <1>2, BothSources, NumPyKinds
<1> HIDE DEF x, y, a, b
<1>4. z \in Seq(Int)
  BY <1>2, <1>3, BroadcastSrcTyped
<1> HIDE DEF z
<1>5. ComputesAll(Chunked("binary_intrin1", n.op, x, z))
  BY <1>3, <1>4, ChunksCompute
<1> QED
  BY <1>1, <1>5

(* MUL_MAT computes, in one call or in tiles. *)
LEMMA MulMatRouteComputes ==
  ASSUME NEW n \in NodeType, NEW m, Loads(n, m), MulMatRoute(n, m).to = "call"
  PROVE  ComputesAll(MulMatRoute(n, m).calls)
<1> DEFINE a == n.src[1]  b == n.src[2]  x == Flat(a, m)  y == Flat(b, m)
           g == /\ n.dst.type \in Castable /\ Sources(n, 2, Castable) /\ Flat2D(a) /\ Flat2D(b)
                /\ a.ne[1] = b.ne[1] /\ a.ne[1] % LaneWidth = 0
                /\ Len(x) = Elems(a.ne) /\ Len(y) = Elems(b.ne)
<1>1. g /\ MulMatRoute(n, m).calls = TileCalls(x, y, a.ne[2], a.ne[1], b.ne[2])
  BY Guarded, Zenon DEF MulMatRoute
<1>2. Sources(n, 2, Castable)
  BY <1>1
<1>3. a \in TensorType /\ x \in Seq(Int) /\ b \in TensorType /\ y \in Seq(Int)
  BY <1>2, BothSources, NumPyKinds
<1>4. a.ne[1] \in Nat /\ a.ne[2] \in Nat /\ b.ne[2] \in Nat
  <2>1. a.ne[1] \in Nat /\ a.ne[2] \in Nat
    BY <1>3, TensorDims
  <2>2. b.ne[2] \in Nat
    BY <1>3, TensorDims
  <2> QED
    BY <2>1, <2>2
<1> HIDE DEF x, y
<1>5. ComputesAll(TileCalls(x, y, a.ne[2], a.ne[1], b.ne[2]))
  BY <1>3, <1>4, TilesCompute
<1> QED
  BY <1>1, <1>5

(* The calls of every route have operands of integers and kernels that render. *)
LEMMA RouteComputes ==
  ASSUME NEW n \in NodeType, NEW m, Loads(n, m), TryPyspike(n, m).to = "call"
  PROVE  ComputesAll(TryPyspike(n, m).calls)
<1> DEFINE r == TryPyspike(n, m)
<1>1. /\ r = MulMatRoute(n, m) => ComputesAll(r.calls)
      /\ r = ArangeRoute(n) => ComputesAll(r.calls)
      /\ r = RepeatRoute(n, m) => ComputesAll(r.calls)
      /\ r = UpscaleRoute(n, m) => ComputesAll(r.calls)
      /\ r = PadRoute(n, m) => ComputesAll(r.calls)
      /\ r = ContRoute(n, m) => ComputesAll(r.calls)
      /\ r = ConcatRoute(n, m) => ComputesAll(r.calls)
      /\ r = PoolRoute(n, m) => ComputesAll(r.calls)
      /\ r = Im2ColRoute(n, m) => ComputesAll(r.calls)
      /\ r = ConvRoute(n, m) => ComputesAll(r.calls)
      /\ Simple(n) /\ r = SimpleRoute(n, m) => ComputesAll(r.calls)
      /\ \A name : r = UnaryRoute(n, m, name) => ComputesAll(r.calls)
      /\ r = BinaryRoute(n, m) => ComputesAll(r.calls)
  BY MulMatRouteComputes, ArangeRouteComputes, RepeatRouteComputes, UpscaleRouteComputes,
     PadRouteComputes, ContRouteComputes, ConcatRouteComputes, PoolRouteComputes,
     Im2ColRouteComputes, ConvRouteComputes, SimpleRouteComputes, UnaryRouteComputes,
     BinaryRouteComputes, Zenon
<1>2. r # Miss
  BY Guarded
<1>3. n.op \in Operators \/ n.op \notin Operators
  OBVIOUS
<1> HIDE DEF r
<1>4. CASE n.op \in Operators
  <2>1. \/ n.op = "MUL_MAT" \/ n.op = "ARANGE" \/ n.op = "REPEAT" \/ n.op = "UPSCALE" \/ n.op = "PAD"
        \/ n.op \in {"CONT", "DUP"} \/ n.op = "CONCAT" \/ n.op = "POOL_2D" \/ n.op = "IM2COL"
        \/ n.op = "CONV_2D"
    BY <1>4 DEF Operators
  <2> QED
    BY <1>1, <2>1, RouteArms, Zenon DEF r
<1>5. CASE n.op \notin Operators
  BY <1>1, <1>2, <1>5, RouteArms, Zenon DEF r
<1> QED
  BY <1>4, <1>5 DEF r

-----------------------------------------------------------------------------
(* What a route writes. *)

(* Units that can be stored. *)
Writes(u) == Len(u) \in Nat /\ \A i \in 1..Len(u) : u[i] \in Int

(* A sequence of integers may be written. *)
LEMMA SeqWrites == ASSUME NEW u \in Seq(Int) PROVE Writes(u)
<1> DEFINE l == Len(u)
<1>1. l \in Nat /\ \A i \in 1..l : u[i] \in Int
  OBVIOUS
<1> QED
  BY <1>1 DEF Writes

(* Encoding integers as a type leaves what may be written. *)
LEMMA EncodedWrites ==
  ASSUME NEW type, NEW k \in Nat, NEW v, v = [i \in 1..k |-> v[i]], \A i \in 1..k : v[i] \in Int
  PROVE  Writes(Encode(type, v))
<1> DEFINE e == Encode(type, v)
<1>1. IsSeq(e)
  BY EncodeLen
<1>2. \A i \in DOMAIN e : e[i] \in Int
  BY EncodeTyped
<1> HIDE DEF e
<1>3. Len(e) \in Nat /\ DOMAIN e = 1..Len(e)
  BY <1>1, SeqHasLen
<1>4. \A i \in 1..Len(e) : e[i] \in Int
  BY <1>2, <1>3, Zenon
<1> QED
  BY <1>3, <1>4 DEF Writes, e

(* The results of the calls, one after the other. *)
LEMMA FlattenTyped ==
  ASSUME NEW s, IsSeq(s), \A i \in 1..Len(s) : s[i] \in Seq(Int)
  PROVE  FlattenSeq(s) \in Seq(Int)
<1> DEFINE n == Len(s)
<1>1. n \in Nat /\ DOMAIN s = 1..n /\ s = [i \in 1..n |-> s[i]]
  BY SeqHasLen
<1>2. CASE n = 0
  BY <1>2, NoOperand DEF FlattenSeq
<1>3. CASE n # 0
  <2> DEFINE f == CHOOSE f : Flattens(f, s)
  <2>1. Flattens(f, s)
    <3>1. \A i \in DOMAIN s : IsSeq(s[i])
      <4> TAKE i \in DOMAIN s
      <4> DEFINE w == s[i]
      <4>1. w \in Seq(Int)
        BY <1>1
      <4> HIDE DEF w
      <4>2. w = [j \in 1..Len(w) |-> w[j]] /\ Len(w) \in Nat
        BY <4>1
      <4>3. IsSeq(w)
        BY <4>2, VectorIsSeq
      <4> QED
        BY <4>3 DEF w
    <3> QED
      BY <1>3, <3>1, FlattenExists
  <2>2. FlattenSeq(s) = f[n]
    BY <1>3, Zenon DEF FlattenSeq, Flattens
  <2> HIDE DEF f
  <2> DEFINE T == {k \in Nat : k >= 1 /\ k <= n => f[k] \in Seq(Int)}
  <2>3. 0 \in T
    OBVIOUS
  <2>4. ASSUME NEW k \in 0..n - 1, k \in T PROVE k + 1 \in T
    <3>1. CASE k = 0
      <4>1. f[1] = s[1] /\ 1 \in 1..n
        BY <1>1, <1>3, <2>1 DEF Flattens
      <4> QED
        BY <3>1, <4>1, <1>1
    <3>2. CASE k # 0
      <4>1. k \in 1..n /\ k + 1 \in 1..n /\ (k + 1) - 1 = k /\ k + 1 # 1
        BY <1>1, <3>2
      <4>2. f[k + 1] = f[k] \o s[k + 1]
        <5> HIDE DEF n
        <5> QED
          BY <2>1, <4>1 DEF Flattens, n
      <4>3. f[k] \in Seq(Int)
        BY <2>4, <4>1
      <4>4. s[k + 1] \in Seq(Int)
        BY <1>1, <4>1
      <4>5. f[k + 1] \in Seq(Int)
        <5> DEFINE x == f[k]  y == s[k + 1]
        <5> HIDE DEF x, y
        <5>1. x \o y \in Seq(Int)
          BY <4>3, <4>4 DEF x, y
        <5> QED
          BY <4>2, <5>1 DEF x, y
      <4> QED
        BY <4>1, <4>5
    <3> QED
      BY <3>1, <3>2
  <2>5. 0..n \subseteq T
    <3> HIDE DEF T, n
    <3> QED
      BY <1>1, <2>3, <2>4, UpToInduction
  <2>6. n \in T /\ n >= 1
    <3> HIDE DEF T
    <3> QED
      BY <1>1, <1>3, <2>5
  <2> QED
    BY <1>1, <2>2, <2>6
<1> QED
  BY <1>2, <1>3

(* The results of the calls of a route, joined and encoded, may be written. *)
LEMMA JoinedWrites ==
  ASSUME NEW type, NEW s, IsSeq(s), \A i \in 1..Len(s) : s[i] \in Seq(Int)
  PROVE  Writes(Encode(type, FlattenSeq(s)))
<1> DEFINE v == FlattenSeq(s)  k == Len(v)
<1>1. v \in Seq(Int)
  BY FlattenTyped
<1> HIDE DEF v
<1>2. k \in Nat /\ v = [i \in 1..k |-> v[i]] /\ \A i \in 1..k : v[i] \in Int
  BY <1>1
<1> HIDE DEF k
<1>3. Writes(Encode(type, v))
  BY <1>2, EncodedWrites
<1> QED
  BY <1>3 DEF v

(* Where an element of the product lies in its tile. *)
LEMMA InTile ==
  ASSUME NEW x \in Nat, NEW T \in Nat \ {0}, NEW M \in Nat, x < M
  PROVE  LET q == x \div T  r == Min({T, M - q * T})
         IN /\ q \in 0..(Ceiling(M, T) - 1) /\ r \in Nat
            /\ x % T \in 0..(r - 1)
<1> DEFINE q == x \div T  p == x % T  b == q * T
<1>1. q \in Nat /\ p \in 0..(T - 1) /\ b \in Nat /\ x = b + p
  <2>1. q \in Nat /\ p \in 0..(T - 1) /\ x = T * q + p
    <3>1. T > 0
      OBVIOUS
    <3> QED
      BY <3>1
  <2> HIDE DEF q, p
  <2>2. T * q = q * T /\ q * T \in Nat
    BY <2>1
  <2> QED
    BY <2>1, <2>2
<1> DEFINE r == Min({T, M - b})  c == Ceiling(M, T)
<1>2. c \in Nat /\ M <= c * T
  BY CeilingCovers
<1> HIDE DEF c
<1>3. q <= c - 1
  <2> HIDE DEF q, p
  <2>1. SUFFICES ASSUME q >= c PROVE FALSE
    BY <1>1, <1>2
  <2>2. c * T <= q * T
    BY <1>1, <1>2, <2>1, LargerProduct
  <2> DEFINE u == c * T
  <2>3. u \in Int
    BY <1>2
  <2> HIDE DEF u, b
  <2>4. u <= b /\ M <= u
    BY <1>2, <2>2 DEF u, b
  <2> QED
    BY <1>1, <2>3, <2>4
<1> HIDE DEF q, p, b
<1>4. r = IF T <= M - b THEN T ELSE M - b
  <2>1. M - b \in Int
    BY <1>1
  <2> QED
    BY <2>1, Smaller
<1> HIDE DEF r
<1>5. r \in Nat /\ p \in 0..(r - 1)
  BY <1>1, <1>4
<1>6. q \in 0..(c - 1)
  BY <1>1, <1>2, <1>3
<1> QED
  BY <1>5, <1>6 DEF q, p, b, r, c

(* An element of a row of a tile. *)
LEMMA InRows ==
  ASSUME NEW r \in Nat, NEW c \in Nat, NEW u \in 0..(r - 1), NEW v \in 0..(c - 1)
  PROVE  u * c + v + 1 \in 1..(r * c)
<1>1. u \in Nat /\ v \in Nat /\ u <= r - 1 /\ v + 1 <= c /\ r - 1 \in Nat
  OBVIOUS
<1>2. u * c <= (r - 1) * c /\ u * c \in Nat
  BY <1>1, LargerProduct
<1>3. (r - 1) * c = r * c - c
  OBVIOUS
<1> DEFINE x == u * c  y == r * c  z == (r - 1) * c
<1>4. x \in Nat /\ y \in Nat /\ x <= z /\ z = y - c
  BY <1>2, <1>3, NatProducts
<1> HIDE DEF x, y, z
<1>5. x + v + 1 \in 1..y
  BY <1>1, <1>4
<1> QED
  BY <1>5 DEF x, y

(* The quotient and the remainder that a product and a rest give back. *)
LEMMA Divided ==
  ASSUME NEW u \in Nat, NEW c \in Nat, NEW v \in 0..(c - 1)
  PROVE  (u * c + v) \div c = u /\ (u * c + v) % c = v
<1> DEFINE x == u * c + v  q == x \div c  r == x % c  y == u * c
<1>1. c > 0 /\ y \in Nat /\ v \in Nat /\ v < c /\ x = y + v
  BY NatProducts
<1>2. q \in Nat /\ r \in 0..(c - 1) /\ x = q * c + r
  <2>1. x \in Nat
    BY <1>1
  <2> HIDE DEF x
  <2>2. q \in Nat /\ r \in 0..(c - 1) /\ x = c * q + r
    BY <1>1, <2>1
  <2> HIDE DEF q, r
  <2>3. c * q = q * c
    BY <2>2
  <2> QED
    BY <2>2, <2>3
<1> HIDE DEF x, q, r
<1>3. q = u
  <2> DEFINE z == q * c
  <2>1. z \in Nat
    BY <1>2, NatProducts
  <2>2. ~(q >= u + 1)
    <3>1. ASSUME q >= u + 1 PROVE FALSE
      <4>1. (u + 1) * c <= z
        BY <1>2, <3>1, LargerProduct
      <4>2. (u + 1) * c = y + c
        OBVIOUS
      <4> HIDE DEF y, z
      <4> QED
        BY <1>1, <1>2, <2>1, <4>1, <4>2 DEF z
    <3> QED
      BY <3>1
  <2>3. ~(u >= q + 1)
    <3>1. ASSUME u >= q + 1 PROVE FALSE
      <4>1. (q + 1) * c <= y
        BY <1>2, <3>1, LargerProduct
      <4>2. (q + 1) * c = z + c
        BY <1>2
      <4> HIDE DEF y, z
      <4> QED
        BY <1>1, <1>2, <2>1, <4>1, <4>2 DEF z
    <3> QED
      BY <3>1
  <2> HIDE DEF z
  <2> QED
    BY <1>2, <2>2, <2>3
<1>4. r = v
  <2>1. x = y + r
    BY <1>2, <1>3
  <2> HIDE DEF y
  <2> QED
    BY <1>1, <1>2, <2>1
<1> QED
  BY <1>3, <1>4 DEF q, r, x

(* The place of the element of a table. *)
LEMMA RowPlace ==
  ASSUME NEW n \in Nat, NEW w \in Nat, NEW k \in 1..(n * w)
  PROVE  (k - 1) \div w \in 0..(n - 1) /\ (k - 1) % w \in 0..(w - 1)
<1> DEFINE q == (k - 1) \div w  r == (k - 1) % w
<1>1. w # 0
  OBVIOUS
<1>2. q \in Nat /\ r \in 0..(w - 1) /\ k - 1 = w * q + r
  <2> DEFINE z == k - 1
  <2>1. z \in Nat
    OBVIOUS
  <2> HIDE DEF z
  <2>2. w > 0
    BY <1>1
  <2> QED
    BY <2>1, <2>2 DEF z
<1>3. q <= n - 1
  <2> HIDE DEF q, r
  <2> DEFINE u == w * q  y == n * w
  <2>1. u \in Nat /\ y \in Nat
    BY <1>2, NatProducts
  <2>2. u < y
    <3> HIDE DEF u
    <3> QED
      BY <1>2, <2>1 DEF u
  <2>3. ASSUME q >= n PROVE FALSE
    <3>1. n * w <= q * w
      BY <1>2, <2>3, LargerProduct
    <3>2. q * w = w * q
      BY <1>2
    <3> HIDE DEF u, y
    <3> QED
      BY <2>1, <2>2, <3>1, <3>2 DEF u, y
  <2> QED
    BY <1>2, <2>3
<1> HIDE DEF q
<1> QED
  BY <1>2, <1>3 DEF q

(* How much a tile asks for. *)
LEMMA TileDump ==
  ASSUME NEW a, NEW b, NEW M, NEW K, NEW N, NEW t \in 1..(Ceiling(M, TileM) * Ceiling(N, TileN))
  PROVE  TileCalls(a, b, M, K, N)[t].dump =
           Min({TileM, M - ((t - 1) \div Ceiling(N, TileN)) * TileM})
           * Min({TileN, N - ((t - 1) % Ceiling(N, TileN)) * TileN})
<1> DEFINE mo == ((t - 1) \div Ceiling(N, TileN)) * TileM
           no == ((t - 1) % Ceiling(N, TileN)) * TileN
           rows == Min({TileM, M - mo})
           cols == Min({TileN, N - no})
           x == Cut(a, mo * K + 1, (mo + rows) * K)
           y == Cut(b, no * K + 1, (no + cols) * K)
           d == rows * cols
           c == <<rows, K, cols>>
<1>1. TileCalls(a, b, M, K, N)[t] = SimpleCall("mul_mat", "", c, x, y, d)
  BY Zenon DEF TileCalls
<1>2. SimpleCall("mul_mat", "", c, x, y, d).dump = d
  <2> HIDE DEF c, x, y, d
  <2> QED
    BY DEF SimpleCall, Call
<1> QED
  BY <1>1, <1>2, Zenon

(* The product that the tiles make up. *)
LEMMA SplicedTyped ==
  ASSUME NEW n, n.src[1].ne[2] \in Nat, n.src[2].ne[2] \in Nat, NEW x, NEW y, NEW K,
         Answered(outs, TileCalls(x, y, n.src[1].ne[2], K, n.src[2].ne[2])),
         \A i \in 1..Len(outs) : outs[i] \in Seq(Int)
  PROVE  \A k \in 1..(n.src[2].ne[2] * n.src[1].ne[2]) : Spliced(n)[k] \in Int
<1> DEFINE M == n.src[1].ne[2]  N == n.src[2].ne[2]  cm == Ceiling(M, TileM)  cn == Ceiling(N, TileN)
           l == cm * cn
           mo(t) == ((t - 1) \div cn) * TileM
           no(t) == ((t - 1) % cn) * TileN
           rows(t) == Min({TileM, M - mo(t)})
           cols(t) == Min({TileN, N - no(t)})
           cs == TileCalls(x, y, M, K, N)
<1>1. cs = [t \in 1..l |-> SimpleCall("mul_mat", "", <<rows(t), K, cols(t)>>,
                                     Cut(x, mo(t) * K + 1, (mo(t) + rows(t)) * K),
                                     Cut(y, no(t) * K + 1, (no(t) + cols(t)) * K), rows(t) * cols(t))]
  BY Zenon DEF TileCalls
<1>2. TileM \in Nat \ {0} /\ TileN \in Nat \ {0}
  BY RouteAssumption
<1>3. cm \in Nat /\ cn \in Nat
  BY <1>2, CeilingCovers
<1>4. \A t \in 1..l : cs[t].dump = rows(t) * cols(t)
  BY TileDump
<1>5. Len(outs) = l
  <2>1. l \in Nat
    <3> HIDE DEF cm, cn
    <3> QED
      BY <1>3, NatProducts
  <2>2. cs = [t \in 1..l |-> cs[t]]
    BY <1>1, Zenon
  <2> HIDE DEF l, cs
  <2>3. Len(cs) = l
    BY <2>1, <2>2, VectorIsSeq
  <2> QED
    BY <2>3 DEF Answered, cs
<1> DEFINE Tile(i, j) == outs[(i \div TileM) * cn + j \div TileN + 1]
           Cols(j) == Min({TileN, N - (j \div TileN) * TileN})
           F(j, i) == Tile(i, j)[(i % TileM) * Cols(j) + (j % TileN) + 1]
<1>6. \A k \in 1..(N * M) : Spliced(n)[k] = F((k - 1) \div M, (k - 1) % M)
  BY DEF Spliced, Rows
<1>7. ASSUME NEW i \in 0..(M - 1), NEW j \in 0..(N - 1) PROVE F(j, i) \in Int
  <2> DEFINE qi == i \div TileM  qj == j \div TileN  ri == i % TileM  rj == j % TileN
             r == Min({TileM, M - qi * TileM})  c == Min({TileN, N - qj * TileN})
             t == qi * cn + qj + 1
  <2>1. qi \in 0..(cm - 1) /\ r \in Nat /\ ri \in 0..(r - 1)
    <3>1. i \in Nat /\ i < M
      OBVIOUS
    <3> QED
      BY <1>2, <3>1, InTile
  <2>2. qj \in 0..(cn - 1) /\ c \in Nat /\ rj \in 0..(c - 1)
    <3>1. j \in Nat /\ j < N
      OBVIOUS
    <3> QED
      BY <1>2, <3>1, InTile
  <2>3. t \in 1..l
    <3> HIDE DEF qi, qj, cm, cn
    <3> QED
      BY <1>3, <2>1, <2>2, InRows
  <2>4. (t - 1) \div cn = qi /\ (t - 1) % cn = qj
    <3> HIDE DEF qi, qj, cn
    <3>1. qi \in Nat /\ qj \in Nat /\ qi * cn \in Nat
      BY <1>3, <2>1, <2>2, NatProducts
    <3> DEFINE z == qi * cn
    <3>2. t - 1 = z + qj
      <4> HIDE DEF z
      <4>1. t = z + qj + 1
        BY DEF z
      <4> HIDE DEF t
      <4> QED
        BY <3>1, <4>1 DEF z
    <3>3. (qi * cn + qj) \div cn = qi /\ (qi * cn + qj) % cn = qj
      BY <1>3, <2>2, <3>1, Divided
    <3> HIDE DEF t
    <3> QED
      BY <3>2, <3>3
  <2>5. rows(t) = r /\ cols(t) = c
    BY <2>4, Zenon
  <2> DEFINE o == outs[t]
  <2>6. o \in Seq(Int) /\ Len(o) = r * c
    <3> HIDE DEF t, l, r, c, cs, rows, cols
    <3>1. t \in 1..Len(outs)
      BY <1>5, <2>3
    <3>2. Answer(outs[t], cs[t])
      BY <3>1 DEF Answered, cs
    <3>3. cs[t].dump = r * c
      BY <1>4, <2>3, <2>5
    <3>4. r * c \in Nat
      BY <2>1, <2>2, NatProducts
    <3> QED
      BY <3>1, <3>2, <3>3, <3>4 DEF Answer
  <2> DEFINE e == ri * c + rj + 1
  <2>7. e \in 1..(r * c)
    <3> HIDE DEF ri, rj, r, c
    <3> QED
      BY <2>1, <2>2, InRows
  <2>8. F(j, i) = o[e]
    BY Zenon
  <2> HIDE DEF o, e, r, c
  <2>9. o[e] \in Int
    <3>1. e \in 1..Len(o)
      BY <2>6, <2>7
    <3> QED
      BY <2>6, <3>1
  <2> HIDE DEF F
  <2> QED
    BY <2>8, <2>9
<1> HIDE DEF F, M, N
<1>8. \A k \in 1..(N * M) : Spliced(n)[k] \in Int
  <2> TAKE k \in 1..(N * M)
  <2>1. (k - 1) \div M \in 0..(N - 1) /\ (k - 1) % M \in 0..(M - 1)
    BY RowPlace DEF M, N
  <2> QED
    BY <1>6, <1>7, <2>1
<1> QED
  BY <1>8 DEF M, N

(* The results of the calls of a route make units that can be stored. *)
LEMMA ResultWrites ==
  ASSUME NEW n \in NodeType, NEW m, TryPyspike(n, m).to = "call",
         Answered(outs, TryPyspike(n, m).calls), \A i \in 1..Len(outs) : outs[i] \in Seq(Int)
  PROVE  Writes(RouteResult(n))
<1> DEFINE cs == TryPyspike(n, m).calls
<1>1. IsSeq(outs) /\ Len(outs) = Len(cs) /\ \A i \in 1..Len(outs) : Answer(outs[i], cs[i])
  BY DEF Answered
<1>2. CASE n.op = "MUL_MAT"
  <2> DEFINE a == n.src[1]  b == n.src[2]  x == Flat(a, m)  y == Flat(b, m)
             g == /\ n.dst.type \in Castable /\ Sources(n, 2, Castable) /\ Flat2D(a) /\ Flat2D(b)
                  /\ a.ne[1] = b.ne[1] /\ a.ne[1] % LaneWidth = 0
                  /\ Len(x) = Elems(a.ne) /\ Len(y) = Elems(b.ne)
             tiles == TileCalls(x, y, a.ne[2], a.ne[1], b.ne[2])
  <2>1. TryPyspike(n, m) = MulMatRoute(n, m)
    BY <1>2, RouteArms
  <2>2. g /\ cs = tiles
    <3>1. MulMatRoute(n, m).to = "call" /\ cs = MulMatRoute(n, m).calls
      BY <2>1
    <3>2. MulMatRoute(n, m) = If(g, tiles)
      BY Zenon DEF MulMatRoute
    <3> HIDE DEF g, tiles, cs
    <3> QED
      BY <3>1, <3>2, Guarded
  <2>3. Len(n.src) >= 2
    BY <2>2, Zenon DEF Sources
  <2>4. a.ne[2] \in Nat /\ b.ne[2] \in Nat
    <3>1. a \in TensorType /\ b \in TensorType
      BY <2>3, SourceOf
    <3>2. a.ne[2] \in Nat
      BY <3>1, TensorDims
    <3>3. b.ne[2] \in Nat
      BY <3>1, TensorDims
    <3> QED
      BY <3>2, <3>3
  <2>5. Answered(outs, tiles)
    BY <2>2, Zenon
  <2> DEFINE M == a.ne[2]  N == b.ne[2]  k == N * M  v == Spliced(n)
  <2>6. \A i \in 1..k : v[i] \in Int
    BY <2>4, <2>5, SplicedTyped
  <2>7. k \in Nat
    <3> HIDE DEF M, N
    <3> QED
      BY <2>4, NatProducts DEF M, N
  <2>8. v = [i \in 1..k |-> v[i]]
    BY DEF Spliced, Rows
  <2> HIDE DEF k, v
  <2>9. Writes(Encode(n.dst.type, v))
    BY <2>6, <2>7, <2>8, EncodedWrites
  <2> QED
    BY <1>2, <2>9, ResultArms DEF v
<1>3. CASE n.op = "SUM"
  <2> DEFINE data == Flat(n.src[1], m)  w == n.src[1].ne[1]  h == Len(data) \div w
             c == SimpleCallOf(n, w, h, data)
  <2>1. Simple(n) /\ n.op \notin Operators
    BY <1>3 DEF Simple, SimpleUnary, Operators
  <2>2. TryPyspike(n, m) = SimpleRoute(n, m)
    BY <2>1, RouteArms
  <2>3. cs = <<c>>
    <3> DEFINE g == n.dst.type = "F16" /\ Sources(n, 1, F16) /\ Positive(n.src[1])
                    /\ Len(data) % w = 0 /\ SimpleGuard(n, h)
    <3>1. SimpleRoute(n, m).to = "call" /\ cs = SimpleRoute(n, m).calls
      BY <2>2
    <3>2. SimpleRoute(n, m) = If(g, <<c>>)
      BY Zenon DEF SimpleRoute, OneCall
    <3> HIDE DEF g, c, cs
    <3> QED
      BY <3>1, <3>2, Guarded
  <2>4. c.dump = Bus
    BY <1>3, <2>1, SimpleDump
  <2> HIDE DEF c, cs
  <2>5. Len(cs) = 1 /\ cs[1] = c
    BY <2>3
  <2> DEFINE o == outs[1]
  <2>6. Bus \in Nat \ {0}
    BY FirmwareAssumption
  <2>7. o \in Seq(Int) /\ Len(o) = Bus
    <3>1. 1 \in 1..Len(outs)
      BY <1>1, <2>5
    <3>2. o \in Seq(Int) /\ Answer(o, c)
      BY <1>1, <2>5, <3>1
    <3> QED
      BY <2>4, <2>6, <3>2 DEF Answer
  <2> HIDE DEF o
  <2>8. SubSeq(o, 1, 1) \in Seq(Int)
    <3>1. o[1] \in Int
      BY <2>6, <2>7
    <3>2. \A i \in 1..1 : o[i] \in Int
      BY <3>1
    <3> QED
      BY <3>2, SubSeqProperties
  <2>9. Writes(SubSeq(o, 1, 1))
    BY <2>8, SeqWrites
  <2> QED
    BY <1>3, <2>9, ResultArms DEF o
<1>4. CASE n.op \in {"CONT", "DUP"}
  <2> DEFINE g == /\ n.dst.type \in Castable /\ Sources(n, 1, {n.dst.type})
                  /\ IsContiguous(n.src[1], 4) /\ IsContiguous(n.dst, 4)
                  /\ n.src[1].ne = n.dst.ne /\ Positive(n.dst)
             row == n.dst.ne[1] * Width(n.dst.type)
             rows == Elems(Tail(n.dst.ne))
             data == Raw(n.src[1], m)
             c == SimpleCall("unary_cont", "", <<row, rows>>, data, <<>>, row * rows)
  <2>1. TryPyspike(n, m) = ContRoute(n, m)
    BY <1>4, RouteArms
  <2>2. ContRoute(n, m) = IF g THEN CopyRows(data, row, rows) ELSE Miss
    BY Zenon DEF ContRoute
  <2>3. g
    BY <2>1, <2>2, Guarded
  <2> HIDE DEF g, row, rows, data
  <2>4. cs = <<c>>
    BY <2>1, <2>2, <2>3, CopyCalls, Zenon
  <2> HIDE DEF c, cs
  <2>5. Len(cs) = 1
    BY <2>4
  <2>6. outs[1] \in Seq(Int)
    BY <1>1, <2>5
  <2>7. Writes(outs[1])
    BY <2>6, SeqWrites
  <2> QED
    BY <1>4, <2>7, ResultArms
<1>5. CASE n.op \notin Other
  <2>1. Writes(Encode(n.dst.type, FlattenSeq(outs)))
    BY <1>1, JoinedWrites
  <2> QED
    BY <1>5, <2>1, ResultArms
<1> QED
  BY <1>2, <1>3, <1>4, <1>5 DEF Other

-----------------------------------------------------------------------------
(* The memory of the walk. *)

(* The inductive invariant. *)
TypeInv ==
  /\ WalkInv /\ RouteInv /\ Integral(ram)
  /\ pc = "call" => \A i \in 1..Len(outs) : outs[i] \in Seq(Int)

(* A node of a graph whose operands lie inside the buffers reads numbers. *)
LEMMA NodeLoads ==
  ASSUME OperandsInside, NEW n \in Nodes, NEW m, DOMAIN m = DOMAIN Image, Integral(m)
  PROVE  n \in NodeType /\ Loads(n, m)
<1>1. n \in NodeType
  BY RouteAssumption
<1>2. ASSUME NEW i \in DOMAIN n.src, n.src[i].type \in NumPyTypes
      PROVE  Readable(n.src[i], m)
  <2> DEFINE t == n.src[i]
  <2>1. /\ Extent(t) \subseteq DOMAIN m
        /\ \A k \in 0..(Elems(t.ne) - 1) :
             {t.data + k, t.data + Offset(t.nb, Coord(Shape(t), k))} \subseteq DOMAIN m
    BY <1>2 DEF OperandsInside
  <2> HIDE DEF t
  <2>2. \A a \in Extent(t) : m[a] \in Int
    BY <2>1 DEF Integral
  <2>3. \A k \in 0..(Elems(t.ne) - 1) :
          m[t.data + k] \in Int /\ m[t.data + Offset(t.nb, Coord(Shape(t), k))] \in Int
    BY <2>1, Zenon DEF Integral
  <2> QED
    BY <2>2, <2>3 DEF Readable, t
<1> QED
  BY <1>1, <1>2 DEF Loads

(* The initial states satisfy TypeInv. *)
LEMMA TypeInit == Init => TypeInv
BY WalkInit, RouteInit, RouteAssumption DEF Init, TypeInv, Integral

(* Every step preserves TypeInv: the host and the kernels read inside their operands, and
   what comes back of a call are integers. *)
LEMMA TypeStep == ASSUME OperandsInside PROVE TypeInv /\ [Next]_vars => TypeInv'
<1> SUFFICES ASSUME TypeInv, [Next]_vars
             PROVE  TypeInv'
  OBVIOUS
<1>1. WalkInv /\ RouteInv /\ Integral(ram) /\ WalkInv' /\ RouteInv' /\ DOMAIN ram = DOMAIN Image
  BY WalkStep, RouteStep DEF TypeInv, WalkInv
<1>2. CASE Take
  <2>1. ram' = ram /\ outs' = <<>>
    BY <1>2 DEF Take
  <2>2. \A i \in 1..Len(outs') : outs'[i] \in Seq(Int)
    BY <2>1
  <2> QED
    BY <1>1, <2>1, <2>2 DEF TypeInv, Integral
<1>3. CASE BuildKernel
  BY <1>1, <1>3 DEF BuildKernel, TypeInv, Integral
<1>4. CASE RunKernel
  <2> DEFINE cs == TryPyspike(node, ram).calls
             k == Len(outs)
             o == RunPyspike(elves[calls[1].key], calls[1])
  <2>1. /\ pc = "call" /\ calls # <<>> /\ pc' = pc /\ ram' = ram
        /\ outs' = Append(outs, o) /\ calls[1].key \in DOMAIN elves
    BY <1>4 DEF RunKernel, CallPending, Cached
  <2>2. /\ node \in Nodes /\ TryPyspike(node, ram).to = "call"
        /\ IsSeq(outs) /\ k \in 0..Len(cs) /\ calls = Rest(cs, k)
    BY <1>1, <2>1 DEF RouteInv
  <2>3. IsSeq(cs)
    BY <2>2, RouteCanonical DEF CanonicalCalls, IsSeq
  <2>4. k < Len(cs) /\ calls[1] = cs[k + 1]
    <3> HIDE DEF cs, k
    <3> QED
      BY <2>1, <2>2, <2>3, RestSeq
  <2>5. Computes(calls[1])
    <3>1. node \in NodeType /\ Loads(node, ram)
      BY <1>1, <2>2, NodeLoads
    <3>2. ComputesAll(cs)
      BY <2>2, <3>1, RouteComputes
    <3> HIDE DEF cs
    <3>3. k \in Nat /\ Len(cs) \in Nat
      BY <2>2, <2>3, SeqHasLen
    <3> HIDE DEF k
    <3>4. k + 1 \in 1..Len(cs)
      BY <2>4, <3>3
    <3> QED
      BY <2>4, <3>2, <3>4 DEF ComputesAll
  <2>6. elves[calls[1].key] = calls[1].text
    <3>1. Canonical(calls[1])
      BY <1>1, <2>1, RestOfCalls DEF WalkInv, CacheInv, CanonicalCalls
    <3>2. elves[calls[1].key] = TextOf(calls[1].key)
      BY <1>1, <2>1 DEF WalkInv, CacheInv
    <3> QED
      BY <3>1, <3>2 DEF Canonical
  <2>7. o \in Seq(Int)
    BY <2>5, <2>6, RunTyped
  <2>8. /\ IsSeq(outs') /\ Len(outs') = k + 1 /\ k \in Nat
        /\ \A i \in 1..k : outs'[i] = outs[i]
        /\ outs'[k + 1] = o
    <3> HIDE DEF o
    <3> QED
      BY <2>1, <2>2, OneMore
  <2>9. \A i \in 1..k : outs[i] \in Seq(Int)
    BY <2>1 DEF TypeInv
  <2> HIDE DEF k, o
  <2>10. \A i \in 1..Len(outs') : outs'[i] \in Seq(Int)
    <3> TAKE i \in 1..Len(outs')
    <3>1. i \in 1..k \/ i = k + 1
      BY <2>8
    <3> QED
      BY <2>7, <2>8, <2>9, <3>1
  <2> QED
    BY <1>1, <2>1, <2>10 DEF TypeInv, Integral
<1>5. CASE CallFails
  BY <1>1, <1>5 DEF CallFails, TypeInv, Integral
<1>6. CASE FinishRoute
  <2> DEFINE cs == TryPyspike(node, ram).calls
             k == Len(outs)
             u == RouteResult(node)
  <2>1. pc = "call" /\ calls = <<>> /\ pc' = "next" /\ ram' = Store(ram, node.dst.data, u)
    BY <1>6 DEF FinishRoute, Settle
  <2>2. /\ node \in Nodes /\ TryPyspike(node, ram).to = "call"
        /\ IsSeq(outs) /\ k \in 0..Len(cs) /\ calls = Rest(cs, k)
        /\ \A i \in 1..k : Answer(outs[i], cs[i])
    BY <1>1, <2>1 DEF RouteInv
  <2>3. node \in NodeType
    BY <2>2, RouteAssumption
  <2>4. k = Len(cs)
    <3>1. IsSeq(cs)
      BY <2>2, RouteCanonical DEF CanonicalCalls, IsSeq
    <3> HIDE DEF cs, k
    <3> QED
      BY <2>1, <2>2, <3>1, RestSeq
  <2>5. Answered(outs, cs)
    BY <2>2, <2>4 DEF Answered
  <2>6. \A i \in 1..Len(outs) : outs[i] \in Seq(Int)
    BY <2>1 DEF TypeInv
  <2>7. Writes(u)
    BY <2>2, <2>3, <2>5, <2>6, ResultWrites
  <2>8. node.dst.data \in Nat
    BY <2>3, SourceOf DEF TensorType
  <2> HIDE DEF u
  <2>9. Integral(ram')
    BY <1>1, <2>1, <2>7, <2>8, StoreTyped DEF Writes
  <2> QED
    BY <1>1, <2>1, <2>9 DEF TypeInv, Integral
<1>7. CASE NumPyFallback
  <2> DEFINE r == Fallback(node, ram)
  <2>1. pc = "host" /\ pc' = "next" /\ ram' = IF r.is = "ok" THEN r.x ELSE ram
    BY <1>7 DEF NumPyFallback, Settle
  <2>2. node \in Nodes
    BY <1>1, <2>1 DEF RouteInv
  <2>3. node \in NodeType /\ Loads(node, ram)
    BY <1>1, <2>2, NodeLoads
  <2>4. r.is = "ok" => Integral(r.x)
    BY <1>1, <2>3, FallbackTyped DEF Loads
  <2> HIDE DEF r
  <2>5. Integral(ram')
    BY <1>1, <2>1, <2>4
  <2> QED
    BY <1>1, <2>1, <2>5 DEF TypeInv, Integral
<1>8. CASE UNCHANGED vars
  BY <1>1, <1>8 DEF vars, TypeInv, Integral
<1> QED
  BY <1>2, <1>3, <1>4, <1>5, <1>6, <1>7, <1>8 DEF Next

(* TypeInv is stronger than TypeOK. *)
LEMMA TypeHolds == TypeInv => TypeOK
BY WalkTypes DEF TypeInv, TypeOK, Integral

(* The device memory holds numbers throughout the walk, for every graph whose operands lie
   inside the buffers, and every memory and geometry: no operator of the host, no kernel of the
   firmware, no section of a hex file, no chunk, tile or broadcast operand and no splice of the
   results reads outside what it was given. *)
THEOREM GraphTypesCorrect == ASSUME OperandsInside PROVE Spec => []TypeOK
<1>1. TypeInv /\ [Next]_vars => TypeInv'
  BY TypeStep
<1> QED
  BY <1>1, TypeInit, TypeHolds, PTL DEF Spec
================================================================================
