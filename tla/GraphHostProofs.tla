---------------------------- MODULE GraphHostProofs ----------------------------
(***************************************************************************)
(* What the operators of the host leave, for every node, memory and        *)
(* geometry: an array of the shape of its operator, as many elements as    *)
(* its destination, which spans them.  A fallback therefore writes only    *)
(* inside its destination.  The dumps of the firmware have the length that *)
(* the calls ask for, whatever the kernels store.                          *)
(***************************************************************************)
EXTENDS GraphRoute, FoldProofs, SequenceTheorems

-----------------------------------------------------------------------------
(* Sequences. *)

LEMMA IntoSeq ==
  ASSUME NEW S, NEW k \in Nat, NEW s \in [1..k -> S]
  PROVE  s \in Seq(S)
OBVIOUS

(* A sequence, whatever its elements are. *)
IsSeq(s) == s \in Seq({s[i] : i \in DOMAIN s})

(* A function on 1..k is one. *)
LEMMA VectorIsSeq ==
  ASSUME NEW k \in Nat, NEW s, s = [i \in 1..k |-> s[i]]
  PROVE  IsSeq(s) /\ Len(s) = k /\ DOMAIN s = 1..k
<1> DEFINE S == {s[i] : i \in DOMAIN s}
<1>1. DOMAIN s = 1..k
  OBVIOUS
<1>2. s \in [1..k -> S]
  BY <1>1
<1>3. s \in Seq(S)
  <2> HIDE DEF S
  <2> QED
    BY <1>2, IntoSeq
<1>4. Len(s) = k
  <2>1. Len(s) \in Nat /\ DOMAIN s = 1..Len(s)
    <3> HIDE DEF S
    <3> QED
      BY <1>3, LenProperties
  <2> QED
    BY <1>1, <2>1
<1> QED
  BY <1>1, <1>3, <1>4 DEF IsSeq

(* A sequence is the function that its elements make. *)
LEMMA SeqHasLen ==
  ASSUME NEW s, IsSeq(s)
  PROVE  Len(s) \in Nat /\ DOMAIN s = 1..Len(s) /\ s = [i \in 1..Len(s) |-> s[i]]
<1> DEFINE S == {s[i] : i \in DOMAIN s}
<1>1. s \in Seq(S)
  BY DEF IsSeq
<1> HIDE DEF S
<1> QED
  BY <1>1, LenProperties

(* Two sequences, one after the other. *)
LEMMA AppendedSeqs ==
  ASSUME NEW a, IsSeq(a), NEW b, IsSeq(b)
  PROVE  IsSeq(a \o b) /\ Len(a \o b) = Len(a) + Len(b) /\ DOMAIN (a \o b) = 1..(Len(a) + Len(b))
<1> DEFINE S == {a[i] : i \in DOMAIN a} \cup {b[i] : i \in DOMAIN b}
           z == a \o b
<1>1. /\ Len(a) \in Nat /\ DOMAIN a = 1..Len(a) /\ a = [i \in 1..Len(a) |-> a[i]]
      /\ Len(b) \in Nat /\ DOMAIN b = 1..Len(b) /\ b = [i \in 1..Len(b) |-> b[i]]
  BY SeqHasLen
<1>2. a \in [1..Len(a) -> S] /\ b \in [1..Len(b) -> S]
  BY <1>1
<1>3. a \in Seq(S) /\ b \in Seq(S)
  <2> HIDE DEF S
  <2> QED
    BY <1>1, <1>2, IntoSeq
<1>4. z \in Seq(S) /\ Len(z) = Len(a) + Len(b)
  <2> HIDE DEF S
  <2> QED
    BY <1>3
<1>5. Len(z) \in Nat /\ z \in [1..Len(z) -> S] /\ DOMAIN z = 1..Len(z)
  <2> HIDE DEF S, z
  <2> QED
    BY <1>4, LenProperties
<1>6. z = [i \in 1..Len(z) |-> z[i]]
  <2> HIDE DEF S, z
  <2> QED
    BY <1>5
<1>7. IsSeq(z)
  <2> HIDE DEF z
  <2> QED
    BY <1>5, <1>6, VectorIsSeq
<1> QED
  BY <1>4, <1>5, <1>7

(* A sequence and one more element. *)
LEMMA OneMore ==
  ASSUME NEW s, IsSeq(s), NEW x
  PROVE  /\ IsSeq(Append(s, x)) /\ Len(Append(s, x)) = Len(s) + 1 /\ Len(s) \in Nat
         /\ \A i \in 1..Len(s) : Append(s, x)[i] = s[i]
         /\ Append(s, x)[Len(s) + 1] = x
<1> DEFINE S == {s[i] : i \in DOMAIN s} \cup {x}
           t == Append(s, x)
           l == Len(s)
<1>1. l \in Nat /\ DOMAIN s = 1..l /\ s = [i \in 1..l |-> s[i]]
  BY SeqHasLen
<1>2. s \in Seq(S)
  <2>1. s \in [1..l -> S]
    BY <1>1
  <2> HIDE DEF S, l
  <2> QED
    BY <1>1, <2>1, IntoSeq
<1>3. /\ t \in Seq(S) /\ Len(t) = l + 1
      /\ \A i \in 1..l : t[i] = s[i]
      /\ t[l + 1] = x
  <2>1. x \in S
    OBVIOUS
  <2> HIDE DEF S
  <2> QED
    BY <1>2, <2>1, AppendProperties
<1>4. t = [i \in 1..l + 1 |-> t[i]]
  <2>1. DOMAIN t = 1..l + 1 /\ t = [i \in DOMAIN t |-> t[i]]
    <3> HIDE DEF S, t, l
    <3> QED
      BY <1>3, LenProperties
  <2> QED
    BY <2>1
<1>5. IsSeq(t)
  <2> HIDE DEF t, l
  <2> QED
    BY <1>1, <1>4, VectorIsSeq
<1> QED
  BY <1>1, <1>3, <1>5

(* Without elements, nothing is left of a function. *)
LEMMA EmptyVector ==
  ASSUME NEW k, k = 0, NEW f, f = [d \in 1..k |-> f[d]]
  PROVE  f = <<>>
OBVIOUS

(* A shape of which some parts are empty. *)
LEMMA Joined ==
  ASSUME NEW q, NEW v
  PROVE  <<q>> \o <<>> \o <<>> = <<q>> /\ <<q>> \o <<v>> \o <<>> = <<q, v>>
<1> DEFINE S == {q, v}
<1>1. <<q>> \in Seq(S) /\ <<v>> \in Seq(S) /\ <<q, v>> \in Seq(S)
  <2>1. q \in S /\ v \in S
    OBVIOUS
  <2> HIDE DEF S
  <2> QED
    BY <2>1
<1> DEFINE r == <<q>> \o <<v>>
<1>2. r = <<q, v>>
  <2>1. r \in Seq(S) /\ Len(r) = 2 /\ r[1] = q /\ r[2] = v
    BY <1>1
  <2> HIDE DEF r
  <2> QED
    BY <2>1
<1> QED
  BY <1>1, <1>2, ConcatEmptySeq

-----------------------------------------------------------------------------
(* The dumps of the firmware. *)

(* What a kernel leaves, to the length that the call asks for. *)
LEMMA SpansBus ==
  ASSUME NEW n \in Nat
  PROVE  Padding(n) \in Nat
BY FirmwareAssumption DEF Padding

(* Reversing each bus word keeps the length. *)
LEMMA ReverseLen ==
  ASSUME NEW k \in Nat, NEW s, DOMAIN s = 1..k
  PROVE  /\ ReverseBusWords(s) = [i \in 1..k |-> ReverseBusWords(s)[i]]
         /\ DOMAIN ReverseBusWords(s) = 1..k
BY DEF ReverseBusWords

(* Padding ends at a bus word. *)
LEMMA PaddedLen ==
  ASSUME NEW n \in Nat, NEW s, s = [i \in 1..n |-> s[i]]
  PROVE  DOMAIN BusPadded(s) = 1..(n + Padding(n))
<1>1. IsSeq(s) /\ Len(s) = n
  BY VectorIsSeq
<1> DEFINE z == Zeros(Padding(n))
<1>2. Padding(n) \in Nat
  BY SpansBus
<1>3. z = [i \in 1..Padding(n) |-> z[i]]
  BY DEF Zeros
<1>4. IsSeq(z) /\ Len(z) = Padding(n)
  <2> HIDE DEF z
  <2> QED
    BY <1>2, <1>3, VectorIsSeq
<1>5. DOMAIN (s \o z) = 1..(Len(s) + Len(z))
  <2> HIDE DEF z
  <2> QED
    BY <1>1, <1>4, AppendedSeqs
<1> QED
  BY <1>1, <1>4, <1>5 DEF BusPadded

(* Saving units as hex text and decoding as many gives as many. *)
LEMMA DumpLen ==
  ASSUME NEW stored, NEW n \in Nat
  PROVE  LET o == DecodeHex(SaveHex(stored, n), n) IN IsSeq(o) /\ Len(o) = n
<1> DEFINE raw == [i \in 1..n |-> IF i \in DOMAIN stored THEN stored[i] ELSE 0]
           k == n + Padding(n)
           file == ReverseBusWords(BusPadded(raw))
           back == ReverseBusWords(file)
<1>1. k \in Nat /\ n <= k
  BY SpansBus
<1>2. DOMAIN BusPadded(raw) = 1..k
  <2>1. raw = [i \in 1..n |-> raw[i]]
    OBVIOUS
  <2> HIDE DEF raw
  <2> QED
    BY <2>1, PaddedLen
<1>3. DOMAIN file = 1..k
  <2> HIDE DEF raw, k
  <2> QED
    BY <1>1, <1>2, ReverseLen
<1>4. back = [i \in 1..k |-> back[i]]
  <2> HIDE DEF file, k
  <2> QED
    BY <1>1, <1>3, ReverseLen
<1>5. IsSeq(back) /\ Len(back) = k
  <2> HIDE DEF back, k
  <2> QED
    BY <1>1, <1>4, VectorIsSeq
<1> DEFINE o == SubSeq(back, 1, n)
<1>6. o = [i \in 1..n |-> o[i]]
  <2> DEFINE S == {back[i] : i \in DOMAIN back}
  <2>1. back \in Seq(S)
    BY <1>5 DEF IsSeq
  <2> HIDE DEF back, k, S
  <2> QED
    BY <1>1, <1>5, <2>1
<1>7. IsSeq(o) /\ Len(o) = n
  <2> HIDE DEF o
  <2> QED
    BY <1>6, VectorIsSeq
<1> QED
  BY <1>7 DEF DecodeHex, SaveHex

(* A firmware call returns as many units as it asks for, whatever the kernel. *)
LEMMA RunLen ==
  ASSUME NEW text, NEW call, call.dump \in Nat
  PROVE  IsSeq(RunPyspike(text, call)) /\ Len(RunPyspike(text, call)) = call.dump
BY DumpLen DEF RunPyspike

(* The results of the calls, one after the other. *)
Flattens(f, s) == f = [i \in 1..Len(s) |-> IF i = 1 THEN s[i] ELSE f[i - 1] \o s[i]]

(* Results of any lengths can be put one after the other. *)
LEMMA FlattenExists ==
  ASSUME NEW s, IsSeq(s), Len(s) # 0, \A i \in DOMAIN s : IsSeq(s[i])
  PROVE  \E f : Flattens(f, s)
<1> DEFINE n == Len(s)
           U == UNION {{s[i][j] : j \in DOMAIN s[i]} : i \in 1..n}
           V == Seq(U)
           F == [p \in V \X (1..n) |-> p[1] \o s[p[2]]]
<1>1. n \in Nat \ {0} /\ DOMAIN s = 1..n
  BY SeqHasLen
<1>2. \A i \in 1..n : s[i] \in V
  <2> TAKE i \in 1..n
  <2>1. IsSeq(s[i]) /\ Len(s[i]) \in Nat /\ DOMAIN s[i] = 1..Len(s[i])
        /\ s[i] = [j \in 1..Len(s[i]) |-> s[i][j]]
    BY <1>1, SeqHasLen
  <2>2. \A j \in 1..Len(s[i]) : s[i][j] \in U
    BY <2>1
  <2>3. s[i] \in [1..Len(s[i]) -> U]
    <3> HIDE DEF U, n
    <3> QED
      BY <2>1, <2>2
  <2> HIDE DEF U
  <2> QED
    BY <2>1, <2>3, IntoSeq
<1>3. F \in [V \X (1..n) -> V]
  <2>1. \A v \in V, k \in 1..n : v \o s[k] \in V
    <3> HIDE DEF U, n
    <3> QED
      BY <1>2
  <2> HIDE DEF V, n
  <2> QED
    BY <2>1
<1>4. <<>> \in V
  <2> HIDE DEF U
  <2> QED
    OBVIOUS
<1>5. \A v \in V, k \in 1..n : F[<<v, k>>] = v \o s[k]
  <2> HIDE DEF V, n
  <2> QED
    OBVIOUS
<1>6. PICK acc \in [0..n -> V] : IsChain(acc, <<>>, F, n)
  <2>1. PICK it : IndexFold(it, <<>>, F, V, n)
    <3> HIDE DEF V, F, n
    <3> QED
      BY <1>1, <1>3, <1>4, FoldOfIndices
  <2>2. FoldsBackwards(it, <<>>, F, V, n)
    <3> HIDE DEF V, F, n
    <3> QED
      BY <2>1 DEF FoldsBackwards, IndexFold
  <2> HIDE DEF V, F, n
  <2>3. Unfolds(it[1..n], <<>>, F, V, n)
    BY <1>1, <1>3, <1>4, <2>2, FoldChain
  <2> QED
    BY <2>3 DEF Unfolds
<1>7. acc[0] = <<>> /\ \A k \in 1..n : acc[k - 1] \in V /\ acc[k] = acc[k - 1] \o s[k]
  <2>1. \A k \in 1..n : k - 1 \in 0..n
    BY <1>1
  <2> HIDE DEF V, F, n
  <2> QED
    BY <1>5, <1>6, <2>1 DEF IsChain
<1>8. acc[1] = s[1]
  <2>1. 1 \in 1..n /\ 1 - 1 = 0
    BY <1>1
  <2>2. acc[1] = <<>> \o s[1] /\ s[1] \in V
    <3> HIDE DEF V, F, n
    <3> QED
      BY <1>2, <1>7, <2>1
  <2> HIDE DEF U
  <2> QED
    BY <2>2
<1>9. \A i \in 1..n : acc[i] = IF i = 1 THEN s[i] ELSE acc[i - 1] \o s[i]
  <2> HIDE DEF V, n
  <2> QED
    BY <1>7, <1>8
<1> DEFINE f == [i \in 1..n |-> acc[i]]
<1>10. \A i \in 1..n : f[i] = IF i = 1 THEN s[i] ELSE f[i - 1] \o s[i]
  <2>1. \A i \in 1..n : i # 1 => i - 1 \in 1..n
    BY <1>1
  <2> HIDE DEF V, n
  <2> QED
    BY <1>9, <2>1
<1>11. f = [i \in 1..n |-> IF i = 1 THEN s[i] ELSE f[i - 1] \o s[i]]
  <2>1. f = [i \in 1..n |-> f[i]]
    OBVIOUS
  <2> HIDE DEF f, n
  <2> QED
    BY <1>10, <2>1
<1> QED
  BY <1>11, Zenon DEF Flattens

(* Where each result begins, and where the last one ends. *)
Offsets(off, s, n) ==
  off \in [0..n -> Nat] /\ off[0] = 0 /\ \A k \in 1..n : off[k] = off[k - 1] + Len(s[k])

(* What they make ends at the last offset. *)
LEMMA FlattenLen ==
  ASSUME NEW s, IsSeq(s), \A i \in DOMAIN s : IsSeq(s[i]),
         NEW off, Offsets(off, s, Len(s))
  PROVE  IsSeq(FlattenSeq(s)) /\ Len(FlattenSeq(s)) = off[Len(s)]
<1> DEFINE n == Len(s)
<1>1. n \in Nat /\ DOMAIN s = 1..n /\ s = [i \in 1..n |-> s[i]]
  BY SeqHasLen
<1>2. CASE n = 0
  BY <1>2 DEF FlattenSeq, Offsets
<1>3. CASE n # 0
  <2> DEFINE f == CHOOSE f : Flattens(f, s)
  <2>1. Flattens(f, s)
    BY <1>3, FlattenExists
  <2>2. FlattenSeq(s) = f[n]
    BY <1>3, Zenon DEF FlattenSeq, Flattens
  <2> HIDE DEF f
  <2> DEFINE T == {k \in Nat : k >= 1 /\ k <= n => IsSeq(f[k]) /\ Len(f[k]) = off[k]}
  <2>3. 0 \in T
    OBVIOUS
  <2>4. ASSUME NEW k \in 0..n - 1, k \in T PROVE k + 1 \in T
    <3>1. CASE k = 0
      <4>1. f[1] = s[1] /\ 1 \in 1..n /\ 1 - 1 = 0
        BY <1>1, <1>3, <2>1 DEF Flattens
      <4>2. off[1] = off[0] + Len(s[1]) /\ off[0] = 0 /\ Len(s[1]) \in Nat
        BY <1>1, <4>1, SeqHasLen DEF Offsets
      <4> QED
        BY <3>1, <4>1, <4>2, <1>1
    <3>2. CASE k # 0
      <4>1. k \in 1..n /\ k + 1 \in 1..n /\ (k + 1) - 1 = k /\ k + 1 # 1
        BY <1>1, <3>2
      <4>2. f[k + 1] = f[k] \o s[k + 1]
        <5> HIDE DEF n
        <5> QED
          BY <2>1, <4>1 DEF Flattens, n
      <4>3. IsSeq(f[k]) /\ Len(f[k]) = off[k]
        BY <2>4, <4>1
      <4>4. IsSeq(s[k + 1])
        BY <1>1, <4>1
      <4>5. off[k + 1] = off[k] + Len(s[k + 1])
        BY <4>1 DEF Offsets
      <4>6. IsSeq(f[k] \o s[k + 1]) /\ Len(f[k] \o s[k + 1]) = Len(f[k]) + Len(s[k + 1])
        BY <4>3, <4>4, AppendedSeqs
      <4>7. IsSeq(f[k + 1]) /\ Len(f[k + 1]) = off[k + 1]
        BY <4>2, <4>3, <4>5, <4>6
      <4> QED
        BY <4>1, <4>7
    <3> QED
      BY <3>1, <3>2
  <2>5. 0..n \subseteq T
    <3> HIDE DEF T, n
    <3> QED
      BY <1>1, <2>3, <2>4, UpToInduction
  <2>6. n \in T /\ n >= 1
    <3> HIDE DEF T
    <3> QED
      BY <1>1, <1>3, <2>5
  <2> QED
    BY <1>1, <2>2, <2>6
<1> QED
  BY <1>2, <1>3

-----------------------------------------------------------------------------
(* The elements and the span of a tensor. *)

(* The dimensions and parameters are numbers. *)
LEMMA TensorDims ==
  ASSUME NEW t \in TensorType
  PROVE  t.ne \in [1..4 -> Nat] /\ t.ne[1] \in Nat /\ t.ne[2] \in Nat /\ t.ne[3] \in Nat /\ t.ne[4] \in Nat
BY DEF TensorType

(* The elements of an array of at most four dimensions. *)
SizeChain(acc, ne, n) == acc[0] = 1 /\ \A k \in 1..n : acc[k] = acc[k - 1] * ne[k]

(* x is the product of the first n dimensions. *)
Sized(x, ne, n) == \E acc \in [0..n -> Int] : SizeChain(acc, ne, n) /\ x = acc[n]

(* Elems is that product, for any number of dimensions. *)
LEMMA ElemsChain ==
  ASSUME NEW n \in Nat, NEW ne, DOMAIN ne = 1..n, \A d \in 1..n : ne[d] \in Int
  PROVE  Sized(Elems(ne), ne, n)
<1> DEFINE V == Int
           F == [p \in V \X (1..n) |-> p[1] * ne[p[2]]]
           Table(it) == it = [s \in SUBSET (1..n) |-> IF s = {} THEN 1 ELSE it[s \ {Max(s)}] * ne[Max(s)]]
           iter == CHOOSE it : Table(it)
<1>1. F \in [V \X (1..n) -> V]
  OBVIOUS
<1>2. \A s \in SUBSET (1..n) : s # {} => Max(s) \in 1..n
  BY MaxInSet
<1>3. \A v \in V, k \in 1..n : F[<<v, k>>] = v * ne[k]
  OBVIOUS
<1>4. \E it : Table(it)
  <2>1. PICK it : IndexFold(it, 1, F, V, n)
    <3>1. 1 \in V
      OBVIOUS
    <3> HIDE DEF V, F
    <3> QED
      BY <1>1, <3>1, FoldOfIndices
  <2>2. \A s \in SUBSET (1..n) : s # {} => F[<<it[s \ {Max(s)}], Max(s)>>] = it[s \ {Max(s)}] * ne[Max(s)]
    <3> HIDE DEF V, F
    <3> QED
      BY <2>1, <1>2, <1>3 DEF IndexFold
  <2>3. Table(it)
    <3> HIDE DEF V, F
    <3> QED
      BY <2>1, <2>2 DEF IndexFold
  <2> HIDE DEF Table
  <2> QED
    BY <2>3
<1>5. Table(iter)
  <2> HIDE DEF Table
  <2> QED
    BY <1>4
<1>6. Elems(ne) = iter[1..n]
  BY DEF Elems, FoldLeft, MapThenFoldSet
<1> HIDE DEF iter
<1>7. FoldsBackwards(iter, 1, F, V, n)
  <2> HIDE DEF V, F
  <2> QED
    BY <1>2, <1>3, <1>5 DEF FoldsBackwards
<1>8. PICK acc \in [0..n -> V] : IsChain(acc, 1, F, n) /\ iter[1..n] = acc[n]
  <2>1. 1 \in V
    OBVIOUS
  <2> HIDE DEF V, F
  <2>2. Unfolds(iter[1..n], 1, F, V, n)
    BY <1>1, <1>7, <2>1, FoldChain
  <2> QED
    BY <2>2 DEF Unfolds
<1>9. SizeChain(acc, ne, n)
  <2>1. \A k \in 1..n : k - 1 \in 0..n /\ acc[k - 1] \in V
    BY <1>8
  <2> HIDE DEF V, F
  <2> QED
    BY <1>3, <1>8, <2>1 DEF IsChain, SizeChain
<1> QED
  BY <1>6, <1>8, <1>9 DEF Sized

(* Without a fold: the product of the four dimensions, those the shape does not have being 1. *)
Volume(ne) == Dim(ne, 1) * Dim(ne, 2) * Dim(ne, 3) * Dim(ne, 4)

(* For up to four dimensions, it is the product of all four. *)
LEMMA ElemsVolume ==
  ASSUME NEW n \in 0..4, NEW ne, DOMAIN ne = 1..n, \A d \in 1..n : ne[d] \in Int
  PROVE  /\ \A d \in 1..4 : Dim(ne, d) \in Int
         /\ Elems(ne) = Volume(ne) /\ Elems(ne) \in Int
<1>1. PICK acc \in [0..n -> Int] : SizeChain(acc, ne, n) /\ Elems(ne) = acc[n]
  BY ElemsChain DEF Sized
<1>2. \A d \in 1..4 : Dim(ne, d) \in Int
  BY DEF Dim
<1>3. \A k \in 1..n : k - 1 \in 0..n /\ acc[k - 1] \in Int /\ acc[k] = acc[k - 1] * Dim(ne, k)
  <2> TAKE k \in 1..n
  <2>1. k - 1 \in 0..n
    OBVIOUS
  <2>2. Dim(ne, k) = ne[k]
    BY DEF Dim
  <2> QED
    BY <1>1, <2>1, <2>2 DEF SizeChain
<1>4. acc[0] = 1
  BY <1>1 DEF SizeChain
<1>5. \A d \in 1..4 : d > n => Dim(ne, d) = 1
  BY DEF Dim
<1> DEFINE a == Dim(ne, 1)  b == Dim(ne, 2)  c == Dim(ne, 3)  e == Dim(ne, 4)
<1>6. a \in Int /\ b \in Int /\ c \in Int /\ e \in Int
  BY <1>2
<1>7. CASE n = 0
  BY <1>1, <1>4, <1>5, <1>7, <1>2 DEF Volume
<1>8. CASE n = 1
  <2>1. acc[1] = a /\ b = 1 /\ c = 1 /\ e = 1
    BY <1>3, <1>4, <1>5, <1>6, <1>8
  <2> QED
    BY <1>1, <1>8, <2>1, <1>2, <1>6 DEF Volume
<1>9. CASE n = 2
  <2>1. acc[1] = a /\ acc[2] = acc[1] * b /\ c = 1 /\ e = 1
    BY <1>3, <1>4, <1>5, <1>6, <1>9
  <2>2. Volume(ne) = a * b
    <3> HIDE DEF a, b
    <3> QED
      BY <2>1, <1>6 DEF Volume, a, b
  <2> QED
    BY <1>1, <1>9, <2>1, <2>2, <1>2
<1>10. CASE n = 3
  <2>1. acc[1] = a /\ acc[2] = acc[1] * b /\ acc[3] = acc[2] * c /\ e = 1
    BY <1>3, <1>4, <1>5, <1>6, <1>10
  <2>2. Volume(ne) = a * b * c
    BY <2>1, <1>6 DEF Volume
  <2> QED
    BY <1>1, <1>10, <2>1, <2>2, <1>2
<1>11. CASE n = 4
  <2>1. acc[1] = a /\ acc[2] = acc[1] * b /\ acc[3] = acc[2] * c /\ acc[4] = acc[3] * e
    BY <1>3, <1>4, <1>6, <1>11
  <2>2. Volume(ne) = a * b * c * e
    BY DEF Volume
  <2> QED
    BY <1>1, <1>11, <2>1, <2>2, <1>2
<1> QED
  BY <1>2, <1>7, <1>8, <1>9, <1>10, <1>11

(* Shapes of four dimensions. *)
LEMMA ElemsFour ==
  ASSUME NEW x, DOMAIN x = 1..4, \A d \in 1..4 : x[d] \in Int
  PROVE  Elems(x) = x[1] * x[2] * x[3] * x[4]
<1>1. Elems(x) = Volume(x)
  BY ElemsVolume
<1> QED
  BY <1>1 DEF Volume, Dim

(* The shape that NumPy sees, without the trailing unit dimensions. *)
LEMMA NDimFacts ==
  ASSUME NEW t \in TensorType
  PROVE  NDim(t) \in 1..4 /\ \A d \in 1..4 : d > NDim(t) => t.ne[d] = 1
<1> DEFINE S == {1} \cup {d \in 1..4 : t.ne[d] # 1}
<1>1. S \in SUBSET (1..4) /\ S # {} /\ 4 \in Nat
  OBVIOUS
<1>2. Max(S) \in S /\ \A x \in S : x <= Max(S)
  <2> HIDE DEF S
  <2> QED
    BY <1>1, MaxInSet
<1> QED
  BY <1>2 DEF NDim

(* The dimensions that NumPy keeps are those of the tensor, the others are 1. *)
LEMMA ShapeFacts ==
  ASSUME NEW t \in TensorType
  PROVE  /\ Shape(t) \in [1..NDim(t) -> Nat] /\ Len(Shape(t)) = NDim(t)
         /\ IsSeq(Shape(t))
         /\ \A d \in 1..NDim(t) : Shape(t)[d] = t.ne[d]
         /\ \A d \in 1..4 : Dim(Shape(t), d) = t.ne[d] /\ Dim(t.ne, d) = t.ne[d]
<1> DEFINE ne == t.ne  k == NDim(t)  sh == SubSeq(ne, 1, k)
<1>1. ne \in [1..4 -> Nat] /\ ne \in Seq(Nat) /\ Len(ne) = 4
  <2>1. ne \in [1..4 -> Nat] /\ 4 \in Nat
    BY DEF TensorType
  <2>2. ne \in Seq(Nat)
    <3> HIDE DEF ne
    <3> QED
      BY <2>1, IntoSeq
  <2> HIDE DEF ne
  <2> QED
    BY <2>1, <2>2, LenProperties
<1>2. k \in 1..4 /\ \A d \in 1..4 : d > k => ne[d] = 1
  BY NDimFacts
<1> HIDE DEF ne, k
<1>3. sh \in Seq(Nat) /\ Len(sh) = k /\ \A d \in 1..k : sh[d] = ne[d]
  BY <1>1, <1>2
<1> HIDE DEF sh
<1>4. sh \in [1..k -> Nat]
  BY <1>2, <1>3, LenProperties
<1>5. IsSeq(sh)
  <2>1. sh = [d \in 1..k |-> sh[d]] /\ k \in Nat
    BY <1>2, <1>4
  <2> QED
    BY <2>1, VectorIsSeq
<1>6. \A d \in 1..4 : Dim(sh, d) = ne[d] /\ Dim(ne, d) = ne[d]
  <2> TAKE d \in 1..4
  <2>1. DOMAIN sh = 1..k /\ DOMAIN ne = 1..4
    BY <1>1, <1>4
  <2>2. CASE d <= k
    BY <1>2, <1>3, <2>1, <2>2 DEF Dim
  <2>3. CASE d > k
    BY <1>2, <2>1, <2>3 DEF Dim
  <2> QED
    BY <1>2, <2>2, <2>3
<1> QED
  BY <1>3, <1>4, <1>5, <1>6 DEF sh, k, ne, Shape

(* A tensor and its view have the same elements. *)
LEMMA ElemsOfTensor ==
  ASSUME NEW t \in TensorType
  PROVE  /\ Elems(t.ne) = t.ne[1] * t.ne[2] * t.ne[3] * t.ne[4]
         /\ Elems(t.ne) \in Nat /\ Elems(Shape(t)) = Elems(t.ne)
<1>1. NDim(t) \in 0..4 /\ DOMAIN Shape(t) = 1..NDim(t) /\ \A d \in 1..NDim(t) : Shape(t)[d] \in Int
  BY NDimFacts, ShapeFacts
<1>2. 4 \in 0..4 /\ DOMAIN t.ne = 1..4 /\ \A d \in 1..4 : t.ne[d] \in Nat
  BY DEF TensorType
<1>3. Elems(t.ne) = Volume(t.ne) /\ Elems(Shape(t)) = Volume(Shape(t))
  <2>1. Elems(Shape(t)) = Volume(Shape(t))
    <3> DEFINE k == NDim(t)  sh == Shape(t)
    <3> HIDE DEF k, sh
    <3>1. k \in 0..4 /\ DOMAIN sh = 1..k /\ \A d \in 1..k : sh[d] \in Int
      BY <1>1 DEF k, sh
    <3> QED
      BY <3>1, ElemsVolume DEF sh
  <2>2. Elems(t.ne) = Volume(t.ne)
    <3> DEFINE ne == t.ne
    <3> HIDE DEF ne
    <3>1. DOMAIN ne = 1..4 /\ \A d \in 1..4 : ne[d] \in Int
      BY <1>2 DEF ne
    <3> QED
      BY <1>2, <3>1, ElemsVolume DEF ne
  <2> QED
    BY <2>1, <2>2
<1>4. Volume(Shape(t)) = Volume(t.ne) /\ Volume(t.ne) = t.ne[1] * t.ne[2] * t.ne[3] * t.ne[4]
  BY ShapeFacts DEF Volume
<1>5. t.ne[1] * t.ne[2] * t.ne[3] * t.ne[4] \in Nat
  <2> DEFINE a == t.ne[1] b == t.ne[2] c == t.ne[3] e == t.ne[4]
  <2>1. a \in Nat /\ b \in Nat /\ c \in Nat /\ e \in Nat
    BY <1>2
  <2>2. a * b \in Nat
    BY <2>1
  <2>3. a * b * c \in Nat
    <3> HIDE DEF a, b
    <3> QED
      BY <2>1, <2>2
  <2> HIDE DEF a, b, c, e
  <2>4. a * b * c * e \in Nat
    BY <2>1, <2>3
  <2> QED
    BY <2>4 DEF a, b, c, e
<1> QED
  BY <1>3, <1>4, <1>5

(* The last dimension that NumPy keeps is not 1. *)
LEMMA NDimBig ==
  ASSUME NEW t \in TensorType
  PROVE  NDim(t) = 1 \/ t.ne[NDim(t)] # 1
<1> DEFINE S == {1} \cup {d \in 1..4 : t.ne[d] # 1}
<1>1. S \in SUBSET (1..4) /\ S # {}
  OBVIOUS
<1>2. Max(S) \in S
  BY <1>1, MaxInSet
<1> QED
  BY <1>2 DEF NDim

(* What is known of a shape, in one place. *)
LEMMA Shapes ==
  ASSUME NEW t \in TensorType
  PROVE  /\ Shape(t) \in [1..NDim(t) -> Nat] /\ Len(Shape(t)) = NDim(t) /\ NDim(t) \in 1..4
         /\ \A d \in 1..NDim(t) : Shape(t)[d] = t.ne[d]
         /\ \A d \in 1..4 : d > NDim(t) => t.ne[d] = 1
         /\ t.ne \in [1..4 -> Nat] /\ t.ne \in Seq(Nat) /\ Len(t.ne) = 4
<1>1. t.ne \in [1..4 -> Nat] /\ 4 \in Nat
  BY TensorDims
<1>2. t.ne \in Seq(Nat) /\ Len(t.ne) = 4
  <2> DEFINE ne == t.ne
  <2>1. ne \in [1..4 -> Nat]
    BY <1>1
  <2> HIDE DEF ne
  <2>2. ne \in Seq(Nat)
    BY <1>1, <2>1, IntoSeq
  <2>3. Len(ne) = 4
    BY <2>1, <2>2, LenProperties
  <2> QED
    BY <2>2, <2>3 DEF ne
<1> QED
  BY <1>1, <1>2, ShapeFacts, NDimFacts, Zenon

LEMMA Params == ASSUME NEW n \in NodeType PROVE \A i \in 1..7 : n.p[i] \in Int
BY DEF NodeType

LEMMA SourceCount == ASSUME NEW n \in NodeType PROVE Len(n.src) \in Nat
BY LenProperties DEF NodeType

(* The halfwords of a tensor, against those of its elements. *)
LEMMA WidthNat == \A type : Width(type) \in {1, 2}
BY DEF Width

(* The span is the largest reach of a dimension, or nothing. *)
LEMMA SpanFacts ==
  ASSUME NEW t \in TensorType
  PROVE  /\ Span(t) \in Nat
         /\ \A d \in 1..4 : t.nb[d] * t.ne[d] <= Span(t)
         /\ \E d \in 1..4 : Span(t) = 0 \/ Span(t) = t.nb[d] * t.ne[d]
<1> DEFINE S == {0} \cup {t.nb[d] * t.ne[d] : d \in 1..4}
<1>1. \A d \in 1..4 : t.nb[d] \in Nat /\ t.ne[d] \in Nat
  BY DEF TensorType
<1>2. \A d \in 1..4 : t.nb[d] * t.ne[d] \in Nat
  BY <1>1
<1>3. \E x \in S : \A y \in S : x >= y
  <2> DEFINE a == t.nb[1] * t.ne[1]  b == t.nb[2] * t.ne[2]
             c == t.nb[3] * t.ne[3]  e == t.nb[4] * t.ne[4]
  <2>1. S = {0, a, b, c, e}
    OBVIOUS
  <2>2. a \in Nat /\ b \in Nat /\ c \in Nat /\ e \in Nat
    BY <1>2
  <2> HIDE DEF S, a, b, c, e
  <2> QED
    BY <2>1, <2>2
<1>4. Max(S) \in S /\ \A y \in S : Max(S) >= y
  <2> HIDE DEF S
  <2> QED
    BY <1>3 DEF Max
<1>5. S \subseteq Nat
  BY <1>2
<1>6. Max(S) \in Nat /\ \A d \in 1..4 : t.nb[d] * t.ne[d] <= Max(S)
  BY <1>2, <1>4, <1>5
<1>7. \E d \in 1..4 : Max(S) = 0 \/ Max(S) = t.nb[d] * t.ne[d]
  BY <1>4
<1> QED
  BY <1>6, <1>7 DEF Span

(* The stride of each dimension is the size of the ones before it. *)
Prefix(t, d) ==
  IF d = 1 THEN t.ne[1] ELSE IF d = 2 THEN t.ne[1] * t.ne[2]
  ELSE IF d = 3 THEN t.ne[1] * t.ne[2] * t.ne[3] ELSE t.ne[1] * t.ne[2] * t.ne[3] * t.ne[4]

(* In a contiguous tensor a dimension reaches as far as all its elements so far. *)
LEMMA ContiguousReach ==
  ASSUME NEW t \in TensorType, NEW k \in 1..4, IsContiguous(t, k)
  PROVE  \A d \in 1..k : t.nb[d] * t.ne[d] = Width(t.type) * Prefix(t, d)
<1> DEFINE a == t.ne[1]  b == t.ne[2]  c == t.ne[3]  e == t.ne[4]  w == Width(t.type)
<1>1. a \in Nat /\ b \in Nat /\ c \in Nat /\ e \in Nat /\ w \in Nat /\ \A d \in 1..4 : t.nb[d] \in Nat
  BY WidthNat DEF TensorType
<1>2. t.nb[1] = w /\ \A d \in 2..k : t.nb[d] = t.nb[d - 1] * t.ne[d - 1]
  BY DEF IsContiguous
<1>3. t.nb[1] * a = w * Prefix(t, 1)
  BY <1>2 DEF Prefix
<1>4. k >= 2 => t.nb[2] = w * a /\ t.nb[2] * b = w * Prefix(t, 2)
  <2> SUFFICES ASSUME k >= 2 PROVE t.nb[2] = w * a /\ t.nb[2] * b = w * Prefix(t, 2)
    OBVIOUS
  <2>1. t.nb[2] = w * a
    BY <1>2
  <2>2. Prefix(t, 2) = a * b
    BY DEF Prefix
  <2> HIDE DEF a, b, w
  <2> QED
    BY <1>1, <2>1, <2>2
<1>5. k >= 3 => t.nb[3] = w * a * b /\ t.nb[3] * c = w * Prefix(t, 3)
  <2> SUFFICES ASSUME k >= 3 PROVE t.nb[3] = w * a * b /\ t.nb[3] * c = w * Prefix(t, 3)
    OBVIOUS
  <2>1. t.nb[3] = t.nb[2] * b
    BY <1>2
  <2>2. Prefix(t, 3) = a * b * c
    BY DEF Prefix
  <2> HIDE DEF a, b, c, w
  <2> QED
    BY <1>1, <1>4, <2>1, <2>2
<1>6. k >= 4 => t.nb[4] * e = w * Prefix(t, 4)
  <2> SUFFICES ASSUME k >= 4 PROVE t.nb[4] * e = w * Prefix(t, 4)
    OBVIOUS
  <2>1. t.nb[4] = t.nb[3] * c
    BY <1>2
  <2>2. Prefix(t, 4) = a * b * c * e
    BY DEF Prefix
  <2> HIDE DEF a, b, c, e, w
  <2> QED
    BY <1>1, <1>5, <2>1, <2>2
<1> QED
  BY <1>3, <1>4, <1>5, <1>6

(* A contiguous tensor, in the dimensions that NumPy sees, spans all its elements. *)
LEMMA ContiguousSpans ==
  ASSUME NEW t \in TensorType, IsContiguous(t, NDim(t))
  PROVE  Width(t.type) * Elems(t.ne) <= Span(t)
<1> DEFINE k == NDim(t)
<1>1. k \in 1..4 /\ \A d \in 1..4 : d > k => t.ne[d] = 1
  BY NDimFacts
<1>2. t.nb[k] * t.ne[k] = Width(t.type) * Prefix(t, k)
  BY <1>1, ContiguousReach
<1>3. Prefix(t, k) = t.ne[1] * t.ne[2] * t.ne[3] * t.ne[4]
  <2>1. \A d \in 1..4 : t.ne[d] \in Nat
    BY DEF TensorType
  <2> HIDE DEF k
  <2> QED
    BY <1>1, <2>1 DEF Prefix
<1>4. t.nb[k] * t.ne[k] <= Span(t)
  BY <1>1, SpanFacts
<1> QED
  BY <1>2, <1>3, <1>4, ElemsOfTensor

(* A dense one spans no more. *)
LEMMA DenseSpan ==
  ASSUME NEW t \in TensorType, Dense(t)
  PROVE  /\ Span(t) = Width(t.type) * Elems(t.ne)
         /\ Span(t) \div Width(t.type) = Elems(t.ne)
         /\ Elems(t.ne) > 0
<1> DEFINE a == t.ne[1]  b == t.ne[2]  c == t.ne[3]  e == t.ne[4]  w == Width(t.type)
<1>1. a \in Nat \ {0} /\ b \in Nat \ {0} /\ c \in Nat \ {0} /\ e \in Nat \ {0} /\ w \in {1, 2}
  BY WidthNat DEF Dense, Positive, TensorType
<1>2. \A d \in 1..4 : t.nb[d] * t.ne[d] = w * Prefix(t, d)
  BY ContiguousReach DEF Dense
<1>3. Prefix(t, 1) <= Prefix(t, 2)
  <2>1. Prefix(t, 1) = a /\ Prefix(t, 2) = a * b
    BY DEF Prefix
  <2> HIDE DEF a, b
  <2> QED
    BY <1>1, <2>1
<1>4. Prefix(t, 2) <= Prefix(t, 3)
  <2>1. Prefix(t, 2) = a * b /\ Prefix(t, 3) = a * b * c
    BY DEF Prefix
  <2>2. a * b \in Nat
    BY <1>1
  <2> DEFINE x == a * b
  <2> HIDE DEF a, b, c, x
  <2>3. x \in Nat /\ Prefix(t, 2) = x /\ Prefix(t, 3) = x * c
    BY <2>1, <2>2 DEF x
  <2> QED
    BY <1>1, <2>3
<1>5. Prefix(t, 3) <= Prefix(t, 4)
  <2>1. Prefix(t, 3) = a * b * c /\ Prefix(t, 4) = a * b * c * e
    BY DEF Prefix
  <2>2. a * b \in Nat
    BY <1>1
  <2>3. a * b * c \in Nat
    <3> DEFINE x == a * b
    <3> HIDE DEF x, c
    <3>1. x * c \in Nat
      BY <1>1, <2>2 DEF x
    <3> QED
      BY <3>1 DEF x
  <2> DEFINE y == a * b * c
  <2>4. y \in Nat /\ Prefix(t, 3) = y /\ Prefix(t, 4) = y * e
    BY <2>1, <2>3
  <2> HIDE DEF y, e
  <2> QED
    BY <1>1, <2>4
<1>6. Elems(t.ne) = Prefix(t, 4) /\ Elems(t.ne) \in Nat
  BY ElemsOfTensor DEF Prefix
<1>7. \A d \in 1..4 : Prefix(t, d) \in Nat \ {0} /\ Prefix(t, d) <= Elems(t.ne)
  <2>1. Prefix(t, 1) \in Nat \ {0}
    BY <1>1 DEF Prefix
  <2>2. Prefix(t, 2) \in Nat /\ Prefix(t, 3) \in Nat
    <3>1. a * b \in Nat
      BY <1>1
    <3>2. a * b * c \in Nat
      <4> DEFINE x == a * b
      <4> HIDE DEF x, c
      <4>1. x * c \in Nat
        BY <1>1, <3>1 DEF x
      <4> QED
        BY <4>1 DEF x
    <3> QED
      BY <3>1, <3>2 DEF Prefix
  <2> QED
    BY <1>3, <1>4, <1>5, <1>6, <2>1, <2>2
<1>8. Span(t) = w * Elems(t.ne)
  <2>1. Span(t) \in Nat /\ w * Prefix(t, 4) <= Span(t)
    BY <1>2, SpanFacts
  <2>2. PICK d \in 1..4 : Span(t) = 0 \/ Span(t) = w * Prefix(t, d)
    BY <1>2, SpanFacts
  <2> HIDE DEF w
  <2> DEFINE x == Prefix(t, d)  y == Elems(t.ne)
  <2>3. x \in Nat \ {0} /\ x <= y /\ y \in Nat /\ w * y <= Span(t) /\ (Span(t) = 0 \/ Span(t) = w * x)
    BY <1>6, <1>7, <2>1, <2>2
  <2> HIDE DEF x, y
  <2>4. Span(t) = w * y
    BY <1>1, <2>1, <2>3
  <2> QED
    BY <2>4 DEF y
<1>9. Elems(t.ne) > 0
  BY <1>6, <1>7
<1> DEFINE y == Elems(t.ne)
<1>10. (w * y) \div w = y
  <2>1. y \in Nat
    BY <1>6
  <2> HIDE DEF w, y
  <2> QED
    BY <1>1, <2>1
<1> QED
  BY <1>8, <1>9, <1>10

-----------------------------------------------------------------------------
(* Writing. *)

-----------------------------------------------------------------------------
(* Reading and writing. *)

(* What a route reads of a tensor has the length its strides give, whatever the memory. *)
LEMMA FlatRead ==
  ASSUME NEW t \in TensorType, NEW m
  PROVE  /\ Span(t) \div Width(t.type) \in Nat /\ IsSeq(Flat(t, m))
         /\ Len(Flat(t, m)) = Span(t) \div Width(t.type)
<1>1. Span(t) \in Nat /\ Width(t.type) \in {1, 2}
  BY SpanFacts, WidthNat
<1>2. Span(t) \div Width(t.type) \in Nat
  BY <1>1
<1> DEFINE v == Flat(t, m)
           k == Span(t) \div Width(t.type)
<1>3. v = [i \in 1..k |-> v[i]]
  BY DEF Flat
<1> HIDE DEF v, k
<1>4. IsSeq(v) /\ Len(v) = k
  <2>1. k \in Nat
    BY <1>2 DEF k
  <2> QED
    BY <1>3, <2>1, VectorIsSeq
<1> QED
  BY <1>2, <1>4 DEF v, k

LEMMA EncodeLen ==
  ASSUME NEW type, NEW k \in Nat, NEW v, v = [i \in 1..k |-> v[i]]
  PROVE  /\ IsSeq(Encode(type, v)) /\ Len(Encode(type, v)) = Width(type) * k
<1>1. IsSeq(v) /\ Len(v) = k
  BY VectorIsSeq
<1>2. CASE Width(type) = 1
  BY <1>1, <1>2 DEF Encode
<1>3. CASE Width(type) # 1
  <2> DEFINE u == Encode(type, v)
  <2>1. Width(type) = 2 /\ 2 * k \in Nat
    BY <1>3, WidthNat
  <2>2. u = [i \in 1..(2 * k) |-> u[i]]
    BY <1>1, <1>3 DEF Encode
  <2>3. IsSeq(u) /\ Len(u) = 2 * k
    <3> HIDE DEF u
    <3> QED
      BY <2>1, <2>2, VectorIsSeq
  <2> QED
    BY <2>1, <2>3
<1> QED
  BY <1>2, <1>3

(* Two memories that differ only inside a tensor. *)
Inside(m, m2, t) == DOMAIN m2 = DOMAIN m /\ \A a \in DOMAIN m : m2[a] # m[a] => a \in Extent(t)

(* Units that are no more than a tensor spans stay inside it. *)
LEMMA StoreInside ==
  ASSUME NEW t \in TensorType, NEW m, NEW units, Len(units) \in Nat, Len(units) <= Span(t)
  PROVE  Inside(m, Store(m, t.data, units), t)
<1>1. t.data \in Nat /\ Span(t) \in Nat
  BY SpanFacts DEF TensorType
<1>2. \A i : i \in t.data .. t.data + Len(units) - 1 => i \in t.data .. t.data + Span(t) - 1
  BY <1>1
<1> QED
  BY <1>2 DEF Inside, Store, Extent

(* An array of the host: as many elements as its shape says. *)
Shaped(a) == a = [ne |-> a.ne, v |-> [i \in 1..Elems(a.ne) |-> a.v[i]]]

(* What NumPy writes to a tensor stays inside it. *)
LEMMA WriteInside ==
  ASSUME NEW t \in TensorType, NEW m, NEW a, Shaped(a), WriteTensor(t, m, a).is = "ok"
  PROVE  /\ Inside(m, WriteTensor(t, m, a).x, t)
         /\ IsContiguous(t, NDim(t)) /\ Elems(a.ne) = Elems(t.ne)
<1>1. /\ IsContiguous(t, NDim(t)) /\ Elems(a.ne) = Elems(t.ne)
      /\ WriteTensor(t, m, a).x = Store(m, t.data, Encode(t.type, a.v))
  BY DEF WriteTensor, NotImplemented, Unless, Raises, Ok
<1> DEFINE k == Elems(t.ne)  u == Encode(t.type, a.v)
<1>2. k \in Nat
  BY ElemsOfTensor
<1>3. a.v = [i \in 1..k |-> a.v[i]]
  BY <1>1 DEF Shaped
<1>4. Len(u) = Width(t.type) * k
  <2> HIDE DEF k
  <2> QED
    BY <1>2, <1>3, EncodeLen
<1>5. Len(u) \in Nat /\ Len(u) <= Span(t)
  <2>1. Width(t.type) \in {1, 2}
    BY WidthNat
  <2>2. Width(t.type) * k \in Nat
    <3> HIDE DEF k
    <3> QED
      BY <1>2, <2>1
  <2> QED
    BY <1>1, <1>4, <2>2, ContiguousSpans
<1> HIDE DEF u
<1>6. Inside(m, Store(m, t.data, u), t)
  BY <1>5, StoreInside
<1> QED
  BY <1>1, <1>6 DEF u

-----------------------------------------------------------------------------
(* Every operator of the host leaves an array of its shape. *)

(* How a fallback may end, and with what: an array of the shape that it says, or none. *)
Outcomes == {"ok", "nop", "unsupported", "errored"}

Sound(r) == r.is \in Outcomes /\ (r.is = "ok" => Shaped(r.x))

(* What is refused has no array. *)
LEMMA Refused == Sound(Raises) /\ Sound(NotImplemented) /\ Sound(Nothing)
BY DEF Sound, Outcomes, Raises, NotImplemented, Nothing

LEMMA SoundOk == ASSUME NEW x, Shaped(x) PROVE Sound(Ok(x))
BY DEF Sound, Outcomes, Ok

LEMMA SoundUnless == ASSUME NEW c, NEW r, Sound(r) PROVE Sound(Unless(c, r))
BY Refused DEF Unless

(* Another value for each element. *)
LEMMA EachShaped ==
  ASSUME NEW a, Shaped(a), NEW w, w = [n \in DOMAIN a.v |-> w[n]]
  PROVE  Shaped([a EXCEPT !.v = w]) /\ [a EXCEPT !.v = w].ne = a.ne
<1> DEFINE A == a.ne
           V == [i \in 1..Elems(a.ne) |-> a.v[i]]
<1>1. a = [ne |-> A, v |-> V] /\ DOMAIN a.v = 1..Elems(a.ne)
  BY DEF Shaped
<1>2. [a EXCEPT !.v = w] = [ne |-> A, v |-> w]
  <2> HIDE DEF A, V
  <2>1. [[ne |-> A, v |-> V] EXCEPT !.v = w] = [ne |-> A, v |-> w]
    OBVIOUS
  <2> QED
    BY <1>1, <2>1, Zenon
<1> QED
  BY <1>1, <1>2 DEF Shaped

LEMMA EachSound ==
  ASSUME NEW a, Shaped(a), NEW w, w = [n \in DOMAIN a.v |-> w[n]]
  PROVE  Sound(Ok([a EXCEPT !.v = w]))
BY EachShaped, SoundOk

(* An array built by its shape. *)
LEMMA NewArray ==
  ASSUME NEW ne, NEW v, v = [i \in 1..Elems(ne) |-> v[i]]
  PROVE  Shaped([ne |-> ne, v |-> v]) /\ Sound(Ok([ne |-> ne, v |-> v]))
BY SoundOk DEF Shaped

(* The families of operators, one by one: elementwise. *)
LEMMA ElementSound ==
  ASSUME NEW n, NEW s, Shaped(s[1])
  PROVE  Sound(ElementResult(n, s))
<1> DEFINE a == s[1]  p == n.p
<1>1. Sound(Ok(Each(a, LAMBDA x : Fn(n.sub, x)))) /\ Sound(Ok(Each(a, LAMBDA x : Fn(n.op, x))))
  BY EachSound DEF Each
<1>2. Sound(Unless(a.ne[1] % 2 # 0 /\ a.ne[1] > 3, Ok(Glu(a))))
  BY NewArray, SoundUnless DEF Glu, Array
<1>3. /\ Sound(Ok(Each(a, LAMBDA x : IF x >= 0 THEN x ELSE x * p[1])))
      /\ Sound(Ok(Each(a, LAMBDA x : x * p[1] + p[2])))
      /\ Sound(Ok(Each(a, LAMBDA x : Clamp(x, p[1], p[2]))))
  BY EachSound DEF Each
<1>4. Sound(Unless(Len(s[2].v) # 1, Ok(Each(a, LAMBDA x : x + s[2].v[1]))))
  BY EachSound, SoundUnless DEF Each
<1>5. Sound(Unless(~Broadcastable(a.ne, s[2].ne),
                   Ok(Broadcast(a, s[2], LAMBDA x, y : Fn2(n.op, x, y)))))
  BY NewArray, SoundUnless DEF Broadcast, Array
<1> QED
  BY <1>1, <1>2, <1>3, <1>4, <1>5, Refused, Zenon DEF ElementResult

(* Over rows. *)
LEMMA RowSound ==
  ASSUME NEW n, NEW s, Shaped(s[1])
  PROVE  Sound(RowResult(n, s))
<1> DEFINE a == s[1]  p == n.p
<1>1. Sound(Ok(Array(<<1>>, LAMBDA c : Total(a.v)))) /\ Sound(Ok(Array(<<1>>, LAMBDA c : Equals(a, s[2]))))
  BY NewArray DEF Array
<1>2. Sound(Ok(EachRow(a, Total))) /\ Sound(Ok(EachRow(a, Mean)))
  BY NewArray DEF EachRow, Array
<1>3. \A c : Sound(Unless(c, Ok(EachRow(a, LAMBDA r : FirstIndex(r, Greatest(r))))))
  BY NewArray, SoundUnless DEF EachRow, Array
<1>4. /\ \A c : Sound(Unless(c, Ok(GroupNormed(a, p[1], p[2]))))
      /\ Sound(Ok(GroupNormed(a, 1, p[1])))
  BY NewArray, SoundUnless DEF GroupNormed, Array
<1>5. \A x : Sound(Ok(SoftMax(x)))
  BY NewArray DEF SoftMax, Array
<1>6. \A x, c : Sound(Unless(c, Ok(SoftMax(Broadcast(x, s[2], LAMBDA y, z : y + z)))))
  BY <1>5, SoundUnless
<1>7. LET x == Each(a, LAMBDA y : y * (IF p[1] = 0 THEN 1 ELSE p[1]))
      IN Sound(IF a.ne[1] = 0 THEN Raises
               ELSE IF Len(s) = 1 THEN Ok(SoftMax(x))
               ELSE Unless(s[2].ne[1] = 0 \/ ~Broadcastable(a.ne, s[2].ne),
                           Ok(SoftMax(Broadcast(x, s[2], LAMBDA y, z : y + z)))))
  BY <1>5, <1>6, Refused, Zenon
<1>8. Sound(Ok(Array(a.ne, LAMBDA c : At(a, c) + p[1] - Dot(Row(a, c), Row(a, c)))))
  BY NewArray DEF Array
<1>9. \A c : Sound(Unless(c, Ok(Array(<<1>>, LAMBDA x : Equals(a, s[2])))))
  BY <1>1, SoundUnless
<1> QED
  BY <1>1, <1>2, <1>3, <1>4, <1>7, <1>8, <1>9, Zenon DEF RowResult

(* Moving elements. *)
LEMMA MoveSound ==
  ASSUME NEW n, NEW s, Shaped(s[1])
  PROVE  Sound(MoveResult(n, s))
<1> DEFINE a == s[1]  p == n.p  nd == Len(s[1].ne)
<1>1. Sound(Ok(a))
  BY SoundOk
<1>2. \A c : Sound(Unless(c, Ok(Tiled(a, Shape(n.dst)))))
  BY NewArray, SoundUnless DEF Tiled, Array
<1>3. \A g, c : Sound(Unless(c, Ok(Concat(a, s[2], g))))
  BY NewArray, SoundUnless DEF Concat, Array
<1>4. \A c : Sound(Unless(c, Ok(Padded(a, SubSeq(p, 5 - nd, 4)))))
  BY NewArray, SoundUnless DEF Padded, Array
<1>5. Sound(Unless(\E i \in DOMAIN s[2].v : s[2].v[i] \notin (-a.ne[nd])..(a.ne[nd] - 1),
                   Ok(Array([a.ne EXCEPT ![nd] = Len(s[2].v)],
                            LAMBDA c : At(a, [c EXCEPT ![nd] = s[2].v[@ + 1] % a.ne[nd]])))))
  BY NewArray, SoundUnless DEF Array
<1>6. \A c, f : Sound(Unless(c, Ok(Masked(a, p[1], f))))
  BY NewArray, SoundUnless DEF Masked, Array
<1>7. \A f : Sound(Ok(Repeated(a, f)))
  BY NewArray DEF Repeated, Array
<1> QED
  BY <1>1, <1>2, <1>3, <1>4, <1>5, <1>6, <1>7, Refused, Zenon DEF MoveResult

LEMMA SoundPool == ASSUME NEW avg, NEW g, NEW b PROVE Sound(Ok(Pool2D(avg, g, b)))
BY NewArray DEF Pool2D, Array

LEMMA SoundPatches == ASSUME NEW g, NEW b PROVE Sound(Ok(Im2Col(g, b)))
BY NewArray DEF Im2Col, Array

LEMMA SoundConv == ASSUME NEW a, NEW b, NEW g PROVE Sound(Ok(Conv(a, b, g)))
BY NewArray, ZenonT(60) DEF Conv, Array

LEMMA SoundDepthwise == ASSUME NEW a, NEW b, NEW g PROVE Sound(Ok(ConvDepthwise(a, b, g)))
BY NewArray, ZenonT(60) DEF ConvDepthwise, Array

(* Over windows. *)
LEMMA WindowSound ==
  ASSUME NEW n, NEW s
  PROVE  Sound(WindowResult(n, s))
<1>1. \A c, avg, g, b : Sound(Unless(c, Ok(Pool2D(avg, g, b))))
  BY SoundPool, SoundUnless
<1>2. \A c, g, b : Sound(Unless(c, Ok(Im2Col(g, b))))
  BY SoundPatches, SoundUnless
<1>3. \A c, a, b, g : Sound(Unless(c, Ok(Conv(a, b, g)))) /\ Sound(Unless(c, Ok(ConvDepthwise(a, b, g))))
  BY SoundConv, SoundDepthwise, SoundUnless
<1> QED
  BY <1>1, <1>2, <1>3, Refused, Zenon DEF WindowResult

LEMMA SoundMatMul == ASSUME NEW a, NEW b PROVE Sound(Ok(MatMul(a, b)))
BY NewArray, ZenonT(60) DEF MatMul, Array

LEMMA SoundOutProd == ASSUME NEW a, NEW b PROVE Sound(Ok(OutProd(a, b)))
BY NewArray, ZenonT(60) DEF OutProd, Array

(* Products of matrices. *)
LEMMA MatSound ==
  ASSUME NEW n, NEW s
  PROVE  Sound(MatResult(n, s))
<1>1. \A c : Sound(Unless(c, Ok(MatMul(s[1], s[2])))) /\ Sound(Unless(c, Ok(OutProd(s[1], s[2]))))
  BY SoundMatMul, SoundOutProd, SoundUnless
<1> QED
  BY <1>1, Zenon DEF MatResult

Views(n, m) == [i \in DOMAIN n.src |-> View(n.src[i], m)]

(* A view of a tensor is one. *)
LEMMA ViewShaped == ASSUME NEW t, NEW m PROVE Shaped(View(t, m)) /\ View(t, m).ne = Shape(t)
BY NewArray DEF View, Array

(* Every operator of the backend. *)
LEMMA ComputeSound ==
  ASSUME NEW n \in NodeType, NEW m
  PROVE  Sound(Compute(n, Views(n, m)))
<1> DEFINE s == Views(n, m)
<1>1. n.src \in Seq(TensorType)
  BY DEF NodeType
<1>2. Len(s) = Len(n.src) /\ DOMAIN s = 1..Len(s) /\ Len(s) \in Nat
  <2>1. n.src \in Seq(TensorType) /\ Len(n.src) \in Nat /\ DOMAIN n.src = 1..Len(n.src)
    BY <1>1, LenProperties
  <2>2. s = [i \in 1..Len(n.src) |-> s[i]] 
    BY <2>1 DEF Views
  <2> HIDE DEF s
  <2> QED
    BY <2>1, <2>2, VectorIsSeq
<1>3. Len(s) >= 1 => Shaped(s[1])
  <2> SUFFICES ASSUME Len(s) >= 1 PROVE Shaped(s[1])
    OBVIOUS
  <2>1. 1 \in DOMAIN n.src
    BY <1>1, <1>2
  <2>2. s[1] = View(n.src[1], m)
    BY <2>1 DEF Views
  <2> QED
    BY <2>2, ViewShaped
<1> SUFFICES Sound(Compute(n, s))
  OBVIOUS
<1> HIDE DEF s
<1>4. CASE Len(s) < Arity(n)
  BY <1>4, Refused DEF Compute
<1>5. CASE ~(Len(s) < Arity(n))
  <2>1. Sound(Ok(Array([d \in 1..4 |-> Max({1, n.dst.ne[d]})], LAMBDA c : n.p[1])))
    BY NewArray DEF Array
  <2>2. n.op \in {"UNARY", "GLU", "LEAKY_RELU", "SCALE", "ADD1", "CLAMP"} \cup ElementOps \cup BinaryOps
          => Sound(ElementResult(n, s))
    <3>1. n.op \in {"UNARY", "GLU", "LEAKY_RELU", "SCALE", "ADD1", "CLAMP"} \cup ElementOps \cup BinaryOps
            => Arity(n) \in {1, 2}
      BY DEF Arity, OneSource, TwoSources, ElementOps, BinaryOps
    <3> QED
      BY <1>2, <1>3, <1>5, <3>1, ElementSound
  <2>3. n.op \in RowOps => Sound(RowResult(n, s))
    <3>1. n.op \in RowOps => Arity(n) \in {1, 2}
      BY DEF Arity, OneSource, TwoSources, ElementOps, BinaryOps, RowOps
    <3> QED
      BY <1>2, <1>3, <1>5, <3>1, RowSound
  <2>4. n.op \in MoveOps => Sound(MoveResult(n, s))
    <3>1. n.op \in MoveOps => Arity(n) \in {1, 2}
      BY DEF Arity, OneSource, TwoSources, ElementOps, BinaryOps, MoveOps
    <3> QED
      BY <1>2, <1>3, <1>5, <3>1, MoveSound
  <2> DEFINE filled == Ok(Array([d \in 1..4 |-> Max({1, n.dst.ne[d]})], LAMBDA c : n.p[1]))
             Elementwise == {"UNARY", "GLU", "LEAKY_RELU", "SCALE", "ADD1", "CLAMP"} \cup ElementOps \cup BinaryOps
  <2>5. Compute(n, s) =
          CASE n.op \in Elementwise -> ElementResult(n, s)
            [] n.op \in RowOps -> RowResult(n, s)
            [] n.op \in {"MUL_MAT", "OUT_PROD"} -> MatResult(n, s)
            [] n.op \in MoveOps -> MoveResult(n, s)
            [] n.op \in {"IM2COL", "CONV_2D_DW", "CONV_2D", "POOL_2D"} -> WindowResult(n, s)
            [] n.op = "FILL" -> filled
            [] n.op \in ViewOps -> Nothing
            [] OTHER -> NotImplemented
    BY <1>5, Zenon DEF Compute
  <2>8. Sound(filled)
    BY <2>1
  <2>6. n.op \in Elementwise => Sound(ElementResult(n, s))
    BY <2>2
  <2>7. Sound(WindowResult(n, s)) /\ Sound(MatResult(n, s))
    BY WindowSound, MatSound
  <2> HIDE DEF filled, Elementwise
  <2> QED
    BY <2>3, <2>4, <2>5, <2>6, <2>7, <2>8, Refused, Zenon
<1> QED
  BY <1>4, <1>5

(* What a fallback that writes has found. *)
LEMMA FallbackWrites ==
  ASSUME NEW n \in NodeType, NEW m, Fallback(n, m).is = "ok"
  PROVE  /\ \A i \in DOMAIN n.src : n.src[i].type \in NumPyTypes
         /\ Compute(n, Views(n, m)).is = "ok" /\ Shaped(Compute(n, Views(n, m)).x)
         /\ Fallback(n, m) = WriteTensor(n.dst, m, Compute(n, Views(n, m)).x)
<1>1. ResolveSrcs(n.src, m).is = "ok"
  BY Zenon DEF Fallback
<1>2. {i \in DOMAIN n.src : n.src[i].type \notin NumPyTypes} = {}
  BY <1>1 DEF ResolveSrcs, Raises, NotImplemented
<1>3. ResolveSrcs(n.src, m).x = Views(n, m)
  BY <1>2 DEF ResolveSrcs, Ok, Views
<1>4. Compute(n, Views(n, m)).is = "ok"
  <2> DEFINE r == Compute(n, Views(n, m))
  <2>1. Fallback(n, m) = IF r.is # "ok" THEN r ELSE WriteTensor(n.dst, m, r.x)
    BY <1>1, <1>3, Zenon DEF Fallback
  <2> QED
    BY <2>1, Zenon
<1>5. Fallback(n, m) = WriteTensor(n.dst, m, Compute(n, Views(n, m)).x)
  BY <1>1, <1>3, <1>4, Zenon DEF Fallback
<1> QED
  BY <1>2, <1>4, <1>5, ComputeSound DEF Sound

(* A fallback ends in one of the ways that the walk knows. *)
LEMMA FallbackEnds ==
  ASSUME NEW n \in NodeType, NEW m
  PROVE  Fallback(n, m).is \in Outcomes
<1> DEFINE q == ResolveSrcs(n.src, m)
           r == Compute(n, q.x)
           w == WriteTensor(n.dst, m, r.x)
           Bad == {i \in DOMAIN n.src : n.src[i].type \notin NumPyTypes}
<1>1. Fallback(n, m) = IF q.is # "ok" THEN q ELSE IF r.is # "ok" THEN r ELSE w
  BY Zenon DEF Fallback
<1>2. q.is \in Outcomes
  BY DEF ResolveSrcs, Ok, Raises, NotImplemented, Outcomes
<1>3. q.is = "ok" => q.x = Views(n, m)
  <2>1. Bad # {} => q.is # "ok"
    BY DEF ResolveSrcs, Raises, NotImplemented
  <2>2. Bad = {} => q.x = Views(n, m)
    BY DEF ResolveSrcs, Ok, Views
  <2> QED
    BY <2>1, <2>2, Zenon
<1>4. q.is = "ok" => r.is \in Outcomes
  BY <1>3, ComputeSound DEF Sound
<1>5. w.is \in Outcomes
  BY DEF WriteTensor, NotImplemented, Unless, Raises, Ok, Outcomes
<1> HIDE DEF q, r, w
<1> QED
  BY <1>1, <1>2, <1>4, <1>5, Zenon

(* A fallback that NumPy completes writes only inside its destination. *)
LEMMA FallbackInside ==
  ASSUME NEW n \in NodeType, NEW m, Fallback(n, m).is = "ok"
  PROVE  Inside(m, Fallback(n, m).x, n.dst)
<1>1. n.dst \in TensorType
  BY DEF NodeType
<1> QED
  BY <1>1, FallbackWrites, WriteInside

-----------------------------------------------------------------------------
(* The shape of each operator. *)

Elementwise == {"UNARY", "GLU", "LEAKY_RELU", "SCALE", "ADD1", "CLAMP"} \cup ElementOps \cup BinaryOps

Windowed == {"IM2COL", "CONV_2D_DW", "CONV_2D", "POOL_2D"}

(* The family of an operator that leaves a result. *)
LEMMA ComputeArms ==
  ASSUME NEW n, NEW s, Compute(n, s).is = "ok"
  PROVE  /\ n.op \in Elementwise => Compute(n, s) = ElementResult(n, s)
         /\ n.op \in RowOps => Compute(n, s) = RowResult(n, s)
         /\ n.op \in {"MUL_MAT", "OUT_PROD"} => Compute(n, s) = MatResult(n, s)
         /\ n.op \in MoveOps => Compute(n, s) = MoveResult(n, s)
         /\ n.op \in Windowed => Compute(n, s) = WindowResult(n, s)
<1> DEFINE filled == Ok(Array([d \in 1..4 |-> Max({1, n.dst.ne[d]})], LAMBDA c : n.p[1]))
<1>1. ~(Len(s) < Arity(n))
  BY DEF Compute, Raises
<1>2. Compute(n, s) =
        CASE n.op \in Elementwise -> ElementResult(n, s)
          [] n.op \in RowOps -> RowResult(n, s)
          [] n.op \in {"MUL_MAT", "OUT_PROD"} -> MatResult(n, s)
          [] n.op \in MoveOps -> MoveResult(n, s)
          [] n.op \in Windowed -> WindowResult(n, s)
          [] n.op = "FILL" -> filled
          [] n.op \in ViewOps -> Nothing
          [] OTHER -> NotImplemented
  BY <1>1, Zenon DEF Compute, Elementwise, Windowed
<1> HIDE DEF filled
<1>3. n.op \in Elementwise => Compute(n, s) = ElementResult(n, s)
  <2> SUFFICES ASSUME n.op \in Elementwise PROVE Compute(n, s) = ElementResult(n, s)
    OBVIOUS
  <2> QED
    BY <1>2 DEF Elementwise, Windowed, RowOps, MoveOps, ViewOps, ElementOps, BinaryOps
<1>4. n.op \in RowOps => Compute(n, s) = RowResult(n, s)
  <2> SUFFICES ASSUME n.op \in RowOps PROVE Compute(n, s) = RowResult(n, s)
    OBVIOUS
  <2> QED
    BY <1>2 DEF Elementwise, Windowed, RowOps, MoveOps, ViewOps, ElementOps, BinaryOps
<1>5. n.op \in {"MUL_MAT", "OUT_PROD"} => Compute(n, s) = MatResult(n, s)
  BY <1>2 DEF Elementwise, Windowed, RowOps, MoveOps, ViewOps, ElementOps, BinaryOps
<1>6. n.op \in MoveOps => Compute(n, s) = MoveResult(n, s)
  <2> SUFFICES ASSUME n.op \in MoveOps PROVE Compute(n, s) = MoveResult(n, s)
    OBVIOUS
  <2> QED
    BY <1>2 DEF Elementwise, Windowed, RowOps, MoveOps, ViewOps, ElementOps, BinaryOps
<1>7. n.op \in Windowed => Compute(n, s) = WindowResult(n, s)
  <2> SUFFICES ASSUME n.op \in Windowed PROVE Compute(n, s) = WindowResult(n, s)
    OBVIOUS
  <2> QED
    BY <1>2 DEF Elementwise, Windowed, RowOps, MoveOps, ViewOps, ElementOps, BinaryOps
<1> QED
  BY <1>3, <1>4, <1>5, <1>6, <1>7

LEMMA EachKeepsShape ==
  ASSUME NEW a, Shaped(a), NEW w, w = [n \in DOMAIN a.v |-> w[n]]
  PROVE  Ok([a EXCEPT !.v = w]).x.ne = a.ne
BY EachShaped DEF Ok

(* An elementwise result has the shape of the first operand. *)
LEMMA ElementShape ==
  ASSUME NEW n, NEW s, Shaped(s[1]), ElementResult(n, s).is = "ok",
         n.op \in {"UNARY", "SCALE", "CLAMP"} \cup ElementOps
  PROVE  ElementResult(n, s).x.ne = s[1].ne
<1> DEFINE a == s[1]  p == n.p
           u == Ok(Each(a, LAMBDA x : Fn(n.sub, x)))
           o == Ok(Each(a, LAMBDA x : Fn(n.op, x)))
           l == Ok(Each(a, LAMBDA x : IF x >= 0 THEN x ELSE x * p[1]))
           sc == Ok(Each(a, LAMBDA x : x * p[1] + p[2]))
           cl == Ok(Each(a, LAMBDA x : Clamp(x, p[1], p[2])))
           add1 == Unless(Len(s[2].v) # 1, Ok(Each(a, LAMBDA x : x + s[2].v[1])))
           bin == Unless(~Broadcastable(a.ne, s[2].ne), Ok(Broadcast(a, s[2], LAMBDA x, y : Fn2(n.op, x, y))))
           glu == Unless(a.ne[1] % 2 # 0 /\ a.ne[1] > 3, Ok(Glu(a)))
<1>1. u.x.ne = a.ne /\ o.x.ne = a.ne /\ sc.x.ne = a.ne /\ cl.x.ne = a.ne
  BY EachKeepsShape DEF Each
<1>2. ElementResult(n, s) =
        CASE n.op = "UNARY" -> IF n.sub \in UnaryTable THEN u ELSE NotImplemented
          [] n.op = "GLU" -> glu
          [] n.op \in ElementOps -> o
          [] n.op = "LEAKY_RELU" -> l
          [] n.op = "SCALE" -> sc
          [] n.op = "CLAMP" -> cl
          [] n.op = "ADD1" -> add1
          [] OTHER -> bin
  BY Zenon DEF ElementResult
<1> HIDE DEF a, u, o, l, sc, cl, add1, bin, glu
<1>3. CASE n.op = "UNARY"
  <2>1. ElementResult(n, s) = IF n.sub \in UnaryTable THEN u ELSE NotImplemented
    BY <1>2, <1>3 DEF ElementOps
  <2>2. ElementResult(n, s) = u
    BY <2>1 DEF NotImplemented
  <2> QED
    BY <1>1, <2>2 DEF a
<1>4. CASE n.op \in ElementOps
  <2>1. ElementResult(n, s) = o
    BY <1>2, <1>4 DEF ElementOps
  <2> QED
    BY <1>1, <2>1 DEF a
<1>5. CASE n.op \in {"SCALE", "CLAMP"}
  <2>1. ElementResult(n, s) = IF n.op = "SCALE" THEN sc ELSE cl
    <3>1. n.op = "SCALE" => ElementResult(n, s) = sc
      BY <1>2 DEF ElementOps
    <3>2. n.op = "CLAMP" => ElementResult(n, s) = cl
      BY <1>2 DEF ElementOps
    <3> QED
      BY <1>5, <3>1, <3>2
  <2> QED
    BY <1>1, <2>1 DEF a
<1> QED
  BY <1>3, <1>4, <1>5

(* Two operands, broadcast together. *)
LEMMA BinaryShape ==
  ASSUME NEW n, NEW s, ElementResult(n, s).is = "ok", n.op \in BinaryOps
  PROVE  ElementResult(n, s).x.ne = Broadened(s[1].ne, s[2].ne) /\ Broadcastable(s[1].ne, s[2].ne)
<1> DEFINE a == s[1]  p == n.p
           u == Ok(Each(a, LAMBDA x : Fn(n.sub, x)))
           o == Ok(Each(a, LAMBDA x : Fn(n.op, x)))
           l == Ok(Each(a, LAMBDA x : IF x >= 0 THEN x ELSE x * p[1]))
           sc == Ok(Each(a, LAMBDA x : x * p[1] + p[2]))
           cl == Ok(Each(a, LAMBDA x : Clamp(x, p[1], p[2])))
           add1 == Unless(Len(s[2].v) # 1, Ok(Each(a, LAMBDA x : x + s[2].v[1])))
           b == Broadcast(a, s[2], LAMBDA x, y : Fn2(n.op, x, y))
           bad == ~Broadcastable(a.ne, s[2].ne)
           glu == Unless(a.ne[1] % 2 # 0 /\ a.ne[1] > 3, Ok(Glu(a)))
<1>1. b.ne = Broadened(s[1].ne, s[2].ne)
  BY DEF Broadcast, Array
<1>2. ElementResult(n, s) =
        CASE n.op = "UNARY" -> IF n.sub \in UnaryTable THEN u ELSE NotImplemented
          [] n.op = "GLU" -> glu
          [] n.op \in ElementOps -> o
          [] n.op = "LEAKY_RELU" -> l
          [] n.op = "SCALE" -> sc
          [] n.op = "CLAMP" -> cl
          [] n.op = "ADD1" -> add1
          [] OTHER -> Unless(bad, Ok(b))
  BY Zenon DEF ElementResult
<1> HIDE DEF a, u, o, l, sc, cl, add1, b, bad, glu
<1>3. ElementResult(n, s) = Unless(bad, Ok(b))
  BY <1>2 DEF ElementOps, BinaryOps
<1>4. ElementResult(n, s).x = b /\ ~bad
  BY <1>3 DEF Unless, Raises, Ok
<1> QED
  BY <1>1, <1>4 DEF bad, a

(* A result over rows has one element for each, or is as large as its operand. *)
LEMMA RowShape ==
  ASSUME NEW n, NEW s, Shaped(s[1]), RowResult(n, s).is = "ok"
  PROVE  /\ n.op \in {"NORM", "GROUP_NORM"} => RowResult(n, s).x.ne = s[1].ne
         /\ n.op \in {"SUM_ROWS", "MEAN"} => RowResult(n, s).x.ne = [s[1].ne EXCEPT ![1] = 1]
         /\ n.op = "SUM" => RowResult(n, s).x.ne = <<1>>
<1> DEFINE a == s[1]  p == n.p
           sum == Array(<<1>>, LAMBDA c : Total(a.v))
           sums == EachRow(a, Total)
           means == EachRow(a, Mean)
           arg == Unless(a.ne[1] = 0, Ok(EachRow(a, LAMBDA r : FirstIndex(r, Greatest(r)))))
           bad == p[1] <= 0 \/ a.ne[1] % p[1] # 0
           group == GroupNormed(a, p[1], p[2])
           soft == LET x == Each(a, LAMBDA y : y * (IF p[1] = 0 THEN 1 ELSE p[1]))
                   IN IF a.ne[1] = 0 THEN Raises
                      ELSE IF Len(s) = 1 THEN Ok(SoftMax(x))
                      ELSE Unless(s[2].ne[1] = 0 \/ ~Broadcastable(a.ne, s[2].ne),
                                  Ok(SoftMax(Broadcast(x, s[2], LAMBDA y, z : y + z))))
           equal == Unless(~Broadcastable(a.ne, s[2].ne), Ok(Array(<<1>>, LAMBDA c : Equals(a, s[2]))))
           norm == GroupNormed(a, 1, p[1])
           other == Ok(Array(a.ne, LAMBDA c : At(a, c) + p[1] - Dot(Row(a, c), Row(a, c))))
<1>1. /\ sum.ne = <<1>> /\ group.ne = a.ne /\ norm.ne = a.ne
      /\ sums.ne = [a.ne EXCEPT ![1] = 1] /\ means.ne = [a.ne EXCEPT ![1] = 1]
  BY DEF EachRow, GroupNormed, Array
<1>2. RowResult(n, s) =
        CASE n.op = "SUM" -> Ok(sum)
          [] n.op = "SUM_ROWS" -> Ok(sums)
          [] n.op = "MEAN" -> Ok(means)
          [] n.op = "ARGMAX" -> arg
          [] n.op = "GROUP_NORM" -> Unless(bad, Ok(group))
          [] n.op = "SOFT_MAX" -> soft
          [] n.op = "NORM" -> Ok(norm)
          [] n.op = "COUNT_EQUAL" -> equal
          [] OTHER -> other
  BY Zenon DEF RowResult
<1> HIDE DEF a, sum, sums, means, arg, bad, group, soft, norm, equal, other
<1>3. n.op = "NORM" => RowResult(n, s).x = norm
  BY <1>2 DEF Ok
<1>4. n.op = "GROUP_NORM" => RowResult(n, s).x = group
  <2>1. n.op = "GROUP_NORM" => RowResult(n, s) = Unless(bad, Ok(group))
    BY <1>2
  <2> QED
    BY <2>1 DEF Ok, Unless, Raises
<1>5. n.op = "SUM_ROWS" => RowResult(n, s).x = sums
  BY <1>2 DEF Ok
<1>6. n.op = "MEAN" => RowResult(n, s).x = means
  BY <1>2 DEF Ok
<1>7. n.op = "SUM" => RowResult(n, s).x = sum
  BY <1>2 DEF Ok
<1> QED
  BY <1>1, <1>3, <1>4, <1>5, <1>6, <1>7 DEF a

(* The dimension that a concatenation grows. *)
Axis(n, s) == 1 + (n.p[1] % Len(s[1].ne))

LEMMA ConcatShape ==
  ASSUME NEW n, NEW s, MoveResult(n, s).is = "ok", n.op = "CONCAT"
  PROVE  /\ n.p[1] \in 0..(2 * Len(s[1].ne) - 1) /\ Len(s[2].ne) = Len(s[1].ne)
         /\ MoveResult(n, s).x.ne = [s[1].ne EXCEPT ![Axis(n, s)] = @ + s[2].ne[Axis(n, s)]]
<1> DEFINE nd == Len(s[1].ne)
           g == Axis(n, s)
<1> DEFINE bad == \/ n.p[1] \notin 0..(2 * nd - 1) \/ Len(s[2].ne) # nd
                  \/ \E d \in 1..nd \ {g} : s[1].ne[d] # s[2].ne[d]
           c == Concat(s[1], s[2], g)
<1>1. MoveResult(n, s) = Unless(bad, Ok(c))
  BY Zenon DEF MoveResult, Axis
<1>2. c.ne = [s[1].ne EXCEPT ![g] = @ + s[2].ne[g]]
  BY DEF Concat, Array
<1> HIDE DEF c
<1>3. ~bad
  <2> HIDE DEF bad
  <2> QED
    BY <1>1 DEF Unless, Raises
<1>4. MoveResult(n, s).x = c
  BY <1>1, <1>3 DEF Unless, Ok
<1> QED
  BY <1>2, <1>3, <1>4

(* The shape of a result over windows. *)
LEMMA WindowShape ==
  ASSUME NEW n, NEW s, WindowResult(n, s).is = "ok",
         NEW a, a = Rank4(s[1]), NEW b, b = Rank4(s[2]), NEW g, g = WindowOf(a, n.p)
  PROVE  /\ n.op = "IM2COL" =>
              WindowResult(n, s).x.ne =
                <<g.k[1] * g.k[2] * b.ne[3], OutDim(g, b, 1), OutDim(g, b, 2), b.ne[4]>>
         /\ n.op = "CONV_2D" =>
              WindowResult(n, s).x.ne = <<OutDim(g, b, 1), OutDim(g, b, 2), a.ne[4], b.ne[4]>>
<1> DEFINE unpacks == Len(s[1].ne) >= 2 /\ Len(s[2].ne) >= 2
           i == Im2Col(g, b)
           c == Conv(a, b, g)
           odd == ~unpacks \/ ~Slides(g, b)
           mixed == \/ ~unpacks \/ ~Slides(g, b)
                    \/ (a.ne[1] * a.ne[2] # 0 /\ ~Broadcastable(<<a.ne[3]>>, <<b.ne[3]>>))
<1>1. /\ i.ne = <<g.k[1] * g.k[2] * b.ne[3], OutDim(g, b, 1), OutDim(g, b, 2), b.ne[4]>>
      /\ c.ne = <<OutDim(g, b, 1), OutDim(g, b, 2), a.ne[4], b.ne[4]>>
  BY DEF Im2Col, Conv, Array
<1>2. CASE n.op = "IM2COL"
  <2>1. WindowResult(n, s) = IF n.p[7] = 0 THEN NotImplemented ELSE Unless(odd, Ok(i))
    BY <1>2, Zenon DEF WindowResult
  <2> HIDE DEF i, c, odd
  <2>2. WindowResult(n, s).x = i
    BY <2>1 DEF NotImplemented, Unless, Raises, Ok
  <2> QED
    BY <1>1, <1>2, <2>2
<1>3. CASE n.op = "CONV_2D"
  <2>1. WindowResult(n, s) = Unless(mixed, Ok(c))
    BY <1>3, Zenon DEF WindowResult
  <2> HIDE DEF i, c, mixed
  <2>2. WindowResult(n, s).x = c
    BY <2>1 DEF Unless, Raises, Ok
  <2> QED
    BY <1>1, <1>3, <2>2
<1> QED
  BY <1>2, <1>3

(* The shape of a product. *)
LEMMA MatShape ==
  ASSUME NEW n, NEW s, MatResult(n, s).is = "ok", n.op = "MUL_MAT"
  PROVE  /\ ~(Len(s[1].ne) < 2)
         /\ MatResult(n, s).x = MatMul(s[1], s[2])
         /\ MatMul(s[1], s[2]).ne =
              <<s[1].ne[2]>> \o (IF Len(s[2].ne) = 1 THEN <<>> ELSE <<s[2].ne[2]>>)
                \o Broadened(SubSeq(s[1].ne, 3, Len(s[1].ne)), SubSeq(s[2].ne, 3, Len(s[2].ne)))
<1> DEFINE x == MatMul(s[1], s[2])
           bad == \/ Len(s[1].ne) < 2 \/ s[1].ne[1] # s[2].ne[1]
                  \/ ~Broadcastable(SubSeq(s[1].ne, 3, Len(s[1].ne)), SubSeq(s[2].ne, 3, Len(s[2].ne)))
<1>1. x.ne = <<s[1].ne[2]>> \o (IF Len(s[2].ne) = 1 THEN <<>> ELSE <<s[2].ne[2]>>)
                \o Broadened(SubSeq(s[1].ne, 3, Len(s[1].ne)), SubSeq(s[2].ne, 3, Len(s[2].ne)))
  BY DEF MatMul, Array
<1>2. MatResult(n, s) = Unless(bad, Ok(x))
  BY Zenon DEF MatResult
<1>3. MatResult(n, s).x = x /\ ~bad
  <2> HIDE DEF x, bad
  <2> QED
    BY <1>2 DEF Unless, Raises, Ok
<1> QED
  BY <1>1, <1>3

(* A shape filled up to four dimensions. *)
LEMMA FilledUp ==
  ASSUME NEW k \in 1..4, NEW s \in Seq(Nat), Len(s) = k, NEW o \in Seq(Nat), Len(o) = 4 - k
  PROVE  (s \o o) = [d \in 1..4 |-> IF d <= k THEN s[d] ELSE o[d - k]]
<1>1. s \o o \in [1..4 -> Nat]
  <2>1. s \o o \in Seq(Nat)
    BY ConcatProperties
  <2>2. Len(s \o o) = 4
    BY ConcatProperties
  <2> QED
    BY <2>1, <2>2, LenProperties
<1>2. \A d \in 1..4 : (s \o o)[d] = IF d <= k THEN s[d] ELSE o[d - k]
  <2> TAKE d \in 1..4
  <2>1. (s \o o)[d] = IF d <= Len(s) THEN s[d] ELSE o[d - Len(s)]
    BY ConcatProperties
  <2> QED
    BY <2>1
<1> QED
  BY <1>1, <1>2

(* A view filled up to four dimensions has those of the tensor. *)
LEMMA Rank4Shape ==
  ASSUME NEW t \in TensorType, NEW m
  PROVE  Rank4(View(t, m)).ne = t.ne
<1> DEFINE a == View(t, m)
           ones == [d \in 1..(4 - Len(a.ne)) |-> 1]
<1>1. Rank4(a).ne = a.ne \o ones
  <2>1. a = [ne |-> a.ne, v |-> a.v]
    BY DEF View, Array
  <2>2. \A x : [[ne |-> a.ne, v |-> a.v] EXCEPT !.ne = x].ne = x
    OBVIOUS
  <2> HIDE DEF a
  <2>3. [a EXCEPT !.ne = a.ne \o ones].ne = a.ne \o ones
    BY <2>1, <2>2, Zenon
  <2> QED
    BY <2>3, Zenon DEF Rank4, Reshaped
<1> DEFINE k == NDim(t)
           s == Shape(t)
<1>2. a.ne = s
  BY ViewShaped
<1>3. /\ s \in [1..k -> Nat] /\ Len(s) = k /\ k \in 1..4
      /\ \A d \in 1..k : s[d] = t.ne[d]
      /\ \A d \in 1..4 : d > k => t.ne[d] = 1
  BY ShapeFacts, NDimFacts
<1>4. t.ne \in [1..4 -> Nat]
  BY DEF TensorType
<1> HIDE DEF a, s, k
<1>5. ones = [d \in 1..(4 - k) |-> 1]
  BY <1>2, <1>3, Zenon
<1> HIDE DEF ones
<1>6. s \in Seq(Nat)
  BY <1>3, IntoSeq
<1>7. ones \in Seq(Nat) /\ Len(ones) = 4 - k
  <2>1. 4 - k \in Nat
    BY <1>3
  <2>2. ones \in [1..(4 - k) -> Nat] /\ ones = [i \in 1..(4 - k) |-> ones[i]]
    BY <1>5
  <2> QED
    BY <2>1, <2>2, IntoSeq, VectorIsSeq
<1>8. s \o ones = [d \in 1..4 |-> IF d <= k THEN s[d] ELSE ones[d - k]]
  BY <1>3, <1>6, <1>7, FilledUp
<1>9. \A d \in 1..4 : (s \o ones)[d] = t.ne[d]
  <2> TAKE d \in 1..4
  <2>1. CASE d <= k
    BY <1>3, <1>8, <2>1
  <2>2. CASE d > k
    <3>1. d - k \in 1..(4 - k)
      BY <1>3, <2>2
    <3>2. ones[d - k] = 1
      BY <1>5, <3>1
    <3> QED
      BY <1>3, <1>8, <2>2, <3>2
  <2>3. d <= k \/ d > k
    BY <1>3
  <2> QED
    BY <2>1, <2>2, <2>3
<1>10. s \o ones = t.ne
  BY <1>4, <1>8, <1>9
<1> QED
  BY <1>1, <1>2, <1>10 DEF a

-----------------------------------------------------------------------------
(* How many elements the destination of each operator spans. *)

(* The array that a node's destination should hold has as many elements as it. *)
LEMMA WrittenReach ==
  ASSUME NEW n \in NodeType, NEW m, NEW a, Shaped(a), WriteTensor(n.dst, m, a).is = "ok"
  PROVE  /\ Inside(m, WriteTensor(n.dst, m, a).x, n.dst)
         /\ Elems(a.ne) = Elems(n.dst.ne) /\ Width(n.dst.type) * Elems(n.dst.ne) <= Span(n.dst)
<1>1. n.dst \in TensorType
  BY DEF NodeType
<1> QED
  BY <1>1, WriteInside, ContiguousSpans

(* The operators whose result is not what the fallback leaves. *)
Special == {"PAD", "POOL_2D", "TRI", "ARANGE"}

Image4(n, m) == Rank4(View(n.src[1], m))

(* What the destination should hold, by operator. *)
LEMMA ExpectedArms ==
  ASSUME NEW n, NEW m
  PROVE  /\ n.op = "PAD" => Expected(n, m) = WriteTensor(n.dst, m, Padded(Image4(n, m), n.p))
         /\ n.op = "POOL_2D" => Expected(n, m) = WriteTensor(n.dst, m, Pool2D(n.p[1] # 0, PoolWindow(n.p), Image4(n, m)))
         /\ n.op = "TRI" => \E a : Shaped(a) /\ a.ne = Image4(n, m).ne /\ Expected(n, m) = WriteTensor(n.dst, m, a)
         /\ n.op = "ARANGE" => \E a : Shaped(a) /\ a.ne = n.dst.ne /\ Expected(n, m) = WriteTensor(n.dst, m, a)
         /\ n.op \notin Special => Expected(n, m) = Fallback(n, m)
<1> DEFINE a == Image4(n, m)
           tri == Array(a.ne, LAMBDA c : IF \/ c[1] = c[2] /\ n.p[1] \in {0, 2}
                                            \/ c[1] > c[2] /\ n.p[1] \in {0, 1}
                                            \/ c[1] < c[2] /\ n.p[1] \in {2, 3}
                                         THEN At(a, c) ELSE 0)
           range == Array(n.dst.ne, LAMBDA c : c[1])
           pool == Pool2D(n.p[1] # 0, PoolWindow(n.p), a)
<1>1. Shaped(tri) /\ tri.ne = a.ne
  BY NewArray DEF Array
<1>2. Shaped(range) /\ range.ne = n.dst.ne
  BY NewArray DEF Array
<1>3. Expected(n, m) =
        CASE n.op = "PAD" -> WriteTensor(n.dst, m, Padded(a, n.p))
          [] n.op = "POOL_2D" -> WriteTensor(n.dst, m, pool)
          [] n.op = "TRI" -> WriteTensor(n.dst, m, tri)
          [] n.op = "ARANGE" -> WriteTensor(n.dst, m, range)
          [] OTHER -> Fallback(n, m)
  BY Zenon DEF Expected, Image4
<1> HIDE DEF tri, range, pool
<1>4. n.op \notin Special => Expected(n, m) = Fallback(n, m)
  BY <1>3 DEF Special
<1>5. n.op = "PAD" => Expected(n, m) = WriteTensor(n.dst, m, Padded(a, n.p))
  BY <1>3
<1>6. n.op = "POOL_2D" => Expected(n, m) = WriteTensor(n.dst, m, pool)
  BY <1>3
<1>7. n.op = "TRI" => Expected(n, m) = WriteTensor(n.dst, m, tri)
  BY <1>3
<1>8. n.op = "ARANGE" => Expected(n, m) = WriteTensor(n.dst, m, range)
  BY <1>3
<1> QED
  BY <1>1, <1>2, <1>4, <1>5, <1>6, <1>7, <1>8, Zenon DEF pool

(* The view of a source. *)
LEMMA SourceView ==
  ASSUME NEW n \in NodeType, NEW m, NEW k \in Nat, k > 0, Len(n.src) >= k
  PROVE  /\ k \in DOMAIN n.src /\ n.src[k] \in TensorType
         /\ Views(n, m)[k] = View(n.src[k], m) /\ Views(n, m)[k].ne = Shape(n.src[k])
         /\ Shaped(Views(n, m)[k])
<1>1. n.src \in Seq(TensorType)
  BY DEF NodeType
<1>2. k \in DOMAIN n.src /\ n.src[k] \in TensorType
  BY <1>1, LenProperties
<1>3. Views(n, m)[k] = View(n.src[k], m)
  BY <1>2 DEF Views
<1> QED
  BY <1>2, <1>3, ViewShaped

(* A result that the fallback writes has the elements of the destination, which spans them. *)
LEMMA FallbackReach ==
  ASSUME NEW n \in NodeType, NEW m, n.op \notin Special, Expected(n, m).is = "ok"
  PROVE  /\ Compute(n, Views(n, m)).is = "ok"
         /\ Elems(Compute(n, Views(n, m)).x.ne) = Elems(n.dst.ne)
         /\ Width(n.dst.type) * Elems(n.dst.ne) <= Span(n.dst)
         /\ \A i \in DOMAIN n.src : n.src[i].type \in NumPyTypes
<1>1. Expected(n, m) = Fallback(n, m)
  BY ExpectedArms
<1> QED
  BY <1>1, FallbackWrites, WrittenReach

LEMMA ViewsOne ==
  ASSUME NEW n \in NodeType, NEW m, Len(n.src) >= 1
  PROVE  /\ n.src[1] \in TensorType /\ Views(n, m)[1] = View(n.src[1], m)
         /\ Views(n, m)[1].ne = Shape(n.src[1]) /\ Shaped(Views(n, m)[1])
         /\ Rank4(Views(n, m)[1]).ne = n.src[1].ne
BY SourceView, Rank4Shape

LEMMA ViewsTwo ==
  ASSUME NEW n \in NodeType, NEW m, Len(n.src) >= 2
  PROVE  /\ n.src[2] \in TensorType /\ Views(n, m)[2] = View(n.src[2], m)
         /\ Views(n, m)[2].ne = Shape(n.src[2])
         /\ Rank4(Views(n, m)[2]).ne = n.src[2].ne
BY SourceView, Rank4Shape

(* The operators whose result is as large as their first source. *)
SameSize == {"UNARY", "SQR", "SQRT", "SCALE", "CLAMP", "NORM", "GROUP_NORM", "TRI"}

(* Their destination is. *)
LEMMA SameSizeReach ==
  ASSUME NEW n \in NodeType, NEW m, Expected(n, m).is = "ok", Len(n.src) >= 1, n.op \in SameSize
  PROVE  Elems(n.dst.ne) = Elems(n.src[1].ne) /\ Width(n.dst.type) * Elems(n.dst.ne) <= Span(n.dst)
<1> DEFINE s == Views(n, m)
<1>1. /\ n.src[1] \in TensorType /\ s[1].ne = Shape(n.src[1]) /\ Shaped(s[1])
      /\ Image4(n, m).ne = n.src[1].ne /\ Elems(Shape(n.src[1])) = Elems(n.src[1].ne)
  BY ViewsOne, ElemsOfTensor DEF Image4
<1> HIDE DEF s
<1> DEFINE r == RowResult(n, s)
<1>2. CASE n.op = "TRI"
  <2>1. PICK a : Shaped(a) /\ a.ne = Image4(n, m).ne /\ Expected(n, m) = WriteTensor(n.dst, m, a)
    BY <1>2, ExpectedArms
  <2> QED
    BY <1>1, <2>1, WrittenReach
<1>3. CASE n.op # "TRI"
  <2>1. /\ Compute(n, s).is = "ok" /\ Elems(Compute(n, s).x.ne) = Elems(n.dst.ne)
        /\ Width(n.dst.type) * Elems(n.dst.ne) <= Span(n.dst)
    BY <1>3, FallbackReach DEF SameSize, Special, s
  <2>2. Compute(n, s).x.ne = s[1].ne
    <3>1. CASE n.op \in {"UNARY", "SCALE", "CLAMP"} \cup ElementOps
      <4>1. Compute(n, s) = ElementResult(n, s)
        BY <2>1, <3>1, ComputeArms DEF Elementwise
      <4> QED
        BY <1>1, <2>1, <3>1, <4>1, ElementShape
    <3>2. CASE n.op \in {"NORM", "GROUP_NORM"}
      <4>1. Compute(n, s) = RowResult(n, s)
        BY <2>1, <3>2, ComputeArms DEF RowOps
      <4>2. RowResult(n, s).is = "ok"
        BY <2>1, <4>1
      <4>3. RowResult(n, s).x.ne = s[1].ne
        BY <1>1, <3>2, <4>2, RowShape, ZenonT(60)
      <4> QED
        BY <4>1, <4>3
    <3> QED
      BY <1>3, <3>1, <3>2 DEF SameSize, ElementOps
  <2> QED
    BY <1>1, <2>1, <2>2
<1> QED
  BY <1>2, <1>3

(* A sum of each row, or of everything. *)
LEMMA RowsReach ==
  ASSUME NEW n \in NodeType, NEW m, Expected(n, m).is = "ok", Len(n.src) >= 1,
         n.op \in {"SUM", "SUM_ROWS", "MEAN"}
  PROVE  /\ Width(n.dst.type) * Elems(n.dst.ne) <= Span(n.dst)
         /\ n.op = "SUM" => Elems(n.dst.ne) = 1
         /\ n.op # "SUM" => Elems(n.dst.ne) = n.src[1].ne[2] * n.src[1].ne[3] * n.src[1].ne[4]
<1> DEFINE s == Views(n, m)
           t == n.src[1]
           x == Compute(n, s).x.ne
<1>1. t \in TensorType /\ s[1].ne = Shape(t) /\ Shaped(s[1])
  BY ViewsOne
<1>2. /\ Compute(n, s).is = "ok" /\ Elems(x) = Elems(n.dst.ne)
      /\ Width(n.dst.type) * Elems(n.dst.ne) <= Span(n.dst)
  BY FallbackReach DEF Special
<1>3. Compute(n, s) = RowResult(n, s)
  BY <1>2, ComputeArms DEF RowOps
<1> DEFINE r == RowResult(n, s)
<1>6. r.is = "ok" /\ x = r.x.ne
  BY <1>2, <1>3
<1>7. /\ n.op = "SUM" => r.x.ne = <<1>>
      /\ n.op \in {"SUM_ROWS", "MEAN"} => r.x.ne = [s[1].ne EXCEPT ![1] = 1]
  BY <1>1, <1>6, RowShape
<1> HIDE DEF r, s, x
<1>4. CASE n.op = "SUM"
  <2>1. x = <<1>>
    BY <1>4, <1>6, <1>7
  <2>2. Elems(<<1>>) = 1
    <3>1. Elems(<<1>>) = Volume(<<1>>)
      BY ElemsVolume
    <3> QED
      BY <3>1 DEF Volume, Dim
  <2> QED
    BY <1>2, <1>4, <2>1, <2>2
<1>5. CASE n.op # "SUM"
  <2>1. x = [Shape(t) EXCEPT ![1] = 1]
    BY <1>1, <1>5, <1>6, <1>7
  <2>2. /\ Shape(t) \in [1..NDim(t) -> Nat] /\ NDim(t) \in 1..4
        /\ \A d \in 1..NDim(t) : Shape(t)[d] = t.ne[d]
        /\ \A d \in 1..4 : d > NDim(t) => t.ne[d] = 1
    BY <1>1, ShapeFacts, NDimFacts
  <2>3. DOMAIN x = 1..NDim(t) /\ x[1] = 1 /\ \A d \in 2..NDim(t) : x[d] = t.ne[d]
    BY <2>1, <2>2
  <2>4. t.ne[2] \in Nat /\ t.ne[3] \in Nat /\ t.ne[4] \in Nat
    BY SMTT(30), <1>1 DEF TensorType
  <2>5. Elems(x) = Volume(x)
    <3>1. NDim(t) \in 0..4
      BY <2>2
    <3>3. \A d \in 1..NDim(t) : x[d] \in Int
      <4> TAKE d \in 1..NDim(t)
      <4> HIDE DEF t
      <4>1. d = 1 \/ d \in 2..NDim(t)
        BY <2>2
      <4>2. t.ne[d] \in Nat
        BY <1>1, <2>2 DEF TensorType
      <4> QED
        BY <2>3, <4>1, <4>2
    <3> QED
      BY <2>3, <3>1, <3>3, ElemsVolume
  <2>6. Dim(x, 1) = 1 /\ Dim(x, 2) = t.ne[2] /\ Dim(x, 3) = t.ne[3] /\ Dim(x, 4) = t.ne[4]
    BY <2>2, <2>3 DEF Dim
  <2>7. Volume(x) = t.ne[2] * t.ne[3] * t.ne[4]
    BY <2>4, <2>6 DEF Volume
  <2> QED
    BY <1>2, <1>5, <2>5, <2>7
<1> QED
  BY <1>2, <1>4, <1>5

LEMMA NatProducts ==
  ASSUME NEW a \in Nat, NEW b \in Nat, NEW c \in Nat
  PROVE  a * b \in Nat /\ a * b * c \in Nat /\ a * b * c \in Int /\ a \in Int
<1>1. a * b \in Nat
  BY SMT
<1> DEFINE x == a * b
<1> HIDE DEF x
<1>2. x * c \in Nat /\ x * c \in Int
  BY <1>1, SMT DEF x
<1> QED
  BY <1>1, <1>2 DEF x

(* A window without padding or dilation. *)
LEMMA WindowArithmetic ==
  ASSUME NEW b \in Int, NEW k \in Int, NEW s \in Int, s > 0
  PROVE  /\ b + 2 * 0 - 1 * (k - 1) - 1 = b - k
         /\ (b - k) \div s + 1 \in Int
OBVIOUS

LEMMA OutDimPlain ==
  ASSUME NEW g, NEW b, NEW i, g.p[i] = 0, g.d[i] = 1,
         b.ne[i] \in Int, g.k[i] \in Int, g.s[i] \in Int, g.s[i] > 0
  PROVE  OutDim(g, b, i) = (b.ne[i] - g.k[i]) \div g.s[i] + 1 /\ OutDim(g, b, i) \in Int
<1> DEFINE u == b.ne[i]
           w == g.k[i]
           s == g.s[i]
<1>1. u \in Int /\ w \in Int /\ s \in Int /\ s > 0
  OBVIOUS
<1>2. OutDim(g, b, i) = (u + 2 * 0 - 1 * (w - 1) - 1) \div s + 1
  BY Zenon DEF OutDim
<1> HIDE DEF u, w, s
<1>3. u + 2 * 0 - 1 * (w - 1) - 1 = u - w /\ (u - w) \div s + 1 \in Int
  BY <1>1, WindowArithmetic, Zenon
<1> QED
  BY <1>2, <1>3, Zenon DEF u, w, s

LEMMA ElemsOfFour ==
  ASSUME NEW a \in Int, NEW b \in Int, NEW c \in Int, NEW d \in Int
  PROVE  Elems(<<a, b, c, d>>) = a * b * c * d
<1> DEFINE x == <<a, b, c, d>>
<1>1. DOMAIN x = 1..4 /\ x[1] = a /\ x[2] = b /\ x[3] = c /\ x[4] = d
  OBVIOUS
<1> HIDE DEF x
<1>2. \A i \in 1..4 : x[i] \in Int
  BY <1>1
<1>3. Elems(x) = Volume(x)
  BY <1>1, <1>2, ElemsVolume
<1>4. Volume(x) = a * b * c * d
  BY <1>1 DEF Volume, Dim
<1> QED
  BY <1>3, <1>4 DEF x

(* The destination of a padding, that of a pooling. *)
LEMMA PadReach ==
  ASSUME NEW n \in NodeType, NEW m, Expected(n, m).is = "ok", Len(n.src) >= 1, n.op = "PAD",
         n.p[3] = 0, n.p[4] = 0, Flat2D(n.src[1])
  PROVE  /\ Width(n.dst.type) * Elems(n.dst.ne) <= Span(n.dst)
         /\ Elems(n.dst.ne) = (n.src[1].ne[2] + n.p[2]) * (n.src[1].ne[1] + n.p[1])
<1> DEFINE t == n.src[1]
           a == Image4(n, m)
           x == Padded(a, n.p)
<1>1. t \in TensorType /\ a.ne = t.ne
  BY ViewsOne DEF Image4
<1>2. Shaped(x) /\ x.ne = [d \in DOMAIN a.ne |-> a.ne[d] + n.p[d]]
  BY NewArray DEF Padded, Array
<1>3. Expected(n, m) = WriteTensor(n.dst, m, x)
  BY ExpectedArms
<1>4. /\ Elems(x.ne) = Elems(n.dst.ne)
      /\ Width(n.dst.type) * Elems(n.dst.ne) <= Span(n.dst)
  <2>1. Shaped(x) /\ WriteTensor(n.dst, m, x).is = "ok"
    BY <1>2, <1>3
  <2> HIDE DEF x
  <2> QED
    BY <2>1, WrittenReach
<1> HIDE DEF x
<1>5. t.ne \in [1..4 -> Nat] /\ t.ne[1] \in Nat /\ t.ne[2] \in Nat /\ t.ne[3] = 1 /\ t.ne[4] = 1
  BY <1>1, TensorDims DEF Flat2D
<1>6. n.p[1] \in Int /\ n.p[2] \in Int
  BY Params
<1> HIDE DEF t, a
<1>7. DOMAIN x.ne = 1..4 /\ \A d \in 1..4 : x.ne[d] = t.ne[d] + n.p[d]
  BY <1>1, <1>2, <1>5
<1>8. \A d \in 1..4 : x.ne[d] \in Int
  <2> TAKE d \in 1..4
  <2>1. d \in 1..7 /\ t.ne[d] \in Nat
    BY <1>5
  <2>2. n.p[d] \in Int
    BY <2>1, Params
  <2> QED
    BY <1>7, <2>1, <2>2
<1>9. Elems(x.ne) = x.ne[1] * x.ne[2] * x.ne[3] * x.ne[4]
  BY <1>7, <1>8, ElemsFour, Zenon
<1>10. x.ne[3] = 1 /\ x.ne[4] = 1 /\ x.ne[1] = t.ne[1] + n.p[1] /\ x.ne[2] = t.ne[2] + n.p[2]
  BY <1>5, <1>7
<1>11. Elems(x.ne) = (t.ne[1] + n.p[1]) * (t.ne[2] + n.p[2])
  <2> DEFINE u == t.ne[1] + n.p[1]
             w == t.ne[2] + n.p[2]
  <2>2. u \in Int /\ w \in Int /\ Elems(x.ne) = u * w * 1 * 1
    BY SMTT(30), <1>9, <1>5, <1>6, <1>10
  <2> HIDE DEF u, w
  <2>3. u * w * 1 * 1 = u * w
    BY <2>2
  <2> QED
    BY <2>2, <2>3 DEF u, w
<1>12. (t.ne[1] + n.p[1]) * (t.ne[2] + n.p[2]) = (t.ne[2] + n.p[2]) * (t.ne[1] + n.p[1])
  <2> DEFINE u == t.ne[1] + n.p[1]
             w == t.ne[2] + n.p[2]
  <2>2. u \in Int /\ w \in Int
    BY <1>5, <1>6
  <2> HIDE DEF u, w
  <2>3. u * w = w * u
    BY <2>2
  <2> QED
    BY <2>3 DEF u, w
<1> QED
  BY <1>4, <1>11, <1>12 DEF t

LEMMA PoolReach ==
  ASSUME NEW n \in NodeType, NEW m, Expected(n, m).is = "ok", Len(n.src) >= 1, n.op = "POOL_2D",
         n.p[6] = 0, n.p[7] = 0, Flat2D(n.src[1]), \A i \in 2..5 : n.p[i] > 0
  PROVE  /\ Width(n.dst.type) * Elems(n.dst.ne) <= Span(n.dst)
         /\ Elems(n.dst.ne) = (((n.src[1].ne[1] - n.p[2]) \div n.p[4]) + 1)
                              * (((n.src[1].ne[2] - n.p[3]) \div n.p[5]) + 1)
<1> DEFINE t == n.src[1]
           p == n.p
           b == Image4(n, m)
           g == PoolWindow(p)
           x == Pool2D(p[1] # 0, g, b)
<1>1. t \in TensorType /\ b.ne = t.ne
  BY ViewsOne DEF Image4
<1>2. Shaped(x) /\ x.ne = <<OutDim(g, b, 1), OutDim(g, b, 2), b.ne[3], b.ne[4]>>
  BY NewArray DEF Pool2D, Array
<1>3. Expected(n, m) = WriteTensor(n.dst, m, x)
  BY ExpectedArms
<1>4. /\ Elems(x.ne) = Elems(n.dst.ne)
      /\ Width(n.dst.type) * Elems(n.dst.ne) <= Span(n.dst)
  <2> HIDE DEF x
  <2> QED
    BY <1>2, <1>3, WrittenReach
<1>5. t.ne[1] \in Nat /\ t.ne[2] \in Nat /\ t.ne[3] = 1 /\ t.ne[4] = 1
  BY <1>1, TensorDims DEF Flat2D
<1>6. p[2] \in Int /\ p[3] \in Int /\ p[4] \in Int /\ p[5] \in Int /\ p[4] > 0 /\ p[5] > 0
  BY Params
<1> DEFINE ow == ((t.ne[1] - p[2]) \div p[4]) + 1
           oh == ((t.ne[2] - p[3]) \div p[5]) + 1
<1>7. OutDim(g, b, 1) = ow /\ ow \in Int
  <2>1. /\ g.p[1] = 0 /\ g.d[1] = 1 /\ g.k[1] = p[2] /\ g.s[1] = p[4]
    BY DEF PoolWindow, Window
  <2>2. b.ne[1] = t.ne[1]
    BY <1>1
  <2> HIDE DEF g, b, p, t
  <2>3. b.ne[1] \in Int /\ g.k[1] \in Int /\ g.s[1] \in Int /\ g.s[1] > 0
    BY <1>5, <1>6, <2>1, <2>2
  <2>4. OutDim(g, b, 1) = (b.ne[1] - g.k[1]) \div g.s[1] + 1 /\ OutDim(g, b, 1) \in Int
    BY <2>1, <2>3, OutDimPlain, Zenon
  <2> QED
    BY <2>1, <2>2, <2>4, Zenon
<1>8. OutDim(g, b, 2) = oh /\ oh \in Int
  <2>1. /\ g.p[2] = 0 /\ g.d[2] = 1 /\ g.k[2] = p[3] /\ g.s[2] = p[5]
    BY DEF PoolWindow, Window
  <2>2. b.ne[2] = t.ne[2]
    BY <1>1
  <2> HIDE DEF g, b, p, t
  <2>3. b.ne[2] \in Int /\ g.k[2] \in Int /\ g.s[2] \in Int /\ g.s[2] > 0
    BY <1>5, <1>6, <2>1, <2>2
  <2>4. OutDim(g, b, 2) = (b.ne[2] - g.k[2]) \div g.s[2] + 1 /\ OutDim(g, b, 2) \in Int
    BY <2>1, <2>3, OutDimPlain, Zenon
  <2> QED
    BY <2>1, <2>2, <2>4, Zenon
<1>9. ow \in Int /\ oh \in Int
  BY <1>7, <1>8
<1>10. x.ne = <<ow, oh, 1, 1>>
  BY <1>1, <1>2, <1>5, <1>7, <1>8
<1> HIDE DEF ow, oh, x
<1>11. Elems(x.ne) = ow * oh * 1 * 1
  BY <1>9, <1>10, ElemsOfFour
<1>12. ow * oh * 1 * 1 = ow * oh
  BY <1>9
<1> QED
  BY <1>4, <1>11, <1>12 DEF ow, oh, t, p

(* A window over the second source, the size of the first. *)
Product4(a, b, c, d) == a * b * c * d

LEMMA FourDims ==
  ASSUME NEW a \in Int, NEW b \in Int, NEW c \in Int, NEW d \in Int
  PROVE  Elems(<<a, b, c, d>>) = Product4(a, b, c, d)
BY ElemsOfFour DEF Product4

(* The parameters of a window with a stride of its own, no padding and no dilation. *)
PlainWindow(p) == p[1] > 0 /\ p[2] = p[1] /\ p[3] = 0 /\ p[4] = 0 /\ p[5] = 1 /\ p[6] = 1

(* The places of a window along a dimension. *)
Steps(k, im, p, i) == (im.ne[i] - k.ne[i]) \div p[1] + 1

(* A window the size of the first source has as many places as the code computes. *)
LEMMA KernelWindow ==
  ASSUME NEW n \in NodeType, NEW k \in TensorType, NEW im \in TensorType, NEW m,
         PlainWindow(n.p), NEW i \in {1, 2}
  PROVE  /\ WindowOf(Rank4(View(k, m)), n.p).k[i] = k.ne[i]
         /\ OutDim(WindowOf(Rank4(View(k, m)), n.p), Rank4(View(im, m)), i) = Steps(k, im, n.p, i)
         /\ Steps(k, im, n.p, i) \in Int
<1> DEFINE a == Rank4(View(k, m))
           b == Rank4(View(im, m))
           g == WindowOf(a, n.p)
<1>1. g.p[i] = 0 /\ g.d[i] = 1 /\ g.k[i] = a.ne[i] /\ g.s[i] = n.p[1]
  BY DEF WindowOf, Window, PlainWindow
<1>2. a.ne = k.ne /\ b.ne = im.ne
  BY Rank4Shape
<1> HIDE DEF a, b, g
<1>3. b.ne[i] \in Int /\ g.k[i] \in Int /\ g.s[i] \in Int /\ g.s[i] > 0
  <2>1. k.ne[i] \in Nat /\ im.ne[i] \in Nat
    BY TensorDims
  <2>2. n.p[1] \in Int
    BY Params
  <2> QED
    BY <1>1, <1>2, <2>1, <2>2 DEF PlainWindow
<1>4. OutDim(g, b, i) = (b.ne[i] - g.k[i]) \div g.s[i] + 1 /\ OutDim(g, b, i) \in Int
  BY <1>1, <1>3, OutDimPlain
<1>5. OutDim(g, b, i) = Steps(k, im, n.p, i)
  BY <1>1, <1>2, <1>4, Zenon DEF Steps
<1> QED
  BY <1>1, <1>2, <1>4, <1>5, Zenon DEF a, b, g

(* The destination of a convolution, and that of its patches. *)
LEMMA WindowReach ==
  ASSUME NEW n \in NodeType, NEW m, Expected(n, m).is = "ok", Len(n.src) >= 2,
         n.op \in {"IM2COL", "CONV_2D"}, PlainWindow(n.p)
  PROVE  /\ Width(n.dst.type) * Elems(n.dst.ne) <= Span(n.dst)
         /\ Steps(n.src[1], n.src[2], n.p, 1) \in Int /\ Steps(n.src[1], n.src[2], n.p, 2) \in Int
         /\ n.op = "IM2COL" =>
              Elems(n.dst.ne) = (n.src[1].ne[1] * n.src[1].ne[2] * n.src[2].ne[3])
                                * Steps(n.src[1], n.src[2], n.p, 1) * Steps(n.src[1], n.src[2], n.p, 2)
                                * n.src[2].ne[4]
         /\ n.op = "CONV_2D" =>
              Elems(n.dst.ne) = Steps(n.src[1], n.src[2], n.p, 1) * Steps(n.src[1], n.src[2], n.p, 2)
                                * n.src[1].ne[4] * n.src[2].ne[4]
<1> DEFINE s == Views(n, m)
           k == n.src[1]
           im == n.src[2]
           a == Rank4(s[1])
           b == Rank4(s[2])
           g == WindowOf(a, n.p)
           r == WindowResult(n, s)
           ow == Steps(k, im, n.p, 1)
           oh == Steps(k, im, n.p, 2)
<1>1. Len(n.src) \in Nat /\ Len(n.src) >= 1
  <2>1. n.src \in Seq(TensorType)
    BY DEF NodeType
  <2> QED
    BY <2>1, LenProperties
<1>2. /\ k \in TensorType /\ im \in TensorType /\ a.ne = k.ne /\ b.ne = im.ne
      /\ s[1] = View(k, m) /\ s[2] = View(im, m)
  BY <1>1, ViewsOne, ViewsTwo
<1>3. /\ Compute(n, s).is = "ok" /\ Elems(Compute(n, s).x.ne) = Elems(n.dst.ne)
      /\ Width(n.dst.type) * Elems(n.dst.ne) <= Span(n.dst)
  BY FallbackReach DEF Special
<1>4. r.is = "ok" /\ Elems(r.x.ne) = Elems(n.dst.ne)
  <2>1. n.op \in Windowed
    BY DEF Windowed
  <2>2. Compute(n, s) = r
    BY <1>3, <2>1, ComputeArms
  <2> HIDE DEF r
  <2> QED
    BY <1>3, <2>2, Zenon
<1>5. /\ n.op = "IM2COL" => r.x.ne = <<g.k[1] * g.k[2] * b.ne[3], OutDim(g, b, 1), OutDim(g, b, 2), b.ne[4]>>
      /\ n.op = "CONV_2D" => r.x.ne = <<OutDim(g, b, 1), OutDim(g, b, 2), a.ne[4], b.ne[4]>>
  BY <1>4, WindowShape
<1>6. /\ g.k[1] = k.ne[1] /\ OutDim(g, b, 1) = ow /\ ow \in Int
      /\ g.k[2] = k.ne[2] /\ OutDim(g, b, 2) = oh /\ oh \in Int
  <2>1. g = WindowOf(Rank4(View(k, m)), n.p) /\ b = Rank4(View(im, m))
    BY <1>2
  <2>2. 1 \in {1, 2} /\ 2 \in {1, 2}
    OBVIOUS
  <2> HIDE DEF s, k, im, a, b, g, r
  <2> QED
    BY <1>2, <2>1, <2>2, KernelWindow
<1>7. /\ k.ne[1] \in Nat /\ k.ne[2] \in Nat /\ k.ne[3] \in Nat /\ k.ne[4] \in Nat
      /\ im.ne[1] \in Nat /\ im.ne[2] \in Nat /\ im.ne[3] \in Nat /\ im.ne[4] \in Nat
  BY <1>2, TensorDims
<1> HIDE DEF s, k, im, a, b, g, r, ow, oh
<1>8. CASE n.op = "IM2COL"
  <2> DEFINE c == k.ne[1] * k.ne[2] * im.ne[3]
  <2>1. r.x.ne = <<c, ow, oh, im.ne[4]>>
    BY <1>2, <1>5, <1>6, <1>8, Zenon
  <2>2. c \in Int /\ im.ne[4] \in Int
    BY <1>7, NatProducts, Zenon
  <2> HIDE DEF c
  <2>3. Elems(<<c, ow, oh, im.ne[4]>>) = Product4(c, ow, oh, im.ne[4])
    BY <1>6, <2>2, FourDims
  <2>4. Elems(n.dst.ne) = c * ow * oh * im.ne[4]
    BY <1>4, <2>1, <2>3, Zenon DEF Product4
  <2> QED
    BY <1>3, <1>6, <1>8, <2>4, Zenon DEF c, ow, oh, k, im
<1>9. CASE n.op = "CONV_2D"
  <2>1. r.x.ne = <<ow, oh, k.ne[4], im.ne[4]>>
    BY <1>2, <1>5, <1>6, <1>9, Zenon
  <2>2. k.ne[4] \in Int /\ im.ne[4] \in Int
    BY <1>7, NatProducts, Zenon
  <2>3. Elems(<<ow, oh, k.ne[4], im.ne[4]>>) = Product4(ow, oh, k.ne[4], im.ne[4])
    BY <1>6, <2>2, FourDims
  <2>4. Elems(n.dst.ne) = ow * oh * k.ne[4] * im.ne[4]
    BY <1>4, <2>1, <2>3, Zenon DEF Product4
  <2> QED
    BY <1>3, <1>6, <1>9, <2>4, Zenon DEF ow, oh, k, im
<1> QED
  BY <1>8, <1>9

(* An element of the broadcast for each of the first operand. *)
LEMMA LargerProduct ==
  ASSUME NEW a \in Nat, NEW b \in Nat, NEW c \in Nat, NEW d \in Nat, a <= b, c <= d
  PROVE  a * c <= b * d /\ a * c \in Nat /\ b * d \in Nat
<1>1. a * c <= b * c
  <2>1. (b - a) * c >= 0
    BY SMT
  <2>2. (b - a) * c = b * c - a * c
    BY SMT
  <2> QED
    BY <2>1, <2>2
<1>2. b * c <= b * d
  <2>1. b * (d - c) >= 0
    BY SMT
  <2>2. b * (d - c) = b * d - b * c
    BY SMT
  <2> QED
    BY <2>1, <2>2
<1>3. a * c \in Nat /\ b * c \in Nat /\ b * d \in Nat
  BY SMT
<1> QED
  BY <1>1, <1>2, <1>3

(* A broadcast of an operand that is not empty has at least the elements of its first operand. *)
LEMMA BroadcastReach ==
  ASSUME NEW n \in NodeType, NEW m, Expected(n, m).is = "ok", Len(n.src) >= 2, n.op \in BinaryOps,
         Positive(n.src[2])
  PROVE  /\ Width(n.dst.type) * Elems(n.dst.ne) <= Span(n.dst)
         /\ Elems(n.src[1].ne) <= Elems(n.dst.ne)
<1> DEFINE s == Views(n, m)
           a == n.src[1]
           b == n.src[2]
           r == ElementResult(n, s)
           x == r.x.ne
<1>1. Len(n.src) \in Nat /\ Len(n.src) >= 1
  <2>1. n.src \in Seq(TensorType)
    BY DEF NodeType
  <2> QED
    BY <2>1, LenProperties
<1>2. a \in TensorType /\ b \in TensorType /\ s[1].ne = Shape(a) /\ s[2].ne = Shape(b)
  BY <1>1, ViewsOne, ViewsTwo
<1>3. /\ Compute(n, s).is = "ok" /\ Elems(Compute(n, s).x.ne) = Elems(n.dst.ne)
      /\ Width(n.dst.type) * Elems(n.dst.ne) <= Span(n.dst)
  BY FallbackReach DEF Special, BinaryOps
<1>4. r.is = "ok" /\ Elems(x) = Elems(n.dst.ne)
  <2>1. n.op \in Elementwise
    BY DEF Elementwise
  <2>2. Compute(n, s) = r
    BY <1>3, <2>1, ComputeArms
  <2> HIDE DEF r
  <2> QED
    BY <1>3, <2>2, Zenon
<1>5. x = [d \in DOMAIN s[1].ne \cup DOMAIN s[2].ne |->
             IF Dim(s[1].ne, d) = 1 THEN Dim(s[2].ne, d) ELSE Dim(s[1].ne, d)]
  <2>1. ElementResult(n, s).is = "ok"
    BY <1>4
  <2>2. x = Broadened(s[1].ne, s[2].ne)
    BY <2>1, BinaryShape, Zenon
  <2> QED
    BY <2>2 DEF Broadened
<1> HIDE DEF s, r, x, a, b
<1>6. /\ Shape(a) \in [1..NDim(a) -> Nat] /\ NDim(a) \in 1..4
      /\ Shape(b) \in [1..NDim(b) -> Nat] /\ NDim(b) \in 1..4
      /\ \A d \in 1..4 : Dim(Shape(a), d) = a.ne[d] /\ Dim(Shape(b), d) = b.ne[d]
  BY <1>2, ShapeFacts, NDimFacts
<1>7. a.ne \in [1..4 -> Nat] /\ b.ne \in [1..4 -> Nat]
  BY <1>2, TensorDims
<1>13. \A d \in 1..4 : b.ne[d] > 0
  BY DEF Positive, b
<1>8. PICK k \in 1..4 : k >= NDim(a) /\ k >= NDim(b) /\ DOMAIN s[1].ne \cup DOMAIN s[2].ne = 1..k
  <2>1. DOMAIN s[1].ne = 1..NDim(a) /\ DOMAIN s[2].ne = 1..NDim(b)
    BY <1>2, <1>6
  <2> DEFINE k == IF NDim(a) >= NDim(b) THEN NDim(a) ELSE NDim(b)
  <2>2. k \in 1..4 /\ k >= NDim(a) /\ k >= NDim(b) /\ (1..NDim(a)) \cup (1..NDim(b)) = 1..k
    BY <1>6
  <2> QED
    BY <2>1, <2>2
<1>9. \A d \in 1..4 : Dim(x, d) \in Nat /\ a.ne[d] <= Dim(x, d)
  <2> TAKE d \in 1..4
  <2>1. Dim(Shape(a), d) = a.ne[d] /\ Dim(Shape(b), d) = b.ne[d] /\ a.ne[d] \in Nat /\ b.ne[d] \in Nat
    BY <1>6, <1>7
  <2>2. CASE d <= k
    <3>1. d \in 1..k
      BY <1>8, <2>2
    <3>2. x[d] = (IF a.ne[d] = 1 THEN b.ne[d] ELSE a.ne[d]) /\ DOMAIN x = 1..k
      BY <1>2, <1>5, <1>8, <2>1, <3>1
    <3>3. x[d] \in Nat /\ a.ne[d] <= x[d]
      BY <1>13, <2>1, <3>2
    <3> QED
      BY <3>1, <3>2, <3>3 DEF Dim
  <2>3. CASE d > k
    <3>1. d \notin DOMAIN x
      BY <1>5, <1>8, <2>3
    <3>2. d \notin DOMAIN Shape(a)
      BY <1>6, <1>8, <2>3
    <3>3. Dim(Shape(a), d) = 1 /\ Dim(x, d) = 1
      BY <3>1, <3>2 DEF Dim
    <3> QED
      BY <2>1, <3>3
  <2> QED
    BY <1>8, <2>2, <2>3
<1>10. Elems(x) = Dim(x, 1) * Dim(x, 2) * Dim(x, 3) * Dim(x, 4)
  <2>1. DOMAIN x = 1..k /\ k \in 0..4
    BY <1>5, <1>8
  <2>2. \A d \in 1..k : x[d] \in Int
    <3> TAKE d \in 1..k
    <3>1. d \in 1..4
      BY <1>8
    <3>2. Dim(x, d) \in Nat /\ d \in DOMAIN x
      BY <1>9, <2>1, <3>1
    <3> QED
      BY <3>2 DEF Dim
  <2> QED
    BY <2>1, <2>2, ElemsVolume DEF Volume
<1>11. Elems(a.ne) = a.ne[1] * a.ne[2] * a.ne[3] * a.ne[4]
  BY <1>2, ElemsOfTensor
<1>12. Elems(a.ne) <= Elems(x)
  <2> DEFINE a1 == a.ne[1]
             a2 == a.ne[2]
             a3 == a.ne[3]
             a4 == a.ne[4]
             x1 == Dim(x, 1)
             x2 == Dim(x, 2)
             x3 == Dim(x, 3)
             x4 == Dim(x, 4)
  <2>1. /\ a1 \in Nat /\ a2 \in Nat /\ a3 \in Nat /\ a4 \in Nat
        /\ x1 \in Nat /\ x2 \in Nat /\ x3 \in Nat /\ x4 \in Nat
        /\ a1 <= x1 /\ a2 <= x2 /\ a3 <= x3 /\ a4 <= x4
    BY <1>7, <1>9
  <2>2. Elems(a.ne) = a1 * a2 * a3 * a4 /\ Elems(x) = x1 * x2 * x3 * x4
    BY <1>10, <1>11
  <2> HIDE DEF a1, a2, a3, a4, x1, x2, x3, x4
  <2>3. a1 * a2 <= x1 * x2 /\ a1 * a2 \in Nat /\ x1 * x2 \in Nat
    BY <2>1, LargerProduct, Zenon
  <2>4. (a1 * a2) * a3 <= (x1 * x2) * x3 /\ (a1 * a2) * a3 \in Nat /\ (x1 * x2) * x3 \in Nat
    BY <2>1, <2>3, LargerProduct, Zenon
  <2>5. ((a1 * a2) * a3) * a4 <= ((x1 * x2) * x3) * x4
    BY <2>1, <2>4, LargerProduct, Zenon
  <2> QED
    BY <2>2, <2>5, Zenon
<1> QED
  BY <1>3, <1>4, <1>12 DEF a

(* The destination of a concatenation of rows, and of one of channels. *)
LEMMA ConcatReach ==
  ASSUME NEW n \in NodeType, NEW m, Expected(n, m).is = "ok", Len(n.src) >= 2, n.op = "CONCAT",
         SubSeq(n.src[1].ne, 1, 2) = SubSeq(n.src[2].ne, 1, 2), n.src[1].ne[4] = 1, n.src[2].ne[4] = 1,
         n.p[1] \in {0, 2}
  PROVE  /\ Width(n.dst.type) * Elems(n.dst.ne) <= Span(n.dst)
         /\ n.p[1] = 0 /\ n.src[1].ne[3] = 1 =>
              Elems(n.dst.ne) = 2 * (n.src[1].ne[1] * n.src[1].ne[2])
         /\ n.p[1] = 2 =>
              Elems(n.dst.ne) = (n.src[1].ne[3] + n.src[2].ne[3]) * (n.src[1].ne[1] * n.src[1].ne[2])
<1> DEFINE s == Views(n, m)
           a == n.src[1]
           b == n.src[2]
           nd == NDim(a)
           g == 1 + (n.p[1] % nd)
           r == MoveResult(n, s)
           x == r.x.ne
<1>1. Len(n.src) \in Nat /\ Len(n.src) >= 1
  BY SourceCount
<1>2. /\ a \in TensorType /\ b \in TensorType
      /\ s[1].ne = Shape(a) /\ s[2].ne = Shape(b)
  BY <1>1, ViewsOne, ViewsTwo
<1>3. /\ Compute(n, s).is = "ok" /\ Elems(Compute(n, s).x.ne) = Elems(n.dst.ne)
      /\ Width(n.dst.type) * Elems(n.dst.ne) <= Span(n.dst)
  BY FallbackReach DEF Special
<1>4. r.is = "ok" /\ Elems(x) = Elems(n.dst.ne)
  <2>1. n.op \in MoveOps
    BY DEF MoveOps
  <2>2. Compute(n, s) = r
    BY <1>3, <2>1, ComputeArms
  <2> HIDE DEF r
  <2> QED
    BY <1>3, <2>2, Zenon
<1>5. /\ Shape(a) \in [1..NDim(a) -> Nat] /\ Len(Shape(a)) = NDim(a) /\ NDim(a) \in 1..4
      /\ Shape(b) \in [1..NDim(b) -> Nat] /\ Len(Shape(b)) = NDim(b) /\ NDim(b) \in 1..4
      /\ \A d \in 1..NDim(a) : Shape(a)[d] = a.ne[d]
      /\ \A d \in 1..NDim(b) : Shape(b)[d] = b.ne[d]
      /\ \A d \in 1..4 : d > NDim(a) => a.ne[d] = 1
      /\ \A d \in 1..4 : d > NDim(b) => b.ne[d] = 1
      /\ a.ne \in [1..4 -> Nat] /\ b.ne \in [1..4 -> Nat]
      /\ a.ne \in Seq(Nat) /\ b.ne \in Seq(Nat) /\ Len(a.ne) = 4 /\ Len(b.ne) = 4
  <2> HIDE DEF a, b
  <2> QED
    BY <1>2, Shapes, Zenon
<1>18. NDim(a) # 4
  <2>1. NDim(a) = 1 \/ a.ne[NDim(a)] # 1
    BY <1>2, NDimBig
  <2> QED
    BY <2>1
<1>6. /\ n.p[1] \in 0..(2 * nd - 1) /\ NDim(b) = nd
      /\ x = [s[1].ne EXCEPT ![g] = @ + s[2].ne[g]]
  <2>1. Len(s[1].ne) = nd /\ Len(s[2].ne) = NDim(b)
    BY <1>2, <1>5
  <2>2. Axis(n, s) = g
    BY <2>1, Zenon DEF Axis
  <2>3. MoveResult(n, s).is = "ok"
    BY <1>4
  <2> HIDE DEF s, a, b, nd, g
  <2>4. /\ n.p[1] \in 0..(2 * Len(s[1].ne) - 1) /\ Len(s[2].ne) = Len(s[1].ne)
        /\ MoveResult(n, s).x.ne = [s[1].ne EXCEPT ![Axis(n, s)] = @ + s[2].ne[Axis(n, s)]]
    BY <2>3, ConcatShape, ZenonT(30)
  <2> QED
    BY <2>1, <2>2, <2>4, Zenon
<1>7. a.ne[1] = b.ne[1] /\ a.ne[2] = b.ne[2]
  <2>2. SubSeq(a.ne, 1, 2)[1] = a.ne[1] /\ SubSeq(a.ne, 1, 2)[2] = a.ne[2]
    BY <1>5
  <2>3. SubSeq(b.ne, 1, 2)[1] = b.ne[1] /\ SubSeq(b.ne, 1, 2)[2] = b.ne[2]
    BY <1>5
  <2> QED
    BY <2>2, <2>3
<1>8. (n.p[1] = 0 => g = 1) /\ (n.p[1] = 2 => nd \in {2, 3} /\ (nd = 2 => g = 1) /\ (nd = 3 => g = 3)) /\ g \in 1..nd
  <2>1. nd = 1 \/ nd = 2 \/ nd = 3
    BY <1>5, <1>18
  <2>2. n.p[1] \in 0..(2 * nd - 1)
    BY <1>6
  <2>3. g = 1 + (n.p[1] % nd)
    OBVIOUS
  <2> DEFINE q == n.p[1]
  <2> HIDE DEF g, nd, q
  <2>4. (q = 0 => g = 1) /\ (q = 2 => nd # 1 /\ (nd = 2 => g = 1) /\ (nd = 3 => g = 3)) /\ g \in 1..nd
    <3>1. q \in 0..(2 * nd - 1) /\ g = 1 + (q % nd)
      BY <2>2, <2>3 DEF q
    <3>2. CASE nd = 1
      BY <3>1, <3>2
    <3>3. CASE nd = 2
      BY <3>1, <3>3
    <3>4. CASE nd = 3
      BY <3>1, <3>4
    <3> QED
      BY <2>1, <3>2, <3>3, <3>4
  <2> QED
    BY <2>1, <2>4 DEF q
<1>9. a.ne[4] = 1 /\ b.ne[4] = 1
  OBVIOUS
<1> HIDE DEF s, a, b, nd, g, r, x
<1>10. DOMAIN x = 1..nd /\ \A d \in 1..nd : x[d] = IF d = g THEN a.ne[d] + b.ne[d] ELSE a.ne[d]
  BY <1>2, <1>5, <1>6, <1>8 DEF nd
<1>11. \A d \in 1..4 : Dim(x, d) = IF d = g THEN a.ne[d] + b.ne[d] ELSE a.ne[d]
  <2> TAKE d \in 1..4
  <2>1. CASE d \in 1..nd
    BY <1>10, <2>1 DEF Dim
  <2>2. CASE d \notin 1..nd
    <3>1. d > NDim(a) /\ d # g
      BY SMTT(30), <1>5, <1>8, <2>2 DEF nd
    <3> QED
      BY <1>5, <1>10, <2>2, <3>1 DEF Dim
  <2> QED
    BY <2>1, <2>2
<1>12. Elems(x) = Dim(x, 1) * Dim(x, 2) * Dim(x, 3) * Dim(x, 4)
  <2>1. nd \in 0..4
    BY <1>5 DEF nd
  <2>3. \A d \in 1..4 : a.ne[d] \in Nat /\ b.ne[d] \in Nat
    BY <1>5
  <2>2. \A d \in 1..nd : x[d] \in Int
    <3> TAKE d \in 1..nd
    <3>1. d \in 1..4
      BY <2>1
    <3> DEFINE u == a.ne[d]
               v == b.ne[d]
    <3>2. u \in Nat /\ v \in Nat
      BY <2>3, <3>1
    <3>3. x[d] = IF d = g THEN u + v ELSE u
      BY <1>10
    <3> HIDE DEF u, v
    <3> QED
      BY <3>2, <3>3
  <2> QED
    BY <1>10, <2>1, <2>2, ElemsVolume DEF Volume
<1> DEFINE a1 == a.ne[1]
           a2 == a.ne[2]
           a3 == a.ne[3]
           b3 == b.ne[3]
<1>13. a1 \in Nat /\ a2 \in Nat /\ a3 \in Nat /\ b3 \in Nat
  BY <1>2, TensorDims
<1>14. CASE n.p[1] = 0 /\ a3 = 1
  <2>1. Dim(x, 1) = a1 + a1 /\ Dim(x, 2) = a2 /\ Dim(x, 3) = 1 /\ Dim(x, 4) = 1
    BY <1>7, <1>8, <1>9, <1>11, <1>14
  <2> HIDE DEF a1, a2, a3, b3
  <2>2. Elems(x) = (a1 + a1) * a2 * 1 * 1
    BY <1>12, <2>1, Zenon
  <2>3. (a1 + a1) * a2 * 1 * 1 = 2 * (a1 * a2)
    BY <1>13
  <2>4. n.p[1] # 2
    BY <1>14
  <2> QED
    BY <1>3, <1>4, <1>14, <2>2, <2>3, <2>4, Zenon DEF a1, a2, a3, a
<1>15. CASE n.p[1] = 2 /\ nd = 2
  <2>1. Dim(x, 1) = a1 + a1 /\ Dim(x, 2) = a2 /\ Dim(x, 3) = 1 /\ Dim(x, 4) = 1
    BY SMTT(30), <1>5, <1>7, <1>8, <1>9, <1>11, <1>15 DEF nd
  <2>4. a3 = 1 /\ b3 = 1
    BY SMTT(30), <1>5, <1>6, <1>15 DEF nd
  <2> HIDE DEF a1, a2, a3, b3
  <2>2. Elems(x) = (a1 + a1) * a2 * 1 * 1
    BY <1>12, <2>1, Zenon
  <2>3. (a1 + a1) * a2 * 1 * 1 = (a3 + b3) * (a1 * a2)
    BY <1>13, <2>4
  <2>5. n.p[1] # 0
    BY <1>15
  <2> QED
    BY <1>3, <1>4, <1>15, <2>2, <2>3, <2>5, Zenon DEF a1, a2, a3, b3, a, b
<1>16. CASE n.p[1] = 2 /\ nd = 3
  <2>1. Dim(x, 1) = a1 /\ Dim(x, 2) = a2 /\ Dim(x, 3) = a3 + b3 /\ Dim(x, 4) = 1
    BY SMTT(30), <1>5, <1>7, <1>8, <1>9, <1>11, <1>16 DEF nd
  <2> HIDE DEF a1, a2, a3, b3
  <2>2. Elems(x) = a1 * a2 * (a3 + b3) * 1
    BY <1>12, <2>1, Zenon
  <2>3. a1 * a2 * (a3 + b3) * 1 = (a3 + b3) * (a1 * a2)
    BY <1>13
  <2>5. n.p[1] # 0
    BY <1>16
  <2> QED
    BY <1>3, <1>4, <1>16, <2>2, <2>3, <2>5, Zenon DEF a1, a2, a3, b3, a, b
<1>17. CASE n.p[1] = 0 /\ a3 # 1
  <2>1. n.p[1] # 2
    BY <1>17
  <2> QED
    BY <1>3, <1>17, <2>1, Zenon DEF a3, a
<1> QED
  BY <1>8, <1>14, <1>15, <1>16, <1>17

(* A shape of one or two dimensions. *)
LEMMA TwoFactors ==
  ASSUME NEW x, NEW k \in {1, 2}, DOMAIN x = 1..k, NEW u \in Nat, NEW v \in Nat, x[1] = u,
         k = 1 => v = 1, k = 2 => x[2] = v
  PROVE  Elems(x) = u * v
<1>1. k \in 0..4 /\ \A d \in 1..k : x[d] \in Int
  OBVIOUS
<1>2. Elems(x) = Volume(x)
  BY <1>1, ElemsVolume
<1>3. Dim(x, 1) = u /\ Dim(x, 2) = v /\ Dim(x, 3) = 1 /\ Dim(x, 4) = 1
  BY DEF Dim
<1>4. u * v * 1 * 1 = u * v
  OBVIOUS
<1> QED
  BY <1>2, <1>3, <1>4, Zenon DEF Volume

(* The destination of a product of two matrices. *)
LEMMA MatReach ==
  ASSUME NEW n \in NodeType, NEW m, Expected(n, m).is = "ok", Len(n.src) >= 2, n.op = "MUL_MAT",
         Flat2D(n.src[1]), Flat2D(n.src[2])
  PROVE  /\ Width(n.dst.type) * Elems(n.dst.ne) <= Span(n.dst)
         /\ Elems(n.dst.ne) = n.src[1].ne[2] * n.src[2].ne[2]
<1> DEFINE s == Views(n, m)
           a == n.src[1]
           b == n.src[2]
           outer == Broadened(SubSeq(s[1].ne, 3, Len(s[1].ne)), SubSeq(s[2].ne, 3, Len(s[2].ne)))
           rows == IF Len(s[2].ne) = 1 THEN <<>> ELSE <<s[2].ne[2]>>
           x == <<s[1].ne[2]>> \o rows \o outer
<1>1. Len(n.src) \in Nat /\ Len(n.src) >= 1
  BY SourceCount
<1>2. /\ a \in TensorType /\ b \in TensorType
      /\ s[1].ne = Shape(a) /\ s[2].ne = Shape(b)
  BY <1>1, ViewsOne, ViewsTwo
<1>3. /\ Compute(n, s).is = "ok" /\ Elems(Compute(n, s).x.ne) = Elems(n.dst.ne)
      /\ Width(n.dst.type) * Elems(n.dst.ne) <= Span(n.dst)
  BY FallbackReach DEF Special
<1>4. MatResult(n, s).is = "ok" /\ Elems(MatResult(n, s).x.ne) = Elems(n.dst.ne)
  <2>2. Compute(n, s) = MatResult(n, s)
    BY <1>3, ComputeArms
  <2> HIDE DEF s
  <2> QED
    BY <1>3, <2>2, Zenon
<1>5. ~(Len(s[1].ne) < 2) /\ Elems(x) = Elems(n.dst.ne)
  <2>1. MatResult(n, s).is = "ok"
    BY <1>4
  <2> HIDE DEF s
  <2>2. /\ ~(Len(s[1].ne) < 2)
        /\ MatResult(n, s).x = MatMul(s[1], s[2])
        /\ MatMul(s[1], s[2]).ne = x
    BY <2>1, MatShape, Zenon
  <2> HIDE DEF x
  <2> QED
    BY <1>4, <2>2, Zenon
<1>6. /\ Len(Shape(a)) = NDim(a) /\ NDim(a) \in 1..4
      /\ Len(Shape(b)) = NDim(b) /\ NDim(b) \in 1..4
      /\ \A d \in 1..NDim(a) : Shape(a)[d] = a.ne[d]
      /\ \A d \in 1..NDim(b) : Shape(b)[d] = b.ne[d]
      /\ \A d \in 1..4 : d > NDim(b) => b.ne[d] = 1
  <2> HIDE DEF a, b
  <2> QED
    BY <1>2, Shapes, Zenon
<1>7. NDim(a) = 2 /\ NDim(b) \in {1, 2}
  <2>1. (NDim(a) = 1 \/ a.ne[NDim(a)] # 1) /\ (NDim(b) = 1 \/ b.ne[NDim(b)] # 1)
    BY <1>2, NDimBig
  <2>2. a.ne[3] = 1 /\ a.ne[4] = 1 /\ b.ne[3] = 1 /\ b.ne[4] = 1
    BY DEF Flat2D
  <2>3. ~(NDim(a) < 2)
    BY <1>2, <1>5, <1>6
  <2> HIDE DEF a, b
  <2> QED
    BY <1>6, <2>1, <2>2, <2>3
<1>8. Len(s[1].ne) = 2 /\ Len(s[2].ne) = NDim(b)
  BY <1>2, <1>6, <1>7
<1>9. s[1].ne[2] = a.ne[2] /\ (NDim(b) = 2 => s[2].ne[2] = b.ne[2]) /\ (NDim(b) = 1 => b.ne[2] = 1)
  BY <1>2, <1>6, <1>7
<1>10. a.ne[2] \in Nat /\ b.ne[2] \in Nat
  BY <1>2, TensorDims
<1>11. outer = <<>>
  <2> DEFINE x1 == SubSeq(s[1].ne, 3, Len(s[1].ne))
             x2 == SubSeq(s[2].ne, 3, Len(s[2].ne))
  <2>1. x1 = <<>> /\ x2 = <<>>
    <3>1. s[1].ne \in Seq(Nat) /\ s[2].ne \in Seq(Nat)
      <4>1. Shape(a) \in [1..NDim(a) -> Nat] /\ Shape(b) \in [1..NDim(b) -> Nat]
        BY <1>2, Shapes
      <4>2. NDim(a) \in Nat /\ NDim(b) \in Nat
        BY <1>7
      <4> HIDE DEF a, b
      <4>3. Shape(a) \in Seq(Nat) /\ Shape(b) \in Seq(Nat)
        BY <4>1, <4>2, IntoSeq
      <4> QED
        BY <1>2, <4>3
    <3> HIDE DEF s
    <3> QED
      BY <1>7, <1>8, <3>1
  <2> HIDE DEF x1, x2
  <2>2. DOMAIN x1 \cup DOMAIN x2 = {}
    BY <2>1
  <2>3. outer = <<>>
    BY <2>2 DEF Broadened, x1, x2
  <2> QED
    BY <2>3
<1> DEFINE u == a.ne[2]
           v == b.ne[2]
<1>12. x = IF NDim(b) = 1 THEN <<u>> ELSE <<u, v>>
  <2> HIDE DEF outer, s, u, v, a, b, rows
  <2>1. CASE NDim(b) = 1
    <3>1. rows = <<>>
      BY <1>8, <2>1 DEF rows
    <3> QED
      BY <1>9, <1>11, <2>1, <3>1, Joined, Zenon DEF u
  <2>2. CASE NDim(b) = 2
    <3>1. rows = <<v>>
      BY <1>8, <1>9, <2>2 DEF v, rows
    <3>2. NDim(b) # 1
      BY <2>2
    <3> QED
      BY <1>9, <1>11, <3>1, <3>2, Joined, Zenon DEF u
  <2> QED
    BY <1>7, <2>1, <2>2
<1>13. Elems(x) = u * v
  <2>1. u \in Nat /\ v \in Nat
    BY <1>10
  <2> HIDE DEF x, u, v, b
  <2>2. CASE NDim(b) = 1
    <3>1. DOMAIN x = 1..1 /\ x[1] = u
      BY <1>12, <2>2
    <3>2. v = 1
      BY <1>9, <2>2 DEF v
    <3> QED
      BY <2>1, <3>1, <3>2, TwoFactors
  <2>3. CASE NDim(b) = 2
    <3>1. DOMAIN x = 1..2 /\ x[1] = u /\ x[2] = v
      BY <1>12, <2>3
    <3> QED
      BY <2>1, <3>1, TwoFactors
  <2> QED
    BY <1>7, <2>2, <2>3
<1> QED
  BY <1>3, <1>5, <1>13
================================================================================
