----------------------------- MODULE MemoryProofs -----------------------------
(***************************************************************************)
(* What the transfers do to the memories of the NPU, and what a commit of  *)
(* the deferred stores leaves in the DDR.                                  *)
(***************************************************************************)
EXTENDS GtxNpuProofs, FoldProofs

(* A row whose source lies in a memory with the addresses B. *)
RowReads(r, B) ==
  /\ r.d \in Int /\ r.s \in Int /\ r.n \in Int
  /\ \A o \in 0 .. r.n - 1 : r.s + o \in B

RowsRead(rows, n, B) == n \in Nat /\ DOMAIN rows = 1 .. n /\ \A i \in 1 .. n : RowReads(rows[i], B)

LEMMA PutRowType ==
  ASSUME NEW A \in SUBSET Int, NEW B, NEW X, NEW dst \in [A -> X], NEW src \in [B -> X],
         NEW r, RowReads(r, B)
  PROVE  /\ PutRow(dst, src, r) \in [A -> X]
         /\ \A a \in A : PutRow(dst, src, r)[a] =
                           IF a \in r.d .. (r.d + r.n - 1) THEN src[r.s + (a - r.d)] ELSE dst[a]
<1>1. ASSUME NEW a \in A, a \in r.d .. (r.d + r.n - 1) PROVE src[r.s + (a - r.d)] \in X
  <2>1. a - r.d \in 0 .. r.n - 1
    BY <1>1 DEF RowReads
  <2> QED
    BY <2>1 DEF RowReads
<1> QED
  BY <1>1 DEF PutRow

(* Copying rows, one after the other. *)
CopyChain(acc, dst, src, rows, n) ==
  acc[0] = dst /\ \A k \in 1 .. n : acc[k] = PutRow(acc[k - 1], src, rows[k])

CopyUnfolds(res, V, dst, src, rows, n) ==
  \E acc \in [0 .. n -> V] : CopyChain(acc, dst, src, rows, n) /\ res = acc[n]

LEMMA CopyRowsChain ==
  ASSUME NEW A \in SUBSET Int, NEW B, NEW X, NEW dst \in [A -> X], NEW src \in [B -> X],
         NEW rows, NEW n, RowsRead(rows, n, B)
  PROVE  CopyUnfolds(CopyRows(dst, src, rows), [A -> X], dst, src, rows, n)
<1> DEFINE V == [A -> X]
           F == [p \in V \X (1 .. n) |-> PutRow(p[1], src, rows[p[2]])]
           Table(it) == it = [s \in SUBSET (1 .. n) |->
                          IF s = {} THEN dst ELSE PutRow(it[s \ {Max(s)}], src, rows[Max(s)])]
           iter == CHOOSE it : Table(it)
<1>1. n \in Nat /\ DOMAIN rows = 1 .. n /\ \A i \in 1 .. n : RowReads(rows[i], B)
  BY DEF RowsRead
<1>2. F \in [V \X (1 .. n) -> V]
  <2>1. \A v \in V, k \in 1 .. n : PutRow(v, src, rows[k]) \in V
    BY <1>1, PutRowType
  <2> HIDE DEF V
  <2> QED
    BY <2>1
<1>3. \A s \in SUBSET (1 .. n) : s # {} => Max(s) \in 1 .. n
  BY <1>1, MaxInSet
<1>4. \A v \in V, k \in 1 .. n : F[<<v, k>>] = PutRow(v, src, rows[k])
  OBVIOUS
<1>5. \E it : Table(it)
  <2>1. PICK it : IndexFold(it, dst, F, V, n)
    <3>1. dst \in V
      OBVIOUS
    <3> HIDE DEF V, F
    <3> QED
      BY <1>1, <1>2, <3>1, FoldOfIndices
  <2>2. \A s \in SUBSET (1 .. n) : s # {} =>
          F[<<it[s \ {Max(s)}], Max(s)>>] = PutRow(it[s \ {Max(s)}], src, rows[Max(s)])
    <3> HIDE DEF V, F
    <3> QED
      BY <2>1, <1>3, <1>4 DEF IndexFold
  <2>3. Table(it)
    <3> HIDE DEF V, F
    <3> QED
      BY <2>1, <2>2 DEF IndexFold
  <2> HIDE DEF Table
  <2> QED
    BY <2>3
<1>6. Table(iter)
  <2> HIDE DEF Table
  <2> QED
    BY <1>5
<1>7. CopyRows(dst, src, rows) = iter[1 .. n]
  BY <1>1 DEF CopyRows, FoldLeft, MapThenFoldSet
<1> HIDE DEF iter
<1>8. FoldsBackwards(iter, dst, F, V, n)
  <2> HIDE DEF V, F
  <2> QED
    BY <1>3, <1>4, <1>6 DEF FoldsBackwards
<1>9. PICK acc \in [0 .. n -> V] : IsChain(acc, dst, F, n) /\ iter[1 .. n] = acc[n]
  <2>1. dst \in V
    OBVIOUS
  <2> HIDE DEF V, F
  <2>2. Unfolds(iter[1 .. n], dst, F, V, n)
    BY <1>1, <1>2, <1>8, <2>1, FoldChain
  <2> QED
    BY <2>2 DEF Unfolds
<1>10. CopyChain(acc, dst, src, rows, n)
  <2>1. \A k \in 1 .. n : k - 1 \in 0 .. n /\ acc[k - 1] \in V
    BY <1>1
  <2> HIDE DEF V, F
  <2> QED
    BY <1>4, <1>9, <2>1 DEF IsChain, CopyChain
<1> QED
  BY <1>7, <1>9, <1>10 DEF CopyUnfolds

(* A transfer leaves what no row is addressed to, and the last row that is addressed to an
   element decides what it holds. *)
OutsideRow(a, r) == a \notin r.d .. (r.d + r.n - 1)

CopyFacts(res, A, X, dst, src, rows, n) ==
  /\ res \in [A -> X]
  /\ \A a \in A : (\A i \in 1 .. n : OutsideRow(a, rows[i])) => res[a] = dst[a]
  /\ \A a \in A, k \in 1 .. n :
       ~OutsideRow(a, rows[k]) /\ (\A i \in k + 1 .. n : OutsideRow(a, rows[i])) =>
         res[a] = src[rows[k].s + (a - rows[k].d)]

LEMMA CopyRowsFacts ==
  ASSUME NEW A \in SUBSET Int, NEW B, NEW X, NEW dst \in [A -> X], NEW src \in [B -> X],
         NEW rows, NEW n, RowsRead(rows, n, B)
  PROVE  CopyFacts(CopyRows(dst, src, rows), A, X, dst, src, rows, n)
<1> DEFINE V == [A -> X]
           res == CopyRows(dst, src, rows)
<1>1. PICK acc \in [0 .. n -> V] : CopyChain(acc, dst, src, rows, n) /\ res = acc[n]
  <2>1. CopyUnfolds(res, V, dst, src, rows, n)
    BY CopyRowsChain
  <2> QED
    BY <2>1 DEF CopyUnfolds
<1>2. n \in Nat /\ \A i \in 1 .. n : RowReads(rows[i], B)
  BY DEF RowsRead
<1>3. acc[0] = dst /\ \A k \in 1 .. n : /\ acc[k - 1] \in V
                                        /\ acc[k] = PutRow(acc[k - 1], src, rows[k])
  BY <1>1, <1>2 DEF CopyChain
<1>4. ASSUME NEW k \in 1 .. n, NEW a \in A
      PROVE  acc[k][a] = IF OutsideRow(a, rows[k]) THEN acc[k - 1][a] ELSE src[rows[k].s + (a - rows[k].d)]
  <2>1. RowReads(rows[k], B) /\ acc[k - 1] \in [A -> X] /\ acc[k] = PutRow(acc[k - 1], src, rows[k])
    BY <1>2, <1>3
  <2>2. \A b \in A : PutRow(acc[k - 1], src, rows[k])[b] =
                       IF b \in rows[k].d .. (rows[k].d + rows[k].n - 1)
                       THEN src[rows[k].s + (b - rows[k].d)] ELSE acc[k - 1][b]
    BY <2>1, PutRowType
  <2> QED
    BY <2>1, <2>2 DEF OutsideRow
<1>5. ASSUME NEW a \in A, NEW k \in 0 .. n, \A i \in k + 1 .. n : OutsideRow(a, rows[i])
      PROVE  acc[n][a] = acc[k][a]
  <2> DEFINE T == {j \in 0 .. n - k : acc[k + j][a] = acc[k][a]}
  <2>1. 0 \in T
    BY <1>2
  <2>2. ASSUME NEW j \in 0 .. (n - k) - 1, j \in T PROVE j + 1 \in T
    <3>1. k + (j + 1) \in 1 .. n /\ k + (j + 1) \in k + 1 .. n /\ (k + (j + 1)) - 1 = k + j
      BY <1>2
    <3>2. acc[k + (j + 1)][a] = acc[k + j][a]
      BY <1>4, <1>5, <3>1
    <3> QED
      BY <2>2, <3>2, <1>2
  <2>3. n - k \in Nat /\ n - k \in 0 .. n - k /\ k + (n - k) = n
    BY <1>2
  <2>4. 0 .. n - k \subseteq T
    <3> HIDE DEF T
    <3> QED
      BY <2>1, <2>2, <2>3, UpToInduction
  <2> QED
    BY <2>3, <2>4
<1>6. res \in V
  BY <1>1, <1>2
<1>7. \A a \in A : (\A i \in 1 .. n : OutsideRow(a, rows[i])) => res[a] = dst[a]
  <2> TAKE a \in A
  <2> HAVE \A i \in 1 .. n : OutsideRow(a, rows[i])
  <2>1. 0 \in 0 .. n /\ 0 + 1 = 1
    BY <1>2
  <2>2. acc[n][a] = acc[0][a]
    BY <2>1, <1>5
  <2> QED
    BY <2>2, <1>1, <1>3
<1>8. \A a \in A, k \in 1 .. n :
        ~OutsideRow(a, rows[k]) /\ (\A i \in k + 1 .. n : OutsideRow(a, rows[i])) =>
          res[a] = src[rows[k].s + (a - rows[k].d)]
  <2> TAKE a \in A, k \in 1 .. n
  <2> HAVE ~OutsideRow(a, rows[k]) /\ (\A i \in k + 1 .. n : OutsideRow(a, rows[i]))
  <2>1. acc[n][a] = acc[k][a]
    BY <1>5, <1>2
  <2>2. acc[k][a] = src[rows[k].s + (a - rows[k].d)]
    BY <1>4
  <2> QED
    BY <2>1, <2>2, <1>1
<1> QED
  BY <1>6, <1>7, <1>8 DEF CopyFacts

(* Moving rows within one memory, one after the other. *)
MoveChain(acc, mem, rows, n) ==
  acc[0] = mem /\ \A k \in 1 .. n : acc[k] = PutRow(acc[k - 1], acc[k - 1], rows[k])

MoveUnfolds(res, V, mem, rows, n) ==
  \E acc \in [0 .. n -> V] : MoveChain(acc, mem, rows, n) /\ res = acc[n]

LEMMA MoveRowsChain ==
  ASSUME NEW A \in SUBSET Int, NEW X, NEW mem \in [A -> X], NEW rows, NEW n, RowsRead(rows, n, A)
  PROVE  MoveUnfolds(MoveRows(mem, rows), [A -> X], mem, rows, n)
<1> DEFINE T == [A -> X]
           F == [p \in T \X (1 .. n) |-> PutRow(p[1], p[1], rows[p[2]])]
           Table(it) == it = [s \in SUBSET (1 .. n) |->
                          IF s = {} THEN mem ELSE PutRow(it[s \ {Max(s)}], it[s \ {Max(s)}], rows[Max(s)])]
           iter == CHOOSE it : Table(it)
<1>1. n \in Nat /\ DOMAIN rows = 1 .. n /\ \A i \in 1 .. n : RowReads(rows[i], A)
  BY DEF RowsRead
<1>2. mem \in T
  OBVIOUS
<1>3. F \in [T \X (1 .. n) -> T]
  <2>1. \A v \in T, k \in 1 .. n : PutRow(v, v, rows[k]) \in T
    BY <1>1, PutRowType
  <2> HIDE DEF T
  <2> QED
    BY <2>1
<1>4. \A s \in SUBSET (1 .. n) : s # {} => Max(s) \in 1 .. n
  BY <1>1, MaxInSet
<1>5. \A v \in T, k \in 1 .. n : F[<<v, k>>] = PutRow(v, v, rows[k])
  OBVIOUS
<1>6. \E it : Table(it)
  <2>1. PICK it : IndexFold(it, mem, F, T, n)
    <3> HIDE DEF T, F
    <3> QED
      BY <1>1, <1>2, <1>3, FoldOfIndices
  <2>2. \A s \in SUBSET (1 .. n) : s # {} =>
          F[<<it[s \ {Max(s)}], Max(s)>>] = PutRow(it[s \ {Max(s)}], it[s \ {Max(s)}], rows[Max(s)])
    <3> HIDE DEF T, F
    <3> QED
      BY <2>1, <1>4, <1>5 DEF IndexFold
  <2>3. Table(it)
    <3> HIDE DEF T, F
    <3> QED
      BY <2>1, <2>2 DEF IndexFold
  <2> HIDE DEF Table
  <2> QED
    BY <2>3
<1>7. Table(iter)
  <2> HIDE DEF Table
  <2> QED
    BY <1>6
<1>8. MoveRows(mem, rows) = iter[1 .. n]
  BY <1>1 DEF MoveRows, FoldLeft, MapThenFoldSet
<1> HIDE DEF iter
<1>9. FoldsBackwards(iter, mem, F, T, n)
  <2> HIDE DEF T, F
  <2> QED
    BY <1>4, <1>5, <1>7 DEF FoldsBackwards
<1>10. PICK acc \in [0 .. n -> T] : IsChain(acc, mem, F, n) /\ iter[1 .. n] = acc[n]
  <2> HIDE DEF T, F
  <2>1. Unfolds(iter[1 .. n], mem, F, T, n)
    BY <1>1, <1>2, <1>3, <1>9, FoldChain
  <2> QED
    BY <2>1 DEF Unfolds
<1>11. MoveChain(acc, mem, rows, n)
  <2>1. \A k \in 1 .. n : k - 1 \in 0 .. n /\ acc[k - 1] \in T
    BY <1>1
  <2> HIDE DEF T, F
  <2> QED
    BY <1>5, <1>10, <2>1 DEF IsChain, MoveChain
<1> QED
  BY <1>8, <1>10, <1>11 DEF MoveUnfolds

LEMMA MoveRowsType ==
  ASSUME NEW A \in SUBSET Int, NEW X, NEW mem \in [A -> X], NEW rows, NEW n, RowsRead(rows, n, A)
  PROVE  MoveRows(mem, rows) \in [A -> X]
<1>1. MoveUnfolds(MoveRows(mem, rows), [A -> X], mem, rows, n)
  BY MoveRowsChain
<1>2. n \in Nat
  BY DEF RowsRead
<1> QED
  BY <1>1, <1>2 DEF MoveUnfolds

(* Spreading rows over the selected NESTs, one after the other. *)
SpreadChain(acc, mem2, from, mask, rows, n) ==
  acc[0] = mem2 /\ \A k \in 1 .. n : acc[k] = SpreadRow(acc[k - 1], from, mask, rows[k])

SpreadUnfolds(res, V, mem2, from, mask, rows, n) ==
  \E acc \in [0 .. n -> V] : SpreadChain(acc, mem2, from, mask, rows, n) /\ res = acc[n]

LEMMA SpreadRowsChain ==
  ASSUME NEW mem2 \in [Nests -> L2Mem], NEW from \in Nests, NEW mask, NEW rows, NEW n,
         RowsRead(rows, n, 0 .. (L2Size - 1))
  PROVE  SpreadUnfolds(SpreadRows(mem2, from, mask, rows), [Nests -> L2Mem], mem2, from, mask, rows, n)
<1> DEFINE T == [Nests -> L2Mem]
           F == [p \in T \X (1 .. n) |-> SpreadRow(p[1], from, mask, rows[p[2]])]
           Table(it) == it = [s \in SUBSET (1 .. n) |->
                          IF s = {} THEN mem2 ELSE SpreadRow(it[s \ {Max(s)}], from, mask, rows[Max(s)])]
           iter == CHOOSE it : Table(it)
<1>1. n \in Nat /\ DOMAIN rows = 1 .. n /\ \A i \in 1 .. n : RowReads(rows[i], 0 .. (L2Size - 1))
  BY DEF RowsRead
<1>2. mem2 \in T
  OBVIOUS
<1>3. F \in [T \X (1 .. n) -> T]
  <2>1. \A v \in T, k \in 1 .. n : SpreadRow(v, from, mask, rows[k]) \in T
    <3> TAKE v \in T, k \in 1 .. n
    <3>1. 0 .. (L2Size - 1) \in SUBSET Int /\ RowReads(rows[k], 0 .. (L2Size - 1))
      BY <1>1
    <3>2. \A m \in Nests : v[m] \in [0 .. (L2Size - 1) -> Val]
      BY DEF L2Mem
    <3>3. \A m \in Nests : PutRow(v[m], v[from], rows[k]) \in [0 .. (L2Size - 1) -> Val]
      BY <3>1, <3>2, PutRowType
    <3> QED
      BY <3>3 DEF SpreadRow, L2Mem
  <2> HIDE DEF T
  <2> QED
    BY <2>1
<1>4. \A s \in SUBSET (1 .. n) : s # {} => Max(s) \in 1 .. n
  BY <1>1, MaxInSet
<1>5. \A v \in T, k \in 1 .. n : F[<<v, k>>] = SpreadRow(v, from, mask, rows[k])
  OBVIOUS
<1>6. \E it : Table(it)
  <2>1. PICK it : IndexFold(it, mem2, F, T, n)
    <3> HIDE DEF T, F
    <3> QED
      BY <1>1, <1>2, <1>3, FoldOfIndices
  <2>2. \A s \in SUBSET (1 .. n) : s # {} =>
          F[<<it[s \ {Max(s)}], Max(s)>>] = SpreadRow(it[s \ {Max(s)}], from, mask, rows[Max(s)])
    <3> HIDE DEF T, F
    <3> QED
      BY <2>1, <1>4, <1>5 DEF IndexFold
  <2>3. Table(it)
    <3> HIDE DEF T, F
    <3> QED
      BY <2>1, <2>2 DEF IndexFold
  <2> HIDE DEF Table
  <2> QED
    BY <2>3
<1>7. Table(iter)
  <2> HIDE DEF Table
  <2> QED
    BY <1>6
<1>8. SpreadRows(mem2, from, mask, rows) = iter[1 .. n]
  BY <1>1 DEF SpreadRows, FoldLeft, MapThenFoldSet
<1> HIDE DEF iter
<1>9. FoldsBackwards(iter, mem2, F, T, n)
  <2> HIDE DEF T, F
  <2> QED
    BY <1>4, <1>5, <1>7 DEF FoldsBackwards
<1>10. PICK acc \in [0 .. n -> T] : IsChain(acc, mem2, F, n) /\ iter[1 .. n] = acc[n]
  <2> HIDE DEF T, F
  <2>1. Unfolds(iter[1 .. n], mem2, F, T, n)
    BY <1>1, <1>2, <1>3, <1>9, FoldChain
  <2> QED
    BY <2>1 DEF Unfolds
<1>11. SpreadChain(acc, mem2, from, mask, rows, n)
  <2>1. \A k \in 1 .. n : k - 1 \in 0 .. n /\ acc[k - 1] \in T
    BY <1>1
  <2> HIDE DEF T, F
  <2> QED
    BY <1>5, <1>10, <2>1 DEF IsChain, SpreadChain
<1> QED
  BY <1>8, <1>10, <1>11 DEF SpreadUnfolds

LEMMA SpreadRowsType ==
  ASSUME NEW mem2 \in [Nests -> L2Mem], NEW from \in Nests, NEW mask, NEW rows, NEW n,
         RowsRead(rows, n, 0 .. (L2Size - 1))
  PROVE  SpreadRows(mem2, from, mask, rows) \in [Nests -> L2Mem]
<1>1. SpreadUnfolds(SpreadRows(mem2, from, mask, rows), [Nests -> L2Mem], mem2, from, mask, rows, n)
  BY SpreadRowsChain
<1>2. n \in Nat
  BY DEF RowsRead
<1> QED
  BY <1>1, <1>2 DEF SpreadUnfolds

-----------------------------------------------------------------------------
(* The rows of the transfers lie in the memories they read. *)
LEMMA MinOfThree ==
  ASSUME NEW a \in Int, NEW b \in Int, NEW c \in Int
  PROVE  /\ Min({a, b, c}) \in Int
         /\ Min({a, b, c}) <= a /\ Min({a, b, c}) <= b /\ Min({a, b, c}) <= c
<1>1. \E x \in {a, b, c} : \A y \in {a, b, c} : x <= y
  OBVIOUS
<1>2. Min({a, b, c}) \in {a, b, c} /\ \A y \in {a, b, c} : Min({a, b, c}) <= y
  BY <1>1 DEF Min
<1> QED
  BY <1>2

LEMMA MinOfTwo ==
  ASSUME NEW a \in Int, NEW b \in Int
  PROVE  Min({a, b}) \in Int /\ Min({a, b}) <= a /\ Min({a, b}) <= b
<1>1. \E x \in {a, b} : \A y \in {a, b} : x <= y
  OBVIOUS
<1>2. Min({a, b}) \in {a, b} /\ \A y \in {a, b} : Min({a, b}) <= y
  BY <1>1 DEF Min
<1> QED
  BY <1>2

(* An address that wraps round the end of L2. *)
LEMMA WrapInL2 ==
  ASSUME NEW x \in Int
  PROVE  x % L2Size \in 0 .. (L2Size - 1)
BY SizeAssumption

LEMMA StepType ==
  ASSUME NEW off \in Nat, NEW stride \in Nat, NEW i \in Nat \ {0}
  PROVE  off + (i - 1) * stride \in Nat
<1>1. \A x, y \in Nat : x * y \in Nat
  OBVIOUS
<1>2. (i - 1) * stride \in Nat
  BY <1>1
<1> QED
  BY <1>2

LEMMA StoreRowsRead ==
  ASSUME NEW r \in DeferredDdrStores
  PROVE  RowsRead(StoreRows(r), r.height, 0 .. (L2Size - 1))
<1>1. /\ r.l2_off \in Nat /\ r.ddr_off \in Nat /\ r.length \in Nat /\ r.height \in Nat
      /\ r.l2_stride \in Nat /\ r.ddr_stride \in Nat
  BY DEF DeferredDdrStores
<1>2. ASSUME NEW i \in 1 .. r.height
      PROVE  RowReads(StoreRows(r)[i], 0 .. (L2Size - 1))
  <2>1. PICK d \in Nat : d = r.ddr_off + (i - 1) * r.ddr_stride
    BY <1>1, StepType
  <2>2. PICK s \in 0 .. (L2Size - 1) : s = (r.l2_off + (i - 1) * r.l2_stride) % L2Size
    BY <1>1, StepType, WrapInL2
  <2>3. PICK n : n = Min({r.length, DdrSize - d, L2Size - s})
    OBVIOUS
  <2>4. n \in Int /\ n <= L2Size - s
    <3>1. r.length \in Int /\ DdrSize - d \in Int /\ L2Size - s \in Int
      BY <1>1, <2>1, <2>2, SizeAssumption
    <3> QED
      BY <2>3, <3>1, MinOfThree
  <2>5. StoreRows(r)[i] = [d |-> d, s |-> s, n |-> n]
    BY <2>1, <2>2, <2>3 DEF StoreRows
  <2> QED
    BY <2>1, <2>2, <2>4, <2>5, SizeAssumption DEF RowReads
<1>3. DOMAIN StoreRows(r) = 1 .. r.height
  BY DEF StoreRows
<1> QED
  BY <1>1, <1>2, <1>3 DEF RowsRead

(* A strided block that ends inside the memory it is read from. *)
LEMMA GridRead ==
  ASSUME NEW d0 \in Nat, NEW dst \in Nat, NEW s0 \in Nat, NEW sst \in Nat, NEW h \in Nat, NEW len \in Nat,
         NEW size \in Nat, s0 + (h - 1) * sst + len <= size
  PROVE  RowsRead(Grid(d0, dst, s0, sst, h, len), h, 0 .. (size - 1))
<1>1. DOMAIN Grid(d0, dst, s0, sst, h, len) = 1 .. h
  BY DEF Grid
<1>2. ASSUME NEW i \in 1 .. h
      PROVE  RowReads(Grid(d0, dst, s0, sst, h, len)[i], 0 .. (size - 1))
  <2>1. PICK d \in Nat : d = d0 + (i - 1) * dst
    BY StepType
  <2>2. PICK s \in Nat : s = s0 + (i - 1) * sst
    BY StepType
  <2>3. s <= s0 + (h - 1) * sst
    <3>1. \A x, y, z \in Nat : x <= y => x * z <= y * z
      OBVIOUS
    <3>2. i - 1 \in Nat /\ h - 1 \in Nat /\ i - 1 <= h - 1
      OBVIOUS
    <3>3. (i - 1) * sst <= (h - 1) * sst
      BY <3>1, <3>2
    <3> QED
      BY <2>2, <3>3
  <2>4. Grid(d0, dst, s0, sst, h, len)[i] = [d |-> d, s |-> s, n |-> len]
    BY <2>1, <2>2 DEF Grid
  <2>5. s + len <= size
    <3>1. PICK e \in Int : e = (h - 1) * sst
      OBVIOUS
    <3> QED
      BY <2>2, <2>3, <3>1
  <2> QED
    BY <2>1, <2>2, <2>4, <2>5 DEF RowReads
<1> QED
  BY <1>1, <1>2 DEF RowsRead

-----------------------------------------------------------------------------
(* The commit of the queue, up to the first store that raises. *)
Committed ==
  LET bad == SelectInSeq(deferred_ddr_stores, Uncommittable)
  IN IF bad = 0 THEN Len(deferred_ddr_stores) ELSE bad - 1

LEMMA CommittedPrefix ==
  ASSUME QueueTypeOK
  PROVE  /\ Committed \in 0 .. Len(deferred_ddr_stores)
         /\ ~FlushFails => Committed = Len(deferred_ddr_stores)
         /\ DOMAIN SubSeq(deferred_ddr_stores, 1, Committed) = 1 .. Committed
         /\ \A i \in 1 .. Committed :
              /\ SubSeq(deferred_ddr_stores, 1, Committed)[i] = deferred_ddr_stores[i]
              /\ deferred_ddr_stores[i] \in DeferredDdrStores
<1> DEFINE q == deferred_ddr_stores
           I == {i \in 1 .. Len(q) : Uncommittable(q[i])}
<1>1. q \in Seq(DeferredDdrStores) /\ Len(q) \in Nat /\ DOMAIN q = 1 .. Len(q)
  BY DEF QueueTypeOK
<1>2. FlushFails <=> I # {}
  BY <1>1 DEF FlushFails
<1>3. Committed = IF I # {} THEN (IF Min(I) = 0 THEN Len(q) ELSE Min(I) - 1) ELSE Len(q)
  BY DEF Committed, SelectInSeq
<1>4. I # {} => Min(I) \in 1 .. Len(q)
  <2>1. I \in SUBSET (1 .. Len(q))
    OBVIOUS
  <2> HIDE DEF I
  <2> QED
    BY <1>1, <2>1, MinInSet
<1>5. Committed \in 0 .. Len(q) /\ (~FlushFails => Committed = Len(q))
  <2> HIDE DEF I, q
  <2> QED
    BY <1>1, <1>2, <1>3, <1>4
<1>6. PICK n \in 0 .. Len(q) : n = Committed
  BY <1>5
<1>7. /\ DOMAIN SubSeq(q, 1, n) = 1 .. n
      /\ \A i \in 1 .. n : SubSeq(q, 1, n)[i] = q[i] /\ q[i] \in DeferredDdrStores
  <2> HIDE DEF q
  <2> QED
    BY <1>1, <1>6
<1> QED
  BY <1>5, <1>6, <1>7

(* One store after the other. *)
CommitSteps(acc, memory2, memory0, todo, n) ==
  acc[0] = memory0 /\ \A k \in 1 .. n : acc[k] = CopyRows(acc[k - 1], memory2[todo[k].nest], StoreRows(todo[k]))

CommitUnfolds(res, V, memory2, memory0, todo, n) ==
  \E acc \in [0 .. n -> V] : CommitSteps(acc, memory2, memory0, todo, n) /\ res = acc[n]

LEMMA CommitChain ==
  ASSUME NEW memory2 \in [Nests -> L2Mem], NEW memory0 \in DdrMem, NEW todo, NEW n \in Nat,
         DOMAIN todo = 1 .. n, \A i \in 1 .. n : todo[i] \in DeferredDdrStores
  PROVE  CommitUnfolds(FoldLeft(LAMBDA m, r : CopyRows(m, memory2[r.nest], StoreRows(r)), memory0, todo), DdrMem, memory2, memory0, todo, n)
<1> DEFINE T == DdrMem
           F == [p \in T \X (1 .. n) |-> CopyRows(p[1], memory2[todo[p[2]].nest], StoreRows(todo[p[2]]))]
           Table(it) == it = [s \in SUBSET (1 .. n) |->
                          IF s = {} THEN memory0 ELSE CopyRows(it[s \ {Max(s)}], memory2[todo[Max(s)].nest], StoreRows(todo[Max(s)]))]
           iter == CHOOSE it : Table(it)
<1>1. n \in Nat /\ DOMAIN todo = 1 .. n /\ \A i \in 1 .. n : todo[i] \in DeferredDdrStores
  OBVIOUS
<1>2. memory0 \in T
  OBVIOUS
<1>3. F \in [T \X (1 .. n) -> T]
  <2>1. \A v \in T, k \in 1 .. n : CopyRows(v, memory2[todo[k].nest], StoreRows(todo[k])) \in T
    <3> TAKE v \in T, k \in 1 .. n
    <3>1. RowsRead(StoreRows(todo[k]), todo[k].height, 0 .. (L2Size - 1)) /\ todo[k].nest \in Nests
      BY <1>1, StoreRowsRead DEF DeferredDdrStores
    <3>2. /\ v \in [0 .. (DdrSize - 1) -> Val] /\ memory2[todo[k].nest] \in [0 .. (L2Size - 1) -> Val]
          /\ 0 .. (DdrSize - 1) \in SUBSET Int
      BY <3>1 DEF DdrMem, L2Mem
    <3>3. CopyFacts(CopyRows(v, memory2[todo[k].nest], StoreRows(todo[k])), 0 .. (DdrSize - 1), Val,
                    v, memory2[todo[k].nest], StoreRows(todo[k]), todo[k].height)
      BY <3>1, <3>2, CopyRowsFacts
    <3> QED
      BY <3>3 DEF CopyFacts, DdrMem
  <2> HIDE DEF T
  <2> QED
    BY <2>1
<1>4. \A s \in SUBSET (1 .. n) : s # {} => Max(s) \in 1 .. n
  BY <1>1, MaxInSet
<1>5. \A v \in T, k \in 1 .. n : F[<<v, k>>] = CopyRows(v, memory2[todo[k].nest], StoreRows(todo[k]))
  OBVIOUS
<1>6. \E it : Table(it)
  <2>1. PICK it : IndexFold(it, memory0, F, T, n)
    <3> HIDE DEF T, F
    <3> QED
      BY <1>1, <1>2, <1>3, FoldOfIndices
  <2>2. \A s \in SUBSET (1 .. n) : s # {} =>
          F[<<it[s \ {Max(s)}], Max(s)>>] = CopyRows(it[s \ {Max(s)}], memory2[todo[Max(s)].nest], StoreRows(todo[Max(s)]))
    <3> HIDE DEF T, F
    <3> QED
      BY <2>1, <1>4, <1>5 DEF IndexFold
  <2>3. Table(it)
    <3> HIDE DEF T, F
    <3> QED
      BY <2>1, <2>2 DEF IndexFold
  <2> HIDE DEF Table
  <2> QED
    BY <2>3
<1>7. Table(iter)
  <2> HIDE DEF Table
  <2> QED
    BY <1>6
<1>8. FoldLeft(LAMBDA m, r : CopyRows(m, memory2[r.nest], StoreRows(r)), memory0, todo) = iter[1 .. n]
  BY <1>1 DEF FoldLeft, MapThenFoldSet
<1> HIDE DEF iter
<1>9. FoldsBackwards(iter, memory0, F, T, n)
  <2> HIDE DEF T, F
  <2> QED
    BY <1>4, <1>5, <1>7 DEF FoldsBackwards
<1>10. PICK acc \in [0 .. n -> T] : IsChain(acc, memory0, F, n) /\ iter[1 .. n] = acc[n]
  <2> HIDE DEF T, F
  <2>1. Unfolds(iter[1 .. n], memory0, F, T, n)
    BY <1>1, <1>2, <1>3, <1>9, FoldChain
  <2> QED
    BY <2>1 DEF Unfolds
<1>11. CommitSteps(acc, memory2, memory0, todo, n)
  <2>1. \A k \in 1 .. n : k - 1 \in 0 .. n /\ acc[k - 1] \in T
    BY <1>1
  <2> HIDE DEF T, F
  <2> QED
    BY <1>5, <1>10, <2>1 DEF IsChain, CommitSteps
<1> QED
  BY <1>8, <1>10, <1>11 DEF CommitUnfolds

LEMMA FlushedUnfolds ==
  ASSUME QueueTypeOK, ddr \in DdrMem, NEW memory2 \in [Nests -> L2Mem]
  PROVE  /\ CommitUnfolds(Flushed(memory2), DdrMem, memory2, ddr,
                          SubSeq(deferred_ddr_stores, 1, Committed), Committed)
         /\ Flushed(memory2) \in DdrMem
<1> DEFINE todo == SubSeq(deferred_ddr_stores, 1, Committed)
<1>1. PICK n \in Nat : n = Committed
  BY CommittedPrefix DEF QueueTypeOK
<1>2. DOMAIN todo = 1 .. n /\ \A i \in 1 .. n : todo[i] \in DeferredDdrStores
  BY <1>1, CommittedPrefix
<1>3. Flushed(memory2) = FoldLeft(LAMBDA m, r : CopyRows(m, memory2[r.nest], StoreRows(r)), ddr, todo)
  BY DEF Flushed, Committed
<1> HIDE DEF todo
<1>4. CommitUnfolds(FoldLeft(LAMBDA m, r : CopyRows(m, memory2[r.nest], StoreRows(r)), ddr, todo),
                    DdrMem, memory2, ddr, todo, n)
  BY <1>2, CommitChain
<1>5. CommitUnfolds(Flushed(memory2), DdrMem, memory2, ddr, todo, n)
  BY <1>3, <1>4
<1>6. Flushed(memory2) \in DdrMem
  BY <1>5 DEF CommitUnfolds
<1> QED
  BY <1>1, <1>5, <1>6 DEF todo

-----------------------------------------------------------------------------
(* A T-loop instruction keeps the bank it works on well typed. *)
Banks == [l1 : L1Mem, l2 : L2Mem, addr : Anchors]

(* Anchors from which no vector of the firmware leaves L1. *)
AnchorsFit(addr) ==
  /\ addr \in Anchors
  /\ \A i \in Fw.vec : addr.a + i[2].n <= L1Size /\ addr.b + i[2].n <= L1Size /\ addr.r + i[2].n <= L1Size

(* An entry the firmware may have captured. *)
EntryFits(e) ==
  e \in TLoopEntries /\ <<e.mnemonic, e.arg>> \in TLoopInsns /\ AnchorsFit(e.addr)

(* What an instruction of the firmware's alphabet may carry. *)
LEMMA InsnOperands ==
  ASSUME NEW m, NEW arg, <<m, arg>> \in TLoopInsns
  PROVE  /\ m \in {"load", "store", "copy"} => arg \in DmaArgs
         /\ m \in {"load", "store"} => TLoopWindow(arg)
         /\ m \in UnaryOps \cup {"add.vv", "add.vs"} => <<m, arg>> \in Fw.vec /\ arg \in VecArgs
<1>1. CASE <<m, arg>> \in Fw.tdma
  <2> DEFINE i == <<m, arg>>
  <2>1. i[1] = m /\ i[2] = arg
    OBVIOUS
  <2>2. i[1] \in {"load", "store", "copy"} /\ i[2] \in DmaArgs /\ (i[1] # "copy" => TLoopWindow(i[2]))
    BY <1>1, FirmwareAssumption
  <2> QED
    BY <2>1, <2>2, ElementAssumption
<1>2. CASE <<m, arg>> \in Fw.vec
  <2> DEFINE i == <<m, arg>>
  <2>1. i[1] = m /\ i[2] = arg
    OBVIOUS
  <2>2. i[1] \in UnaryOps \cup {"add.vv", "add.vs"} /\ i[2] \in VecArgs
    BY <1>2, FirmwareAssumption
  <2> QED
    BY <1>2, <2>1, <2>2, ElementAssumption
<1>3. CASE m \in {"credit.ld", "credit.st"}
  BY <1>3, ElementAssumption
<1> QED
  BY <1>1, <1>2, <1>3 DEF TLoopInsns

LEMMA OneRowLess ==
  ASSUME NEW h \in Int, NEW x \in Int
  PROVE  h * x = (h - 1) * x + x
OBVIOUS

(* The windows of a T-loop transfer, as the last row's. *)
LEMMA WindowRows ==
  ASSUME NEW d \in DmaArgs, TLoopWindow(d)
  PROVE  /\ d.hi + (d.h - 1) * d.st + d.len <= L2Size
         /\ d.lo + (d.h - 1) * d.len + d.len <= L1Size
<1>1. d.hi \in Nat /\ d.lo \in Nat /\ d.st \in Nat /\ d.len \in Nat /\ d.h \in Nat \ {0}
  BY DEF DmaArgs
<1>2. \A h, x \in Int : h * x = (h - 1) * x + x
  BY OneRowLess
<1>3. d.h * d.st = (d.h - 1) * d.st + d.st /\ d.h * d.len = (d.h - 1) * d.len + d.len
  <2>1. PICK h, s, l \in Int : h = d.h /\ s = d.st /\ l = d.len
    BY <1>1
  <2>2. h * s = (h - 1) * s + s /\ h * l = (h - 1) * l + l
    BY <1>2
  <2> QED
    BY <2>1, <2>2
<1>4. \A x, y \in Int : x * y \in Int
  OBVIOUS
<1>5. PICK p, q \in Int : p = (d.h - 1) * d.st /\ q = (d.h - 1) * d.len
  BY <1>1, <1>4
<1>6. d.h * d.st = p + d.st /\ d.h * d.len = q + d.len
  BY <1>3, <1>5
<1>7. /\ d.lo + (q + d.len) <= L1Size
      /\ IF d.st < d.len THEN d.hi + p + d.len <= L2Size ELSE d.hi + (p + d.st) <= L2Size
  BY <1>5, <1>6 DEF TLoopWindow
<1>8. d.hi + p + d.len <= L2Size /\ d.lo + q + d.len <= L1Size
  BY <1>1, <1>5, <1>7, SizeAssumption
<1> QED
  BY <1>5, <1>8

LEMMA LoadType ==
  ASSUME NEW d \in DmaArgs, TLoopWindow(d), NEW b \in Banks
  PROVE  TLoad(d, b) \in Banks
<1> DEFINE rows == Grid(d.lo, d.len, d.hi, d.st, d.h, d.len)
<1>1. RowsRead(rows, d.h, 0 .. (L2Size - 1))
  BY WindowRows, GridRead, SizeAssumption DEF DmaArgs
<1>2. /\ b.l1 \in [0 .. (L1Size - 1) -> Val] /\ b.l2 \in [0 .. (L2Size - 1) -> Val]
      /\ 0 .. (L1Size - 1) \in SUBSET Int
  BY DEF Banks, L1Mem, L2Mem
<1> HIDE DEF rows
<1>3. CopyFacts(CopyRows(b.l1, b.l2, rows), 0 .. (L1Size - 1), Val, b.l1, b.l2, rows, d.h)
  BY <1>1, <1>2, CopyRowsFacts
<1>4. CopyRows(b.l1, b.l2, rows) \in L1Mem
  BY <1>3 DEF CopyFacts, L1Mem
<1> QED
  BY <1>4 DEF TLoad, Banks, rows

LEMMA StoreType ==
  ASSUME NEW d \in DmaArgs, TLoopWindow(d), NEW b \in Banks
  PROVE  TStore(d, b) \in Banks
<1> DEFINE rows == Grid(d.hi, d.st, d.lo, d.len, d.h, d.len)
<1>1. RowsRead(rows, d.h, 0 .. (L1Size - 1))
  BY WindowRows, GridRead, SizeAssumption DEF DmaArgs
<1>2. /\ b.l1 \in [0 .. (L1Size - 1) -> Val] /\ b.l2 \in [0 .. (L2Size - 1) -> Val]
      /\ 0 .. (L2Size - 1) \in SUBSET Int
  BY DEF Banks, L1Mem, L2Mem
<1> HIDE DEF rows
<1>3. CopyFacts(CopyRows(b.l2, b.l1, rows), 0 .. (L2Size - 1), Val, b.l2, b.l1, rows, d.h)
  BY <1>1, <1>2, CopyRowsFacts
<1>4. CopyRows(b.l2, b.l1, rows) \in L2Mem
  BY <1>3 DEF CopyFacts, L2Mem
<1> QED
  BY <1>4 DEF TStore, Banks, rows

LEMMA CopyType ==
  ASSUME NEW d \in DmaArgs, NEW b \in Banks
  PROVE  TCopy(d, b) \in Banks
<1>1. b.l1 \in [0 .. (L1Size - 1) -> Val] /\ DOMAIN b.l1 = 0 .. (L1Size - 1)
  BY DEF Banks, L1Mem
<1>2. Cardinality(DOMAIN b.l1) = L1Size
  <2>1. Cardinality(0 .. (L1Size - 1)) = (L1Size - 1) - 0 + 1
    BY SizeAssumption, FS_Interval
  <2> QED
    BY <1>1, <2>1, SizeAssumption
<1>3. PICK n \in Nat : n = d.h * d.len
  <2>1. \A x, y \in Nat : x * y \in Nat
    OBVIOUS
  <2> QED
    BY <2>1 DEF DmaArgs
<1> DEFINE offsets(a) == {o \in 0 .. (n - 1) : (d.hi + o) % L1Size = a}
<1>4. ASSUME NEW a, offsets(a) # {}
      PROVE  (d.lo + Max(offsets(a))) % L1Size \in 0 .. (L1Size - 1)
  <2>1. n # 0 /\ offsets(a) \in SUBSET (0 .. n - 1)
    <3>1. n = 0 => 0 .. (n - 1) = {}
      OBVIOUS
    <3> QED
      BY <1>4, <3>1
  <2>2. Max(offsets(a)) \in offsets(a)
    <3>1. n - 1 \in Nat
      BY <2>1
    <3> HIDE DEF offsets
    <3> QED
      BY <1>4, <2>1, <3>1, MaxFromZero
  <2>3. PICK x \in Int : x = d.lo + Max(offsets(a))
    <3>1. Max(offsets(a)) \in Int
      <4> HIDE DEF offsets
      <4> QED
        BY <2>1, <2>2
    <3> HIDE DEF offsets
    <3> QED
      BY <3>1 DEF DmaArgs
  <2>4. x % L1Size \in 0 .. (L1Size - 1)
    BY SizeAssumption
  <2> QED
    BY <2>3, <2>4
<1>5. MoveWrapped(b.l1, d.hi, d.lo, d.h * d.len) =
        [a \in DOMAIN b.l1 |-> IF offsets(a) = {} THEN b.l1[a] ELSE b.l1[(d.lo + Max(offsets(a))) % L1Size]]
  BY <1>2, <1>3 DEF MoveWrapped
<1>6. MoveWrapped(b.l1, d.hi, d.lo, d.h * d.len) \in L1Mem
  <2> HIDE DEF offsets
  <2> QED
    BY <1>1, <1>4, <1>5 DEF L1Mem
<1> QED
  BY <1>6 DEF TCopy, Banks

(* A vector writes elements of its operands' type inside L1. *)
LEMMA UnaryType ==
  ASSUME NEW f \in UnaryOps, NEW v \in VecArgs, NEW b \in Banks,
         b.addr.a + v.n <= L1Size, b.addr.r + v.n <= L1Size
  PROVE  UnaryV(f, v, b) \in Banks
<1> DEFINE a == b.addr.a
           r == b.addr.r
<1>1. /\ a \in Nat /\ r \in Nat /\ v.n \in Nat /\ b.l1 \in [0 .. (L1Size - 1) -> Val]
      /\ a + v.n <= L1Size /\ r + v.n <= L1Size
  BY DEF Banks, Anchors, VecArgs, L1Mem
<1>2. ASSUME NEW x \in 0 .. (L1Size - 1), x \in r .. (r + v.n - 1)
      PROVE  UnaryFn[f][b.l1[a + (x - r)]] \in Val
  <2>1. a + (x - r) \in 0 .. (L1Size - 1)
    <3> HIDE DEF a, r
    <3>1. \A c, p, q, k, z \in Nat : (c + k <= z /\ p \in q .. (q + k - 1)) => c + (p - q) \in 0 .. (z - 1)
      OBVIOUS
    <3>2. x \in Nat /\ L1Size \in Nat
      BY SizeAssumption
    <3> QED
      BY <1>1, <1>2, <3>1, <3>2
  <2>2. PICK y \in 0 .. (L1Size - 1) : y = a + (x - r)
    BY <2>1
  <2>3. b.l1[y] \in Val
    BY <1>1
  <2> QED
    BY <2>2, <2>3, ElementAssumption
<1>3. [x \in DOMAIN b.l1 |-> IF x \in r .. (r + v.n - 1) THEN UnaryFn[f][b.l1[a + (x - r)]] ELSE b.l1[x]] \in L1Mem
  <2> HIDE DEF a, r
  <2> QED
    BY <1>1, <1>2 DEF L1Mem
<1> QED
  BY <1>3 DEF UnaryV, Vector, Banks

LEMMA ArithType ==
  ASSUME NEW v \in VecArgs, NEW b \in Banks, NEW op5,
         b.addr.a + v.n <= L1Size, b.addr.b + v.n <= L1Size, b.addr.r + v.n <= L1Size
  PROVE  ArithVV(v, b) \in Banks /\ ArithVS(v, op5, b) \in Banks
<1> DEFINE a == b.addr.a
           c == b.addr.b
           r == b.addr.r
           k == ScalarOperand(v.rs2, op5)
<1>1. /\ a \in Nat /\ c \in Nat /\ r \in Nat /\ v.n \in Nat /\ b.l1 \in [0 .. (L1Size - 1) -> Val]
      /\ a + v.n <= L1Size /\ c + v.n <= L1Size /\ r + v.n <= L1Size
      /\ k \in Val
  BY ImageAssumption DEF Banks, Anchors, VecArgs, L1Mem, ScalarOperand
<1>2. ASSUME NEW x \in 0 .. (L1Size - 1), x \in r .. (r + v.n - 1)
      PROVE  /\ ArithFn[<<b.l1[a + (x - r)], b.l1[c + (x - r)]>>] \in Val
             /\ ArithFn[<<b.l1[a + (x - r)], k>>] \in Val
  <2>1. a + (x - r) \in 0 .. (L1Size - 1) /\ c + (x - r) \in 0 .. (L1Size - 1)
    <3>1. x - r \in 0 .. v.n - 1
      BY <1>1, <1>2
    <3>2. \A m \in Nat, z \in 0 .. v.n - 1 : m + v.n <= L1Size => m + z \in 0 .. (L1Size - 1)
      BY <1>1, SizeAssumption
    <3> HIDE DEF a, c, r, k
    <3> QED
      BY <1>1, <3>1, <3>2
  <2>2. b.l1[a + (x - r)] \in Val /\ b.l1[c + (x - r)] \in Val
    BY <1>1, <2>1
  <2> QED
    BY <1>1, <2>2, ElementAssumption
<1>3. /\ [x \in DOMAIN b.l1 |-> IF x \in r .. (r + v.n - 1)
                               THEN ArithFn[<<b.l1[a + (x - r)], b.l1[c + (x - r)]>>] ELSE b.l1[x]] \in L1Mem
      /\ [x \in DOMAIN b.l1 |-> IF x \in r .. (r + v.n - 1)
                               THEN ArithFn[<<b.l1[a + (x - r)], k>>] ELSE b.l1[x]] \in L1Mem
  <2> HIDE DEF a, c, r, k
  <2> QED
    BY <1>1, <1>2 DEF L1Mem
<1> QED
  BY <1>3 DEF ArithVV, ArithVS, Vector, Banks

LEMMA ReplayType ==
  ASSUME NEW e, EntryFits(e), NEW bank \in Banks
  PROVE  Replay(e, bank) \in Banks
<1> DEFINE b == [bank EXCEPT !.addr = e.addr]
<1>1. b \in Banks /\ b.addr = e.addr
  BY DEF Banks, EntryFits, AnchorsFit
<1>2. /\ e.mnemonic \in {"load", "store", "copy"} => e.arg \in DmaArgs
      /\ e.mnemonic \in {"load", "store"} => TLoopWindow(e.arg)
      /\ e.mnemonic \in UnaryOps \cup {"add.vv", "add.vs"} =>
           <<e.mnemonic, e.arg>> \in Fw.vec /\ e.arg \in VecArgs
  BY InsnOperands DEF EntryFits
<1>3. <<e.mnemonic, e.arg>> \in Fw.vec =>
        /\ b.addr.a + e.arg.n <= L1Size /\ b.addr.b + e.arg.n <= L1Size /\ b.addr.r + e.arg.n <= L1Size
  <2>1. <<e.mnemonic, e.arg>>[2] = e.arg
    OBVIOUS
  <2> QED
    BY <1>1, <2>1 DEF EntryFits, AnchorsFit
<1> HIDE DEF b
<1>4. CASE e.mnemonic = "load"
  <2>1. Replay(e, bank) = TLoad(e.arg, b)
    BY <1>4, ElementAssumption DEF Replay, b
  <2> QED
    BY <1>1, <1>2, <1>4, <2>1, LoadType
<1>5. CASE e.mnemonic = "store"
  <2>1. Replay(e, bank) = TStore(e.arg, b)
    BY <1>5, ElementAssumption DEF Replay, b
  <2> QED
    BY <1>1, <1>2, <1>5, <2>1, StoreType
<1>6. CASE e.mnemonic = "copy"
  <2>1. Replay(e, bank) = TCopy(e.arg, b)
    BY <1>6, ElementAssumption DEF Replay, b
  <2> QED
    BY <1>1, <1>2, <1>6, <2>1, CopyType
<1>7. CASE e.mnemonic = "add.vv"
  <2>1. Replay(e, bank) = ArithVV(e.arg, b)
    BY <1>7, ElementAssumption DEF Replay, b
  <2> QED
    BY <1>1, <1>2, <1>3, <1>7, <2>1, ArithType
<1>8. CASE e.mnemonic = "add.vs"
  <2>1. Replay(e, bank) = ArithVS(e.arg, e.op5, b)
    BY <1>8, ElementAssumption DEF Replay, b
  <2> QED
    BY <1>1, <1>2, <1>3, <1>8, <2>1, ArithType
<1>9. CASE e.mnemonic \in UnaryOps
  <2>1. e.mnemonic \notin {"load", "store", "copy", "add.vv", "add.vs"}
    BY <1>9, ElementAssumption
  <2>2. Replay(e, bank) = UnaryV(e.mnemonic, e.arg, b)
    BY <1>9, <2>1 DEF Replay, b
  <2> QED
    BY <1>1, <1>2, <1>3, <1>9, <2>2, UnaryType
<1>10. CASE e.mnemonic \notin UnaryOps \cup {"load", "store", "copy", "add.vv", "add.vs"}
  BY <1>1, <1>10 DEF Replay, b
<1> QED
  BY <1>4, <1>5, <1>6, <1>7, <1>8, <1>9, <1>10

-----------------------------------------------------------------------------
(* Frames and runs of frames. *)
Frames == [ok : BOOLEAN, load : Nat, vec : Nat, store : Nat, end : Nat]

PartAt(buf, j, M) == j \in 1 .. Len(buf) /\ buf[j].mnemonic \in M

FrameAt(buf, i, f) ==
  /\ f \in Frames
  /\ f.load = i /\ f.store = f.vec + 1
  /\ f.vec = i + 1 \/ (f.vec = i + 2 /\ PartAt(buf, i + 1, {"credit.ld"}))
  /\ f.end = f.store + 1 \/ (f.end = f.store + 2 /\ PartAt(buf, f.store + 1, {"credit.st"}))
  /\ f.ok => /\ PartAt(buf, i, {"load"}) /\ PartAt(buf, f.vec, UnaryOps) /\ PartAt(buf, f.store, {"store"})
             /\ f.end \in i + 1 .. Len(buf) + 1

LEMMA FrameParts ==
  ASSUME NEW S, NEW buf \in Seq(S), NEW i \in 1 .. Len(buf) + 1
  PROVE  FrameAt(buf, i, ParseFrame(buf, i))
<1>1. Len(buf) \in Nat /\ DOMAIN buf = 1 .. Len(buf) /\ i \in Nat
  OBVIOUS
<1>2. PICK vec \in {i + 1, i + 2} : vec = IF PartAt(buf, i + 1, {"credit.ld"}) THEN i + 2 ELSE i + 1
  OBVIOUS
<1>3. PICK end \in {vec + 2, vec + 3} : end = IF PartAt(buf, vec + 2, {"credit.st"}) THEN vec + 3 ELSE vec + 2
  OBVIOUS
<1>4. PICK ok \in BOOLEAN :
        ok = (PartAt(buf, i, {"load"}) /\ PartAt(buf, vec, UnaryOps) /\ PartAt(buf, vec + 1, {"store"}))
  OBVIOUS
<1>5. ParseFrame(buf, i) = [ok |-> ok, load |-> i, vec |-> vec, store |-> vec + 1, end |-> end]
  BY <1>1, <1>2, <1>3, <1>4 DEF ParseFrame, PartAt
<1>6. PICK f : f = [ok |-> ok, load |-> i, vec |-> vec, store |-> vec + 1, end |-> end]
  OBVIOUS
<1>7. f.load = i /\ f.store = vec + 1 /\ f.vec = vec /\ f.end = end /\ f.ok = ok
  BY <1>6
<1>8. vec \in Nat /\ end \in Nat /\ vec + 1 \in Nat
  BY <1>1, <1>2, <1>3
<1>9. f \in Frames
  BY <1>1, <1>6, <1>8 DEF Frames
<1>10. ok => end \in i + 1 .. Len(buf) + 1
  <2> SUFFICES ASSUME ok PROVE end \in i + 1 .. Len(buf) + 1
    OBVIOUS
  <2>1. PICK n \in Nat : n = Len(buf)
    BY <1>1
  <2>2. vec + 1 <= n
    <3>1. PartAt(buf, vec + 1, {"store"})
      BY <1>4
    <3> QED
      BY <1>8, <2>1, <3>1 DEF PartAt
  <2>3. end = vec + 3 => vec + 2 <= n
    <3>1. end = vec + 3 => PartAt(buf, vec + 2, {"credit.st"})
      BY <1>3, <1>8
    <3> QED
      BY <1>8, <2>1, <3>1 DEF PartAt
  <2>4. i + 1 <= end /\ end <= n + 1
    BY <1>1, <1>2, <1>3, <1>8, <2>2, <2>3
  <2> QED
    BY <1>1, <1>8, <2>1, <2>4
<1>11. vec = i + 1 \/ (vec = i + 2 /\ PartAt(buf, i + 1, {"credit.ld"}))
  BY <1>2
<1>12. end = vec + 1 + 1 \/ (end = vec + 1 + 2 /\ PartAt(buf, vec + 1 + 1, {"credit.st"}))
  <2>1. vec + 1 + 1 = vec + 2 /\ vec + 1 + 2 = vec + 3
    BY <1>8
  <2> QED
    BY <1>3, <2>1
<1> QED
  BY <1>4, <1>5, <1>6, <1>7, <1>9, <1>10, <1>11, <1>12 DEF FrameAt

(* A run: frames that follow each other from entry c on and have the signature of f0. *)
IsRun(buf, run, c, f0) ==
  /\ run \in Seq(Frames)
  /\ \A k \in 1 .. Len(run) :
       /\ run[k] = ParseFrame(buf, IF k = 1 THEN c ELSE run[k - 1].end)
       /\ run[k].ok
       /\ FrameSignature(buf, run[k]) = FrameSignature(buf, f0)

LEMMA RunGrows ==
  ASSUME NEW buf, NEW f0, NEW c, NEW f, NEW rest,
         f = ParseFrame(buf, c), f \in Frames, f.ok,
         FrameSignature(buf, f) = FrameSignature(buf, f0),
         IsRun(buf, rest, f.end, f0)
  PROVE  IsRun(buf, <<f>> \o rest, c, f0)
<1> DEFINE run == <<f>> \o rest
<1>1. rest \in Seq(Frames) /\ Len(rest) \in Nat
  BY DEF IsRun
<1>2. run \in Seq(Frames) /\ Len(run) = Len(rest) + 1 /\ run[1] = f
  BY <1>1
<1>3. \A k \in 2 .. Len(run) : run[k] = rest[k - 1]
  BY <1>1, <1>2
<1>4. ASSUME NEW k \in 1 .. Len(run)
      PROVE  /\ run[k] = ParseFrame(buf, IF k = 1 THEN c ELSE run[k - 1].end)
             /\ run[k].ok
             /\ FrameSignature(buf, run[k]) = FrameSignature(buf, f0)
  <2> HIDE DEF run
  <2>1. CASE k = 1
    BY <1>2, <2>1
  <2>2. CASE k # 1
    <3>1. k - 1 \in 1 .. Len(rest) /\ k \in 2 .. Len(run)
      BY <1>1, <1>2, <2>2
    <3>2. /\ rest[k - 1] = ParseFrame(buf, IF k - 1 = 1 THEN f.end ELSE rest[(k - 1) - 1].end)
          /\ rest[k - 1].ok /\ FrameSignature(buf, rest[k - 1]) = FrameSignature(buf, f0)
      BY <3>1 DEF IsRun
    <3>3. k - 1 # 1 => k - 1 \in 2 .. Len(run) /\ run[k - 1] = rest[(k - 1) - 1]
      BY <1>3, <1>1, <1>2, <3>1
    <3>4. run[k - 1].end = IF k - 1 = 1 THEN f.end ELSE rest[(k - 1) - 1].end
      BY <1>2, <3>3
    <3> QED
      BY <1>3, <2>2, <3>1, <3>2, <3>4
  <2> QED
    BY <2>1, <2>2
<1> QED
  BY <1>2, <1>4 DEF IsRun

(* The table of the runs that start at each entry. *)
RunTable(it, buf, f0) ==
  it = [c \in 1 .. (Len(buf) + 1) |->
         IF ParseFrame(buf, c).ok /\ FrameSignature(buf, ParseFrame(buf, c)) = FrameSignature(buf, f0)
         THEN <<ParseFrame(buf, c)>> \o it[ParseFrame(buf, c).end] ELSE <<>>]

LEMMA RunTableExists ==
  ASSUME NEW S, NEW buf \in Seq(S), NEW f0
  PROVE  \E it : RunTable(it, buf, f0)
<1> DEFINE n == Len(buf)
           Fits(c) == ParseFrame(buf, c).ok /\ FrameSignature(buf, ParseFrame(buf, c)) = FrameSignature(buf, f0)
           Turn(it, c) == IF Fits(c) THEN <<ParseFrame(buf, c)>> \o it[ParseFrame(buf, c).end] ELSE <<>>
           Good(it, k) == it = [c \in 1 .. n + 1 |-> it[c]] /\ \A c \in 1 .. n + 1 : c > n + 1 - k => it[c] = Turn(it, c)
           T == {k \in 0 .. n + 1 : \E it : Good(it, k)}
<1>1. n \in Nat
  OBVIOUS
<1>2. \A c \in 1 .. n + 1 : Fits(c) => ParseFrame(buf, c).end \in c + 1 .. n + 1
  BY FrameParts DEF FrameAt
<1> HIDE DEF Fits, n
<1>3. 0 \in T
  <2>1. Good([c \in 1 .. n + 1 |-> <<>>], 0)
    BY <1>1
  <2> QED
    BY <1>1, <2>1
<1>4. ASSUME NEW k \in 0 .. (n + 1) - 1, k \in T PROVE k + 1 \in T
  <2>1. PICK it : Good(it, k)
    BY <1>4
  <2> DEFINE more == [c \in 1 .. n + 1 |-> IF c > n + 1 - k THEN it[c] ELSE Turn(it, c)]
  <2>2. ASSUME NEW c \in 1 .. n + 1, c > n + 1 - (k + 1)
        PROVE  more[c] = Turn(more, c)
    <3>1. more[c] = Turn(it, c)
      BY <2>1
    <3>2. CASE Fits(c)
      <4>1. PICK e \in c + 1 .. n + 1 : e = ParseFrame(buf, c).end
        BY <1>2, <3>2
      <4>2. e \in 1 .. n + 1 /\ e > n + 1 - k
        BY <1>1, <2>2, <4>1
      <4>3. more[e] = it[e]
        BY <4>2
      <4> HIDE DEF more
      <4> QED
        BY <3>1, <4>1, <4>3
    <3>3. CASE ~Fits(c)
      BY <3>1, <3>3
    <3> QED
      BY <3>2, <3>3
  <2>3. more = [c \in 1 .. n + 1 |-> more[c]]
    OBVIOUS
  <2> HIDE DEF more
  <2>4. Good(more, k + 1)
    BY <2>2, <2>3
  <2> HIDE DEF Good
  <2> QED
    BY <1>1, <2>4
<1>5. n + 1 \in T
  <2>1. 0 .. n + 1 \subseteq T
    <3>1. n + 1 \in Nat
      BY <1>1
    <3> HIDE DEF T
    <3> QED
      BY <1>3, <1>4, <3>1, UpToInduction
  <2> QED
    BY <1>1, <2>1
<1>6. PICK it : Good(it, n + 1)
  BY <1>5
<1>7. \A c \in 1 .. n + 1 : it[c] = Turn(it, c)
  <2>1. \A c \in 1 .. n + 1 : c > n + 1 - (n + 1)
    BY <1>1
  <2> HIDE DEF Turn
  <2> QED
    BY <1>6, <2>1
<1> QED
  BY <1>6, <1>7 DEF RunTable, Fits, n

LEMMA FrameRunIsRun ==
  ASSUME NEW S, NEW buf \in Seq(S), NEW i \in 1 .. Len(buf)
  PROVE  IsRun(buf, FrameRun(buf, i), i, ParseFrame(buf, i))
<1> DEFINE n == Len(buf)
           f0 == ParseFrame(buf, i)
           Fits(c) == ParseFrame(buf, c).ok /\ FrameSignature(buf, ParseFrame(buf, c)) = FrameSignature(buf, f0)
           run == CHOOSE it : RunTable(it, buf, f0)
           T == {k \in 0 .. n + 1 : \A c \in 1 .. n + 1 : c > n + 1 - k => IsRun(buf, run[c], c, f0)}
<1>1. n \in Nat /\ i \in 1 .. n + 1
  OBVIOUS
<1>2. FrameRun(buf, i) = IF f0.ok THEN run[i] ELSE <<>>
  BY DEF FrameRun, RunTable
<1>3. RunTable(run, buf, f0)
  <2> HIDE DEF f0
  <2> QED
    BY RunTableExists
<1> HIDE DEF run
<1>4. \A c \in 1 .. n + 1 :
        run[c] = IF Fits(c) THEN <<ParseFrame(buf, c)>> \o run[ParseFrame(buf, c).end] ELSE <<>>
  BY <1>3 DEF RunTable
<1>5. \A c \in 1 .. n + 1 : Fits(c) => ParseFrame(buf, c).end \in c + 1 .. n + 1
  BY FrameParts DEF FrameAt
<1>6. \A c \in 1 .. n + 1 : ParseFrame(buf, c) \in Frames
  BY FrameParts DEF FrameAt
<1>7. \A c : IsRun(buf, <<>>, c, f0)
  BY DEF IsRun
<1> HIDE DEF n
<1>8. 0 \in T
  BY <1>1
<1>9. ASSUME NEW k \in 0 .. (n + 1) - 1, k \in T PROVE k + 1 \in T
  <2>1. ASSUME NEW c \in 1 .. n + 1, c > n + 1 - (k + 1)
        PROVE  IsRun(buf, run[c], c, f0)
    <3>1. CASE Fits(c)
      <4>1. PICK e \in c + 1 .. n + 1 : e = ParseFrame(buf, c).end
        BY <1>5, <3>1
      <4>2. e \in 1 .. n + 1 /\ e > n + 1 - k
        BY <1>1, <2>1, <4>1
      <4>3. IsRun(buf, run[e], e, f0)
        BY <1>9, <4>2
      <4>4. run[c] = <<ParseFrame(buf, c)>> \o run[e]
        BY <1>4, <3>1, <4>1
      <4>5. PICK f : f = ParseFrame(buf, c)
        OBVIOUS
      <4>6. f \in Frames /\ f.ok /\ FrameSignature(buf, f) = FrameSignature(buf, f0) /\ f.end = e
        BY <1>6, <3>1, <4>1, <4>5
      <4> HIDE DEF f0
      <4>7. IsRun(buf, <<f>> \o run[e], c, f0)
        BY <4>3, <4>5, <4>6, RunGrows
      <4> QED
        BY <4>4, <4>5, <4>7
    <3>2. CASE ~Fits(c)
      BY <1>4, <1>7, <3>2
    <3> QED
      BY <3>1, <3>2
  <2> QED
    BY <1>1, <2>1
<1>10. IsRun(buf, run[i], i, f0)
  <2>1. 0 .. n + 1 \subseteq T
    <3>1. n + 1 \in Nat
      BY <1>1
    <3> HIDE DEF T
    <3> QED
      BY <1>8, <1>9, <3>1, UpToInduction
  <2>2. \A c \in 1 .. n + 1 : c > n + 1 - (n + 1) => IsRun(buf, run[c], c, f0)
    <3>1. n + 1 \in 0 .. n + 1
      BY <1>1
    <3> QED
      BY <2>1, <3>1
  <2> QED
    BY <1>1, <2>2
<1> QED
  BY <1>2, <1>7, <1>10


-----------------------------------------------------------------------------
(* Replaying and draining a buffer. *)

(* A sequence of entries the firmware may have captured. *)
Captured(buf) == buf \in Seq(TLoopEntries) /\ \A i \in 1 .. Len(buf) : EntryFits(buf[i])

(* One entry after the other. *)
ReplaySteps(acc, b, buf, n) ==
  acc[0] = b /\ \A k \in 1 .. n : acc[k] = Replay(buf[k], acc[k - 1])

ReplayUnfolds(res, V, b, buf, n) ==
  \E acc \in [0 .. n -> V] : ReplaySteps(acc, b, buf, n) /\ res = acc[n]

LEMMA ReplayChain ==
  ASSUME NEW b \in Banks, NEW buf, NEW n, Captured(buf), n = Len(buf)
  PROVE  ReplayUnfolds(ReplayAll(buf, b), Banks, b, buf, n)
<1> DEFINE T == Banks
           F == [p \in T \X (1 .. n) |-> Replay(buf[p[2]], p[1])]
           Table(it) == it = [s \in SUBSET (1 .. n) |->
                          IF s = {} THEN b ELSE Replay(buf[Max(s)], it[s \ {Max(s)}])]
           iter == CHOOSE it : Table(it)
<1>1. n \in Nat /\ DOMAIN buf = 1 .. n /\ \A i \in 1 .. n : EntryFits(buf[i])
  BY DEF Captured
<1>2. b \in T
  OBVIOUS
<1>3. F \in [T \X (1 .. n) -> T]
  <2>1. \A v \in T, k \in 1 .. n : Replay(buf[k], v) \in T
    BY <1>1, ReplayType
  <2> HIDE DEF T
  <2> QED
    BY <2>1
<1>4. \A s \in SUBSET (1 .. n) : s # {} => Max(s) \in 1 .. n
  BY <1>1, MaxInSet
<1>5. \A v \in T, k \in 1 .. n : F[<<v, k>>] = Replay(buf[k], v)
  OBVIOUS
<1>6. \E it : Table(it)
  <2>1. PICK it : IndexFold(it, b, F, T, n)
    <3> HIDE DEF T, F
    <3> QED
      BY <1>1, <1>2, <1>3, FoldOfIndices
  <2>2. \A s \in SUBSET (1 .. n) : s # {} =>
          F[<<it[s \ {Max(s)}], Max(s)>>] = Replay(buf[Max(s)], it[s \ {Max(s)}])
    <3> HIDE DEF T, F
    <3> QED
      BY <2>1, <1>4, <1>5 DEF IndexFold
  <2>3. Table(it)
    <3> HIDE DEF T, F
    <3> QED
      BY <2>1, <2>2 DEF IndexFold
  <2> HIDE DEF Table
  <2> QED
    BY <2>3
<1>7. Table(iter)
  <2> HIDE DEF Table
  <2> QED
    BY <1>6
<1>8. ReplayAll(buf, b) = iter[1 .. n]
  BY <1>1 DEF ReplayAll, FoldLeft, MapThenFoldSet
<1> HIDE DEF iter
<1>9. FoldsBackwards(iter, b, F, T, n)
  <2>1. /\ iter[{}] = b
        /\ \A s \in SUBSET (1 .. n) : s # {} => iter[s] = Replay(buf[Max(s)], iter[s \ {Max(s)}])
    <3> HIDE DEF T, F
    <3> QED
      BY <1>7
  <2> HIDE DEF T, F, Table
  <2> QED
    BY <1>4, <1>5, <2>1 DEF FoldsBackwards
<1>10. PICK acc \in [0 .. n -> T] : IsChain(acc, b, F, n) /\ iter[1 .. n] = acc[n]
  <2> HIDE DEF T, F
  <2>1. Unfolds(iter[1 .. n], b, F, T, n)
    BY <1>1, <1>2, <1>3, <1>9, FoldChain
  <2> QED
    BY <2>1 DEF Unfolds
<1>11. ReplaySteps(acc, b, buf, n)
  <2>1. \A k \in 1 .. n : k - 1 \in 0 .. n /\ acc[k - 1] \in T
    BY <1>1
  <2> HIDE DEF T, F
  <2> QED
    BY <1>5, <1>10, <2>1 DEF IsChain, ReplaySteps
<1> QED
  BY <1>8, <1>10, <1>11 DEF ReplayUnfolds

LEMMA ReplayAllType ==
  ASSUME NEW b \in Banks, NEW buf, Captured(buf)
  PROVE  ReplayAll(buf, b) \in Banks
<1>1. PICK n \in Nat : n = Len(buf)
  BY DEF Captured
<1>2. ReplayUnfolds(ReplayAll(buf, b), Banks, b, buf, n)
  BY <1>1, ReplayChain
<1> QED
  BY <1>2 DEF ReplayUnfolds

(* The entries from i to j. *)
LEMMA CapturedSlice ==
  ASSUME NEW buf, Captured(buf), NEW i \in 1 .. Len(buf) + 1, NEW j \in i - 1 .. Len(buf)
  PROVE  /\ Captured(SubSeq(buf, i, j))
         /\ Len(SubSeq(buf, i, j)) = j - i + 1
         /\ \A k \in 1 .. j - i + 1 : SubSeq(buf, i, j)[k] = buf[i + k - 1]
<1>1. buf \in Seq(TLoopEntries) /\ \A k \in 1 .. Len(buf) : EntryFits(buf[k])
  BY DEF Captured
<1>2. Len(buf) \in Nat
  BY <1>1
<1>3. \A k \in 1 .. j - i + 1 : i + k - 1 \in 1 .. Len(buf)
  BY <1>2
<1>4. /\ SubSeq(buf, i, j) \in Seq(TLoopEntries)
      /\ Len(SubSeq(buf, i, j)) = j - i + 1
      /\ \A k \in 1 .. j - i + 1 : SubSeq(buf, i, j)[k] = buf[i + k - 1]
  BY <1>1, <1>2, <1>3
<1>5. Captured(SubSeq(buf, i, j))
  BY <1>1, <1>3, <1>4 DEF Captured
<1> QED
  BY <1>4, <1>5

(* The parts of a frame of a run: where it starts, and the entries it is made of. *)
LEMMA RunFrame ==
  ASSUME NEW buf, Captured(buf), NEW c \in 1 .. Len(buf), NEW f0, NEW run, IsRun(buf, run, c, f0),
         NEW k \in 1 .. Len(run)
  PROVE  \E i \in 1 .. Len(buf) :
           /\ i = IF k = 1 THEN c ELSE run[k - 1].end
           /\ FrameAt(buf, i, run[k]) /\ run[k].ok
           /\ FrameSignature(buf, run[k]) = FrameSignature(buf, run[1])
<1>1. PICK i : i = IF k = 1 THEN c ELSE run[k - 1].end
  OBVIOUS
<1>2. run \in Seq(Frames) /\ Len(run) \in Nat /\ 1 \in 1 .. Len(run)
  BY DEF IsRun
<1>3. /\ run[k] = ParseFrame(buf, i) /\ run[k].ok
      /\ FrameSignature(buf, run[k]) = FrameSignature(buf, f0)
      /\ FrameSignature(buf, run[1]) = FrameSignature(buf, f0)
  BY <1>1, <1>2 DEF IsRun
<1>4. i \in DOMAIN buf
  <2>1. ParseFrame(buf, i).ok = (/\ i \in DOMAIN buf /\ buf[i].mnemonic \in {"load"}
                                /\ ParseFrame(buf, i).ok)
    BY DEF ParseFrame
  <2> QED
    BY <1>3, <2>1
<1>5. i \in 1 .. Len(buf) /\ i \in 1 .. Len(buf) + 1 /\ buf \in Seq(TLoopEntries)
  BY <1>4 DEF Captured
<1>6. FrameAt(buf, i, run[k])
  BY <1>3, <1>5, FrameParts
<1> QED
  BY <1>1, <1>3, <1>5, <1>6

(* What the k-th frame of a run is made of: entries of one shape that fit the memories. *)
PartsFit(buf, f) ==
  /\ \A j \in {f.load, f.vec, f.store} : j \in 1 .. Len(buf) /\ EntryFits(buf[j])
  /\ buf[f.load].mnemonic = "load" /\ buf[f.store].mnemonic = "store" /\ buf[f.vec].mnemonic \in UnaryOps
  /\ \A j \in {f.load, f.store} : buf[j].arg \in DmaArgs /\ TLoopWindow(buf[j].arg)
  /\ buf[f.vec].arg \in VecArgs

SameShape(buf, f, g) ==
  /\ \A j \in {<<f.load, g.load>>, <<f.store, g.store>>} :
       LET d == buf[j[1]].arg
           e == buf[j[2]].arg
       IN d.lo = e.lo /\ d.h = e.h /\ d.len = e.len /\ d.st = e.st
  /\ buf[f.vec].mnemonic = buf[g.vec].mnemonic /\ buf[f.vec].arg = buf[g.vec].arg

LEMMA RunParts ==
  ASSUME NEW buf, Captured(buf), NEW c \in 1 .. Len(buf), NEW f0, NEW run, IsRun(buf, run, c, f0),
         NEW k \in 1 .. Len(run)
  PROVE  PartsFit(buf, run[k]) /\ SameShape(buf, run[k], run[1])
<1>1. PICK i \in 1 .. Len(buf) :
        /\ FrameAt(buf, i, run[k]) /\ run[k].ok
        /\ FrameSignature(buf, run[k]) = FrameSignature(buf, run[1])
  BY RunFrame
<1>2. PICK f : f = run[k]
  OBVIOUS
<1>3. PICK g : g = run[1]
  OBVIOUS
<1>4. SameShape(buf, f, g)
  <2>1. FrameSignature(buf, f) = FrameSignature(buf, g)
    BY <1>1, <1>2, <1>3
  <2>2. PICK x, y : x = buf[f.load] /\ y = buf[g.load]
    OBVIOUS
  <2>3. PICK v, w : v = buf[f.store] /\ w = buf[g.store]
    OBVIOUS
  <2>4. /\ <<x.arg.lo, x.arg.h, x.arg.len, x.arg.st, x.op3.lo>> = <<y.arg.lo, y.arg.h, y.arg.len, y.arg.st, y.op3.lo>>
        /\ <<v.arg.lo, v.arg.h, v.arg.len, v.arg.st, v.op3.lo>> = <<w.arg.lo, w.arg.h, w.arg.len, w.arg.st, w.op3.lo>>
        /\ buf[f.vec].mnemonic = buf[g.vec].mnemonic /\ buf[f.vec].arg = buf[g.vec].arg
    BY <2>1, <2>2, <2>3 DEF FrameSignature
  <2>5. /\ x.arg.lo = y.arg.lo /\ x.arg.h = y.arg.h /\ x.arg.len = y.arg.len /\ x.arg.st = y.arg.st
        /\ v.arg.lo = w.arg.lo /\ v.arg.h = w.arg.h /\ v.arg.len = w.arg.len /\ v.arg.st = w.arg.st
    BY <2>4
  <2>6. \A j \in {<<f.load, g.load>>, <<f.store, g.store>>} :
          \/ buf[j[1]] = x /\ buf[j[2]] = y
          \/ buf[j[1]] = v /\ buf[j[2]] = w
    BY <2>2, <2>3
  <2> QED
    BY <2>4, <2>5, <2>6 DEF SameShape
<1>5. /\ f.load \in 1 .. Len(buf) /\ buf[f.load].mnemonic = "load"
      /\ f.vec \in 1 .. Len(buf) /\ buf[f.vec].mnemonic \in UnaryOps
      /\ f.store \in 1 .. Len(buf) /\ buf[f.store].mnemonic = "store"
  BY <1>1, <1>2 DEF FrameAt, PartAt
<1>6. \A j \in 1 .. Len(buf) : EntryFits(buf[j])
  BY DEF Captured
<1>7. \A j \in {f.load, f.store} : buf[j].arg \in DmaArgs /\ TLoopWindow(buf[j].arg)
  BY <1>5, <1>6, InsnOperands DEF EntryFits
<1>8. buf[f.vec].arg \in VecArgs
  BY <1>5, <1>6, InsnOperands DEF EntryFits
<1> QED
  BY <1>2, <1>3, <1>4, <1>5, <1>6, <1>7, <1>8 DEF PartsFit

(* A run of vectors of n elements, its last frame so many elements behind its first. *)
Spans(buf, run, n, last) ==
  /\ n \in Nat \ {0} /\ n = buf[run[1].vec].arg.n
  /\ last = (Len(run) - 1) * n /\ Len(run) * n = last + n
  /\ buf[run[1].load].arg.hi + last + n <= L2Size

(* The rows a run may load in bulk all lie in L2. *)
LEMMA BulkWindow ==
  ASSUME NEW buf, Captured(buf), NEW c \in 1 .. Len(buf), NEW f0, NEW run, IsRun(buf, run, c, f0),
         Len(run) # 0, NEW b, Contiguous(buf, run, b), NEW n, n = buf[run[1].vec].arg.n
  PROVE  \E last \in Nat : Spans(buf, run, n, last)
<1>1. run \in Seq(Frames) /\ Len(run) \in Nat /\ 1 \in 1 .. Len(run) /\ Len(run) \in 1 .. Len(run)
  BY DEF IsRun
<1>2. PICK f : f = run[1]
  OBVIOUS
<1>3. PICK g : g = run[Len(run)]
  OBVIOUS
<1>4. PartsFit(buf, f) /\ PartsFit(buf, g) /\ SameShape(buf, g, f)
  BY <1>1, <1>2, <1>3, RunParts
<1>5. PICK d \in DmaArgs : d = buf[f.load].arg /\ TLoopWindow(d)
  BY <1>4 DEF PartsFit
<1>6. PICK e \in DmaArgs : e = buf[g.load].arg /\ TLoopWindow(e)
  BY <1>4 DEF PartsFit
<1>7. e.h = d.h /\ e.len = d.len
  BY <1>4, <1>5, <1>6 DEF SameShape
<1>8. d.h = 1 /\ d.len = n /\ e.hi = d.hi + (Len(run) - 1) * n
  <2>1. Len(run) \in DOMAIN run
    BY <1>1
  <2> QED
    BY <1>1, <1>2, <1>3, <1>5, <1>6, <2>1 DEF Contiguous
<1>9. n \in Nat \ {0} /\ e.hi + (e.h - 1) * e.st + e.len <= L2Size /\ d.hi \in Nat /\ e.st \in Nat
  BY <1>5, <1>6, <1>8, WindowRows DEF DmaArgs
<1>10. (e.h - 1) * e.st = 0
  BY <1>7, <1>8, <1>9
<1>11. \A x, y \in Nat : x * y \in Nat
  OBVIOUS
<1>12. PICK last \in Nat : last = (Len(run) - 1) * n
  BY <1>1, <1>9, <1>11
<1>13. Len(run) * n = last + n
  <2>1. PICK x \in Nat : x = Len(run)
    BY <1>1
  <2>2. PICK y \in Nat : y = n
    BY <1>9
  <2>3. x * y = (x - 1) * y + y
    BY OneRowLess
  <2> QED
    BY <1>12, <2>1, <2>2, <2>3
<1>14. e.hi = d.hi + last /\ e.len = n
  BY <1>7, <1>8, <1>12
<1>15. d.hi + last + n <= L2Size
  <2> HIDE <1>8, <1>12, <1>13
  <2> QED
    BY <1>9, <1>10, <1>14
<1> QED
  BY <1>2, <1>5, <1>9, <1>12, <1>13, <1>15 DEF Spans

LEMMA BulkType ==
  ASSUME NEW buf, Captured(buf), NEW c \in 1 .. Len(buf), NEW f0, NEW run, IsRun(buf, run, c, f0),
         Len(run) # 0, NEW b \in Banks, Contiguous(buf, run, b)
  PROVE  Bulk(buf, run, b) \in Banks
<1> DEFINE load == buf[run[1].load].arg
           store == buf[run[1].store].arg
           vec == buf[run[1].vec]
           n == vec.arg.n
           total == Len(run) * n
           out == [o \in 0 .. (total - 1) |-> UnaryFn[vec.mnemonic][b.l2[load.hi + o]]]
           withIn == PutRow(b.l1, b.l2, [d |-> load.lo, s |-> load.hi + (total - n), n |-> n])
           l2o == PutRow(b.l2, out, [d |-> store.hi, s |-> 0, n |-> total])
           l1o == PutRow(withIn, out, [d |-> store.lo, s |-> total - n, n |-> n])
<1>1. Bulk(buf, run, b) = [b EXCEPT !.l2 = l2o, !.l1 = l1o]
  BY DEF Bulk
<1>2. PICK last \in Nat : total = last + n /\ n \in Nat \ {0} /\ load.hi + last + n <= L2Size
  <2>1. PICK len : len = n
    OBVIOUS
  <2>2. PICK last \in Nat : Spans(buf, run, len, last)
    BY <2>1, BulkWindow
  <2>3. /\ Len(run) * len = last + len /\ len \in Nat \ {0}
        /\ buf[run[1].load].arg.hi + last + len <= L2Size
    BY <2>2 DEF Spans
  <2> QED
    BY <2>1, <2>3
<1>3. PartsFit(buf, run[1])
  BY RunParts DEF IsRun
<1>4. /\ load.hi \in Nat /\ load.lo \in Nat /\ store.hi \in Nat /\ store.lo \in Nat
      /\ vec.mnemonic \in UnaryOps
  BY <1>3 DEF PartsFit, DmaArgs
<1>5. /\ b.l1 \in [0 .. (L1Size - 1) -> Val] /\ b.l2 \in [0 .. (L2Size - 1) -> Val]
      /\ 0 .. (L1Size - 1) \in SUBSET Int /\ 0 .. (L2Size - 1) \in SUBSET Int
  BY DEF Banks, L1Mem, L2Mem
<1>6. PICK hi \in Nat, t \in Nat, m \in Nat \ {0} : hi = load.hi /\ t = total /\ m = n
  <2> HIDE DEF load, total, n
  <2> QED
    BY <1>2, <1>4
<1>7. t = last + m /\ hi + last + m <= L2Size
  <2> HIDE DEF load, total, n
  <2> QED
    BY <1>2, <1>6
<1>8. /\ \A o \in 0 .. (t - 1) : hi + o \in 0 .. (L2Size - 1)
      /\ \A o \in 0 .. (m - 1) : /\ (hi + (t - m)) + o \in 0 .. (L2Size - 1)
                                  /\ (t - m) + o \in 0 .. (t - 1)
  BY <1>7, SizeAssumption
<1>9. out \in [0 .. (total - 1) -> Val]
  <2>1. ASSUME NEW o \in 0 .. (total - 1) PROVE UnaryFn[vec.mnemonic][b.l2[load.hi + o]] \in Val
    <3>1. load.hi + o \in 0 .. (L2Size - 1)
      <4> HIDE DEF load, n, total
      <4> QED
        BY <1>6, <1>8, <2>1
    <3> HIDE DEF load, n, total, vec
    <3> QED
      BY <1>4, <1>5, <3>1, ElementAssumption
  <2> HIDE DEF load, n, total, vec
  <2> QED
    BY <2>1
<1> HIDE DEF out, load, store, vec, n, total
<1>10. withIn \in [0 .. (L1Size - 1) -> Val]
  <2> DEFINE r == [d |-> load.lo, s |-> load.hi + (total - n), n |-> n]
  <2>1. RowReads(r, 0 .. (L2Size - 1))
    BY <1>6, <1>8, <1>4 DEF RowReads
  <2> HIDE DEF r
  <2>2. PutRow(b.l1, b.l2, r) \in [0 .. (L1Size - 1) -> Val]
    BY <1>5, <2>1, PutRowType
  <2> QED
    BY <2>2 DEF r
<1> HIDE DEF withIn
<1>11. l1o \in [0 .. (L1Size - 1) -> Val]
  <2> DEFINE r == [d |-> store.lo, s |-> total - n, n |-> n]
  <2>1. RowReads(r, 0 .. (total - 1))
    BY <1>6, <1>8, <1>4 DEF RowReads
  <2> HIDE DEF r
  <2>2. PutRow(withIn, out, r) \in [0 .. (L1Size - 1) -> Val]
    BY <1>5, <1>9, <1>10, <2>1, PutRowType
  <2> QED
    BY <2>2 DEF r
<1>12. l2o \in [0 .. (L2Size - 1) -> Val]
  <2> DEFINE r == [d |-> store.hi, s |-> 0, n |-> total]
  <2>1. RowReads(r, 0 .. (total - 1))
    BY <1>6, <1>8, <1>4 DEF RowReads
  <2> HIDE DEF r
  <2>2. PutRow(b.l2, out, r) \in [0 .. (L2Size - 1) -> Val]
    BY <1>5, <1>9, <2>1, PutRowType
  <2> QED
    BY <2>2 DEF r
<1> HIDE DEF l1o, l2o
<1> QED
  BY <1>1, <1>11, <1>12 DEF Banks, L1Mem, L2Mem

LEMMA FusedType ==
  ASSUME NEW buf, Captured(buf), NEW c \in 1 .. Len(buf), NEW f0, NEW run, IsRun(buf, run, c, f0),
         Len(run) # 0, NEW b \in Banks
  PROVE  /\ ExecuteFused(buf, c, run, b) \in Banks
         /\ run[Len(run)].end \in Nat
<1>1. run \in Seq(Frames) /\ Len(run) \in 1 .. Len(run)
  BY DEF IsRun
<1>2. PICK i \in 1 .. Len(buf) : FrameAt(buf, i, run[Len(run)]) /\ run[Len(run)].ok
  BY <1>1, RunFrame
<1>3. PICK e \in i + 1 .. Len(buf) + 1 : e = run[Len(run)].end
  BY <1>2 DEF FrameAt
<1>4. Len(buf) \in Nat
  BY DEF Captured
<1>5. ReplayAll(SubSeq(buf, c, e - 1), b) \in Banks
  <2>1. CASE c <= e
    <3>1. c \in 1 .. Len(buf) + 1 /\ e - 1 \in c - 1 .. Len(buf)
      BY <1>3, <1>4, <2>1
    <3>2. PICK j \in c - 1 .. Len(buf) : j = e - 1
      BY <3>1
    <3>3. Captured(SubSeq(buf, c, j))
      BY <3>1, CapturedSlice
    <3>4. PICK part : part = SubSeq(buf, c, j)
      OBVIOUS
    <3> QED
      BY <3>2, <3>3, <3>4, ReplayAllType
  <2>2. CASE ~(c <= e)
    <3>1. SubSeq(buf, c, e - 1) = <<>>
      BY <1>3, <1>4, <2>2 DEF Captured
    <3>2. Captured(<<>>)
      BY DEF Captured
    <3>3. PICK part : part = <<>>
      OBVIOUS
    <3> QED
      BY <3>1, <3>2, <3>3, ReplayAllType
  <2> QED
    BY <2>1, <2>2, <1>3, <1>4
<1> QED
  BY <1>3, <1>4, <1>5, BulkType DEF ExecuteFused

Walks == [cursor : Nat, bank : Banks]

LEMMA DrainTurnType ==
  ASSUME NEW buf, Captured(buf), NEW i \in 1 .. Len(buf), NEW acc \in Walks
  PROVE  DrainTurn(buf, acc, i) \in Walks
<1>1. PICK run : run = FrameRun(buf, i)
  OBVIOUS
<1>2. IsRun(buf, run, i, ParseFrame(buf, i))
  BY <1>1, FrameRunIsRun DEF Captured
<1>3. Len(run) \in Nat
  BY <1>2 DEF IsRun
<1>4. CASE i < acc.cursor
  BY <1>1, <1>4 DEF DrainTurn
<1>5. CASE ~(i < acc.cursor) /\ Len(run) >= 2
  <2>1. ExecuteFused(buf, i, run, acc.bank) \in Banks /\ run[Len(run)].end \in Nat
    BY <1>2, <1>3, <1>5, FusedType DEF Walks
  <2> QED
    BY <1>1, <1>5, <2>1 DEF DrainTurn, Walks
<1>6. CASE ~(i < acc.cursor) /\ ~(Len(run) >= 2)
  <2>1. Replay(buf[i], acc.bank) \in Banks
    BY ReplayType DEF Walks, Captured
  <2> QED
    BY <1>1, <1>6, <2>1 DEF DrainTurn, Walks
<1> QED
  BY <1>4, <1>5, <1>6

(* One turn after the other. *)
Walk(buf, base, ids) == FoldLeft(LAMBDA acc, i : DrainTurn(buf, acc, i), base, ids)

IdTurn(buf, ids, acc, k) == DrainTurn(buf, acc, ids[k])

WalkSteps(acc, base, buf, ids, n) ==
  acc[0] = base /\ \A k \in 1 .. n : acc[k] = IdTurn(buf, ids, acc[k - 1], k)

WalkUnfolds(res, V, base, buf, ids, n) ==
  \E acc \in [0 .. n -> V] : WalkSteps(acc, base, buf, ids, n) /\ res = acc[n]

LEMMA DrainWalk ==
  ASSUME NEW base \in Walks, NEW buf, NEW n, Captured(buf), n = Len(buf),
         NEW ids \in [1 .. n -> 1 .. n]
  PROVE  WalkUnfolds(Walk(buf, base, ids), Walks, base, buf, ids, n)
<1> DEFINE T == Walks
           F == [p \in T \X (1 .. n) |-> IdTurn(buf, ids, p[1], p[2])]
           Table(it) == it = [s \in SUBSET (1 .. n) |->
                          IF s = {} THEN base ELSE IdTurn(buf, ids, it[s \ {Max(s)}], Max(s))]
           iter == CHOOSE it : Table(it)
<1>1. n \in Nat /\ DOMAIN ids = 1 .. n /\ n = Len(buf)
  BY DEF Captured
<1>2. base \in T
  OBVIOUS
<1>3. F \in [T \X (1 .. n) -> T]
  <2>1. \A v \in T, k \in 1 .. n : IdTurn(buf, ids, v, k) \in T
    BY <1>1, DrainTurnType DEF IdTurn
  <2> HIDE DEF T
  <2> QED
    BY <2>1
<1>4. \A s \in SUBSET (1 .. n) : s # {} => Max(s) \in 1 .. n
  BY <1>1, MaxInSet
<1>5. \A v \in T, k \in 1 .. n : F[<<v, k>>] = IdTurn(buf, ids, v, k)
  OBVIOUS
<1>6. \E it : Table(it)
  <2>1. PICK it : IndexFold(it, base, F, T, n)
    <3> HIDE DEF T, F
    <3> QED
      BY <1>1, <1>2, <1>3, FoldOfIndices
  <2>2. \A s \in SUBSET (1 .. n) : s # {} =>
          F[<<it[s \ {Max(s)}], Max(s)>>] = IdTurn(buf, ids, it[s \ {Max(s)}], Max(s))
    <3> HIDE DEF T, F
    <3> QED
      BY <2>1, <1>4, <1>5 DEF IndexFold
  <2>3. Table(it)
    <3> HIDE DEF T, F
    <3> QED
      BY <2>1, <2>2 DEF IndexFold
  <2> HIDE DEF Table
  <2> QED
    BY <2>3
<1>7. Table(iter)
  <2> HIDE DEF Table
  <2> QED
    BY <1>6
<1>8. Walk(buf, base, ids) = iter[1 .. n]
  BY <1>1 DEF Walk, IdTurn, FoldLeft, MapThenFoldSet
<1> HIDE DEF iter
<1>9. FoldsBackwards(iter, base, F, T, n)
  <2> HIDE DEF T, F
  <2> QED
    BY <1>4, <1>5, <1>7 DEF FoldsBackwards
<1>10. PICK acc \in [0 .. n -> T] : IsChain(acc, base, F, n) /\ iter[1 .. n] = acc[n]
  <2> HIDE DEF T, F
  <2>1. Unfolds(iter[1 .. n], base, F, T, n)
    BY <1>1, <1>2, <1>3, <1>9, FoldChain
  <2> QED
    BY <2>1 DEF Unfolds
<1>11. WalkSteps(acc, base, buf, ids, n)
  <2>1. \A k \in 1 .. n : k - 1 \in 0 .. n /\ acc[k - 1] \in T
    BY <1>1
  <2> HIDE DEF T, F
  <2> QED
    BY <1>5, <1>10, <2>1 DEF IsChain, WalkSteps
<1> QED
  BY <1>8, <1>10, <1>11 DEF WalkUnfolds

Start(b) == [cursor |-> 1, bank |-> b]

DrainSteps(acc, b, buf, n) ==
  acc[0] = Start(b) /\ \A k \in 1 .. n : acc[k] = DrainTurn(buf, acc[k - 1], k)

DrainUnfolds(res, V, b, buf, n) == \E acc \in [0 .. n -> V] : DrainSteps(acc, b, buf, n) /\ res = acc[n].bank

LEMMA DrainChain ==
  ASSUME NEW b \in Banks, NEW buf, NEW n, Captured(buf), n = Len(buf)
  PROVE  DrainUnfolds(Drain(buf, b), Walks, b, buf, n)
<1> DEFINE ids == [i \in DOMAIN buf |-> i]
           base == Start(b)
           walk == Walk(buf, base, ids)
<1>1. DOMAIN ids = 1 .. n /\ \A k \in 1 .. n : ids[k] = k
  <2>1. DOMAIN buf = 1 .. n
    BY DEF Captured
  <2> QED
    BY <2>1
<1>2. Drain(buf, b) = walk.bank
  BY DEF Drain, FoldLeftDomain, Start, Walk
<1>3. base \in Walks
  BY DEF Walks, Start
<1>4. WalkUnfolds(walk, Walks, base, buf, ids, n)
  <2>1. ids \in [1 .. n -> 1 .. n]
    BY <1>1
  <2> HIDE DEF ids, base
  <2> QED
    BY <1>3, <2>1, DrainWalk
<1>5. PICK acc \in [0 .. n -> Walks] : WalkSteps(acc, base, buf, ids, n) /\ walk = acc[n]
  <2> HIDE DEF ids, base, walk
  <2> QED
    BY <1>4 DEF WalkUnfolds
<1>6. DrainSteps(acc, b, buf, n)
  <2> HIDE DEF ids, walk
  <2> QED
    BY <1>1, <1>5 DEF WalkSteps, DrainSteps, IdTurn
<1> HIDE DEF walk
<1> QED
  BY <1>2, <1>5, <1>6 DEF DrainUnfolds

LEMMA DrainType ==
  ASSUME NEW b \in Banks, NEW buf, Captured(buf)
  PROVE  Drain(buf, b) \in Banks
<1>1. PICK n \in Nat : n = Len(buf)
  BY DEF Captured
<1>2. DrainUnfolds(Drain(buf, b), Walks, b, buf, n)
  BY <1>1, DrainChain
<1>3. PICK acc \in [0 .. n -> Walks] : Drain(buf, b) = acc[n].bank
  BY <1>2 DEF DrainUnfolds
<1>4. acc[n] \in Walks
  BY <1>3
<1> QED
  BY <1>3, <1>4 DEF Walks

-----------------------------------------------------------------------------
(* Every step keeps the memories whole.  The invariant that is inductive: the types, and
   that no vector, waiting or to come, leaves L1 under the anchors it is given. *)
L1s == [Nests -> [Spus -> L1Mem]]
L2s == [Nests -> L2Mem]
L0s == [Nests -> [Spus -> L0Mem]]

AllAnchorsFit == \A m \in Nests, s \in Spus : AnchorsFit(lspr[m][s])

MemoryInv == ControlTypeOK /\ MemoryTypeOK /\ Captured(tloop_buf) /\ AllAnchorsFit


(* The memories a drain, a bank or a commit leaves. *)
LEMMA DrainedTypes ==
  ASSUME MemoryInv
  PROVE  /\ Bank \in Banks /\ Drained \in Banks
         /\ DrainedL1 \in L1s /\ DrainedL2 \in L2s
         /\ AtBoundary(l1, DrainedL1) \in L1s /\ AtBoundary(l2, DrainedL2) \in L2s
<1>1. nest \in Nests /\ spu \in Spus
  BY RoutedUnit DEF MemoryInv, ControlTypeOK
<1>2. l1 \in L1s /\ l2 \in L2s /\ lspr \in [Nests -> [Spus -> Anchors]] /\ Captured(tloop_buf)
  BY DEF MemoryInv, MemoryTypeOK, ControlTypeOK, BufferTypeOK, L1s, L2s
<1>3. Bank \in Banks
  BY <1>1, <1>2 DEF Bank, Banks, L1s, L2s
<1>4. Drained \in Banks
  <2>1. PICK b \in Banks : b = Bank
    BY <1>3
  <2>2. PICK buf : buf = tloop_buf
    OBVIOUS
  <2>3. Drain(buf, b) \in Banks
    BY <1>2, <2>2, DrainType
  <2> QED
    BY <2>1, <2>2, <2>3 DEF Drained
<1>5. Drained.l1 \in L1Mem /\ Drained.l2 \in L2Mem
  BY <1>4 DEF Banks
<1>6. DrainedL1 \in L1s /\ DrainedL2 \in L2s
  BY <1>1, <1>2, <1>5 DEF DrainedL1, DrainedL2, L1s, L2s
<1> QED
  BY <1>2, <1>3, <1>4, <1>6 DEF AtBoundary

LEMMA WrittenTypes ==
  ASSUME MemoryInv, NEW b \in Banks, WriteBank(b)
  PROVE  l1' \in L1s /\ l2' \in L2s
<1>1. nest \in Nests /\ spu \in Spus
  BY RoutedUnit DEF MemoryInv, ControlTypeOK
<1>2. l1 \in L1s /\ l2 \in L2s /\ b.l1 \in L1Mem /\ b.l2 \in L2Mem
  BY DEF MemoryInv, MemoryTypeOK, L1s, L2s, Banks
<1> QED
  BY <1>1, <1>2 DEF WriteBank, L1s, L2s

LEMMA MarkerTypes ==
  ASSUME MemoryInv, Marker
  PROVE  l1' \in L1s /\ l2' \in L2s
BY DrainedTypes, WrittenTypes DEF Marker

LEMMA CommitTypes ==
  ASSUME MemoryInv, NEW mem2 \in L2s, FlushQueue(mem2) \/ KeepQueue
  PROVE  ddr' \in DdrMem
<1>1. ddr \in DdrMem /\ QueueTypeOK
  BY DEF MemoryInv, MemoryTypeOK, ControlTypeOK
<1>2. Flushed(mem2) \in DdrMem
  BY <1>1, FlushedUnfolds DEF L2s
<1> QED
  BY <1>1, <1>2 DEF FlushQueue, KeepQueue

LEMMA FitsDdr ==
  ASSUME NEW d0 \in Nat, NEW dst \in Nat, NEW off \in Nat, NEW stride \in Nat,
         NEW h \in Nat \ {0}, NEW len \in Nat, ~Overruns(off, stride, h, len)
  PROVE  RowsRead(Grid(d0, dst, off, stride, h, len), h, 0 .. (DdrSize - 1))
<1>1. PICK p \in Nat : p = (h - 1) * stride
  <2>1. \A x, y \in Nat : x * y \in Nat
    OBVIOUS
  <2> QED
    BY <2>1
<1>2. off + p + len <= DdrSize
  BY <1>1, SizeAssumption DEF Overruns
<1>3. off + (h - 1) * stride + len <= DdrSize
  BY <1>1, <1>2
<1>4. DdrSize \in Nat
  BY SizeAssumption
<1> QED
  BY <1>3, <1>4, GridRead

LEMMA FitsL2 ==
  ASSUME NEW d0 \in Nat, NEW dst \in Nat, NEW off \in Nat, NEW stride \in Nat,
         NEW h \in Nat \ {0}, NEW len \in Nat, stride >= len, off + h * stride <= L2Size
  PROVE  RowsRead(Grid(d0, dst, off, stride, h, len), h, 0 .. (L2Size - 1))
<1>1. PICK p \in Nat : p = (h - 1) * stride
  <2>1. \A x, y \in Nat : x * y \in Nat
    OBVIOUS
  <2> QED
    BY <2>1
<1>2. h * stride = p + stride
  BY <1>1, OneRowLess
<1>3. off + p + len <= L2Size
  BY <1>1, <1>2, SizeAssumption
<1>4. off + (h - 1) * stride + len <= L2Size
  BY <1>1, <1>3
<1>5. L2Size \in Nat
  BY SizeAssumption
<1> QED
  BY <1>4, <1>5, GridRead

LEMMA DdrOffType ==
  ASSUME NEW a \in Nat
  PROVE  DdrOff(a) \in Nat
BY SizeAssumption DEF DdrOff

(* Copying rows into a NEST's L2, from the DDR or within it. *)
LEMMA IntoL2 ==
  ASSUME NEW mem \in L2Mem, NEW src \in DdrMem, NEW rows, NEW n
  PROVE  /\ RowsRead(rows, n, 0 .. (DdrSize - 1)) => CopyRows(mem, src, rows) \in L2Mem
         /\ RowsRead(rows, n, 0 .. (L2Size - 1)) => MoveRows(mem, rows) \in L2Mem
<1>1. /\ mem \in [0 .. (L2Size - 1) -> Val] /\ src \in [0 .. (DdrSize - 1) -> Val]
      /\ 0 .. (L2Size - 1) \in SUBSET Int
  BY DEF L2Mem, DdrMem
<1>2. ASSUME RowsRead(rows, n, 0 .. (DdrSize - 1)) PROVE CopyRows(mem, src, rows) \in L2Mem
  <2>1. CopyFacts(CopyRows(mem, src, rows), 0 .. (L2Size - 1), Val, mem, src, rows, n)
    BY <1>1, <1>2, CopyRowsFacts
  <2> QED
    BY <2>1 DEF CopyFacts, L2Mem
<1>3. ASSUME RowsRead(rows, n, 0 .. (L2Size - 1)) PROVE MoveRows(mem, rows) \in L2Mem
  <2>1. MoveRows(mem, rows) \in [0 .. (L2Size - 1) -> Val]
    BY <1>1, <1>3, MoveRowsType
  <2> QED
    BY <2>1 DEF L2Mem
<1> QED
  BY <1>2, <1>3

(* The row of a move within L2 that wraps at both ends. *)
LEMMA WrappedRowsRead ==
  ASSUME NEW d \in MoveArgs, NEW dst \in Nat, NEW dst_st \in Nat
  PROVE  RowsRead([i \in 1 .. d.h |-> WrappedRow(d, dst, dst_st, i)], d.h, 0 .. (L2Size - 1))
<1>1. d.src \in Nat /\ d.len \in Nat /\ d.h \in Nat \ {0} /\ d.st \in Nat
  BY DEF MoveArgs
<1>2. ASSUME NEW i \in 1 .. d.h PROVE RowReads(WrappedRow(d, dst, dst_st, i), 0 .. (L2Size - 1))
  <2>1. i \in Nat \ {0}
    BY <1>1
  <2>2. PICK x \in Nat : x = d.src + (i - 1) * d.st
    BY <1>1, <2>1, StepType
  <2>3. PICK y \in Nat : y = dst + (i - 1) * dst_st
    BY <2>1, StepType
  <2>4. PICK s \in 0 .. (L2Size - 1) : s = x % L2Size
    BY <2>2, WrapInL2
  <2>5. PICK t \in 0 .. (L2Size - 1) : t = y % L2Size
    BY <2>3, WrapInL2
  <2>6. PICK l \in Int : l = L2Size - s
    BY <2>4, SizeAssumption
  <2>7. PICK u \in Int : u = L2Size - t
    BY <2>5, SizeAssumption
  <2>11. PICK k \in Int : k = d.len
    BY <1>1
  <2>8. PICK m \in Int : m = Min({k, l, u}) /\ m <= l
    BY MinOfThree
  <2>9. WrappedRow(d, dst, dst_st, i) = [d |-> t, s |-> s, n |-> m]
    BY <2>2, <2>3, <2>4, <2>5, <2>6, <2>7, <2>8, <2>11 DEF WrappedRow
  <2>10. \A o \in 0 .. m - 1 : s + o \in 0 .. (L2Size - 1)
    BY <2>4, <2>6, <2>8, SizeAssumption
  <2>12. PICK r : r = WrappedRow(d, dst, dst_st, i)
    OBVIOUS
  <2>13. r.d = t /\ r.s = s /\ r.n = m
    BY <2>9, <2>12
  <2>14. RowReads(r, 0 .. (L2Size - 1))
    BY <2>10, <2>13 DEF RowReads
  <2> QED
    BY <2>12, <2>14
<1> QED
  BY <1>1, <1>2 DEF RowsRead

(* The steps that move data, one by one. *)
LEMMA LoadTypes ==
  ASSUME MemoryInv, NEW d \in Fw.sload, sloop_load(d)
  PROVE  l2' \in L2s /\ ddr' \in DdrMem
<1>1. /\ d.lo \in Nat /\ d.hi \in Nat /\ d.st \in Nat /\ d.h \in Nat \ {0} /\ d.len \in Nat
  BY FirmwareAssumption DEF DmaArgs
<1>2. nest \in Nests /\ l2 \in L2s /\ ddr \in DdrMem /\ QueueTypeOK
  BY RoutedUnit DEF MemoryInv, MemoryTypeOK, ControlTypeOK, L2s
<1>3. PICK wr \in Nat : wr = staging.op3.lo
  BY DEF MemoryInv, ControlTypeOK, BufferTypeOK, Words
<1>4. PICK off \in Nat : off = DdrOff(d.hi)
  BY <1>1, DdrOffType
<1>5. Flushed(l2) \in DdrMem
  BY <1>2, FlushedUnfolds DEF L2s
<1>6. PICK D \in DdrMem : D = ddr'
  BY <1>2, <1>5 DEF sloop_load
<1>7. PICK rows : rows = Grid(d.lo, wr, off, d.st, d.h, d.len)
  OBVIOUS
<1>8. /\ ~halted' => ~Overruns(off, d.st, d.h, d.len)
      /\ l2' = IF halted' THEN l2 ELSE [l2 EXCEPT ![nest] = CopyRows(@, D, rows)]
  BY <1>3, <1>4, <1>6, <1>7 DEF sloop_load
<1>9. ~halted' => RowsRead(rows, d.h, 0 .. (DdrSize - 1))
  BY <1>1, <1>7, <1>8, FitsDdr
<1>10. l2[nest] \in L2Mem
  BY <1>2 DEF L2s
<1>11. ~halted' => CopyRows(l2[nest], D, rows) \in L2Mem
  BY <1>9, <1>10, IntoL2
<1>12. l2' \in L2s
  BY <1>2, <1>8, <1>11 DEF L2s
<1> QED
  BY <1>6, <1>12

(* The rows of an L2 to L2 copy before the first that would wrap. *)
InL2Rows == [d : Nat, s : Nat, n : Nat]

LEMMA BeforeWrapRead ==
  ASSUME NEW rows \in Seq(InL2Rows)
  PROVE  \E n \in Nat : RowsRead(BeforeWrap(rows), n, 0 .. (L2Size - 1))
<1> DEFINE I == {i \in 1 .. Len(rows) : Wraps(rows[i])}
           bad == IF I # {} THEN Min(I) ELSE 0
           done == IF bad = 0 THEN rows ELSE SubSeq(rows, 1, bad - 1)
<1>1. BeforeWrap(rows) = done
  BY DEF BeforeWrap, SelectInSeq
<1>2. Len(rows) \in Nat /\ DOMAIN rows = 1 .. Len(rows) /\ \A i \in 1 .. Len(rows) : rows[i] \in InL2Rows
  OBVIOUS
<1>3. \A r \in InL2Rows : ~Wraps(r) => RowReads(r, 0 .. (L2Size - 1))
  BY SizeAssumption DEF InL2Rows, Wraps, RowReads
<1>4. CASE I = {}
  <2>1. done = rows
    BY <1>4
  <2>2. \A i \in 1 .. Len(rows) : RowReads(rows[i], 0 .. (L2Size - 1))
    BY <1>2, <1>3, <1>4
  <2> HIDE DEF done
  <2> QED
    BY <1>1, <1>2, <2>1, <2>2 DEF RowsRead
<1>5. CASE I # {}
  <2>1. PICK m \in 1 .. Len(rows) : m = Min(I) /\ \A x \in I : m <= x
    <3>1. I \in SUBSET (1 .. Len(rows))
      OBVIOUS
    <3> HIDE DEF I
    <3> QED
      BY <1>2, <1>5, <3>1, MinInSet
  <2>2. bad = m
    BY <1>5, <2>1
  <2>3. done = SubSeq(rows, 1, m - 1)
    <3>1. m # 0
      OBVIOUS
    <3> HIDE DEF bad
    <3> QED
      BY <2>2, <3>1
  <2>4. \A i \in 1 .. m - 1 : i \in 1 .. Len(rows) /\ i \notin I
    <3> HIDE DEF I
    <3> QED
      BY <1>2, <2>1
  <2>5. \A i \in 1 .. m - 1 : RowReads(rows[i], 0 .. (L2Size - 1))
    BY <1>2, <1>3, <2>4
  <2> HIDE DEF I, bad, done
  <2>6. DOMAIN done = 1 .. m - 1 /\ \A i \in 1 .. m - 1 : done[i] = rows[i]
    BY <1>2, <2>1, <2>3
  <2>7. m - 1 \in Nat
    BY <1>2, <2>1
  <2>8. RowsRead(done, m - 1, 0 .. (L2Size - 1))
    BY <2>5, <2>6, <2>7 DEF RowsRead
  <2> QED
    BY <1>1, <2>7, <2>8
<1> QED
  BY <1>4, <1>5

LEMMA GridSeq ==
  ASSUME NEW d0 \in Nat, NEW dst \in Nat, NEW off \in Nat, NEW stride \in Nat,
         NEW h \in Nat \ {0}, NEW len \in Nat
  PROVE  Grid(d0, dst, off, stride, h, len) \in Seq(InL2Rows)
<1>1. \A i \in 1 .. h : d0 + (i - 1) * dst \in Nat /\ off + (i - 1) * stride \in Nat
  <2> TAKE i \in 1 .. h
  <2>1. i \in Nat \ {0}
    OBVIOUS
  <2> QED
    BY <2>1, StepType
<1>2. \A i \in 1 .. h : [d |-> d0 + (i - 1) * dst, s |-> off + (i - 1) * stride, n |-> len] \in InL2Rows
  BY <1>1 DEF InL2Rows
<1>3. Grid(d0, dst, off, stride, h, len) \in [1 .. h -> InL2Rows]
  BY <1>2 DEF Grid
<1>4. \A f \in [1 .. h -> InL2Rows] : f \in Seq(InL2Rows)
  OBVIOUS
<1> QED
  BY <1>3, <1>4

LEMMA CopyTypes ==
  ASSUME MemoryInv, NEW d \in Fw.scopy, sloop_copy(d)
  PROVE  l2' \in L2s
<1>1. /\ d.lo \in Nat /\ d.hi \in Nat /\ d.st \in Nat /\ d.h \in Nat \ {0} /\ d.len \in Nat
  BY FirmwareAssumption DEF DmaArgs
<1>2. nest \in Nests /\ l2 \in L2s /\ l2[nest] \in L2Mem /\ ddr \in DdrMem
  BY RoutedUnit DEF MemoryInv, MemoryTypeOK, ControlTypeOK, L2s
<1>3. PICK rd \in Nat : rd = IF d.st = 0 THEN d.len ELSE d.st
  BY <1>1
<1>4. PICK wr \in Nat : wr = IF staging.op3.lo = 0 THEN d.len ELSE staging.op3.lo
  BY <1>1 DEF MemoryInv, ControlTypeOK, BufferTypeOK, Words
<1>5. PICK rows : rows = IF rd = d.len /\ wr = d.len
                         THEN <<[d |-> d.hi, s |-> d.lo, n |-> d.h * d.len]>>
                         ELSE Grid(d.hi, wr, d.lo, rd, d.h, d.len)
  OBVIOUS
<1>6. rows \in Seq(InL2Rows)
  <2>1. PICK n \in Nat : n = d.h * d.len
    <3>1. \A x, y \in Nat : x * y \in Nat
      OBVIOUS
    <3> QED
      BY <1>1, <3>1
  <2>2. [d |-> d.hi, s |-> d.lo, n |-> n] \in InL2Rows
    BY <1>1 DEF InL2Rows
  <2>3. Grid(d.hi, wr, d.lo, rd, d.h, d.len) \in Seq(InL2Rows)
    BY <1>1, GridSeq
  <2>4. <<[d |-> d.hi, s |-> d.lo, n |-> n]>> \in Seq(InL2Rows)
    BY <2>2
  <2> QED
    BY <1>5, <2>1, <2>3, <2>4
<1>7. l2' = [l2 EXCEPT ![nest] = MoveRows(@, BeforeWrap(rows))]
  BY <1>3, <1>4, <1>5 DEF sloop_copy
<1>8. PICK done : done = BeforeWrap(rows)
  OBVIOUS
<1>9. PICK n \in Nat : RowsRead(done, n, 0 .. (L2Size - 1))
  BY <1>6, <1>8, BeforeWrapRead
<1>10. MoveRows(l2[nest], done) \in L2Mem
  BY <1>2, <1>9, IntoL2
<1> QED
  BY <1>2, <1>7, <1>8, <1>10 DEF L2s

(* An offset into an L1, as the SVR transfers take it. *)
LEMMA SvrWindow ==
  ASSUME NEW d \in SvrArgs, ~SvrRejected(d)
  PROVE  \E off \in Nat : off = d.addr % L1Size /\ off + SvrLen <= L1Size /\ current_spu \in Spus
<1>1. d.addr \in Nat /\ L1Size \in Nat \ {0}
  BY SizeAssumption DEF SvrArgs
<1>2. \A x \in Nat, y \in Nat \ {0} : x % y \in Nat
  OBVIOUS
<1>3. PICK off \in Nat : off = d.addr % L1Size
  BY <1>1, <1>2
<1>4. ~(off + SvrLen > L1Size) /\ current_spu \in Spus
  BY <1>3 DEF SvrRejected
<1> QED
  BY <1>3, <1>4, SizeAssumption

(* A register spread into an L1 stays inside it. *)
LEMMA StoreSvrTypes ==
  ASSUME MemoryInv, NEW d \in Fw.ssvr, store_svr(d)
  PROVE  l1' \in L1s
<1>1. d \in SvrArgs /\ nest \in Nests
  BY FirmwareAssumption, RoutedUnit DEF MemoryInv, ControlTypeOK
<1>2. PICK mem1 \in L1s : mem1 = AtBoundary(l1, DrainedL1)
  BY DrainedTypes
<1>3. PICK row : row = [d |-> d.addr % L1Size, s |-> 0, n |-> SvrLen]
  OBVIOUS
<1>4. PICK svr : svr = l0[nest][current_spu][d.reg]
  OBVIOUS
<1>5. l1' = IF SvrRejected(d) THEN mem1
            ELSE [mem1 EXCEPT ![nest][current_spu] = PutRow(@, svr, row)]
  BY <1>2, <1>3, <1>4 DEF store_svr
<1>6. CASE SvrRejected(d)
  BY <1>5, <1>6
<1>7. CASE ~SvrRejected(d)
  <2>1. PICK off \in Nat : off = d.addr % L1Size /\ off + SvrLen <= L1Size /\ current_spu \in Spus
    BY <1>1, <1>7, SvrWindow
  <2>2. svr \in [0 .. (SvrLen - 1) -> Val]
    BY <1>1, <1>4, <2>1 DEF SvrArgs, MemoryInv, MemoryTypeOK, L0Mem
  <2>3. ASSUME NEW mem \in L1Mem PROVE PutRow(mem, svr, row) \in L1Mem
    <3>1. DOMAIN mem = 0 .. (L1Size - 1) /\ \A a \in 0 .. (L1Size - 1) : mem[a] \in Val
      BY DEF L1Mem
    <3>2. row.d = off /\ row.s = 0 /\ row.n = SvrLen
      BY <1>3, <2>1
    <3>3. \A a \in 0 .. (L1Size - 1) : a \in off .. (off + SvrLen - 1) => svr[0 + (a - off)] \in Val
      BY <2>2, SizeAssumption
    <3> QED
      BY <3>1, <3>2, <3>3 DEF PutRow, L1Mem
  <2>4. PutRow(mem1[nest][current_spu], svr, row) \in L1Mem
    BY <1>1, <2>1, <2>3 DEF L1s
  <2> QED
    BY <1>1, <1>5, <1>7, <2>1, <2>4 DEF L1s
<1> QED
  BY <1>6, <1>7

(* The registers change by a write of one of them or by a load from L1 alone. *)
LEMMA RegistersKept ==
  ASSUME Next,
         \A w \in Fw.wsvr : ~wrspr_svr(w[1], w[2], w[3]),
         \A d \in Fw.lsvr : ~load_svr(d)
  PROVE  l0' = l0
<1>1. ASSUME Markers PROVE l0' = l0
  BY <1>1 DEF Markers, startp, badid, starts, startt, ends, endt, endp, split, join, Marker
<1>2. ASSUME SharedLoopOps PROVE l0' = l0
  BY <1>2 DEF SharedLoopOps, sloop_load, sloop_store, sloop_copy, idle_dma, Eager
<1>3. ASSUME ThreadLoopOps PROVE l0' = l0
  BY <1>3 DEF ThreadLoopOps, try_buffer, memory, dma_tloop, vector_op, ExecuteOnBank, Eager
<1>4. ASSUME ControlOps PROVE l0' = l0
  BY <1>4 DEF ControlOps, opset, memory, wrspr, rdspr, credit_ld_op, credit_st_op, Eager, credit_chk
<1>5. ASSUME MoverOps PROVE l0' = l0
  <2>1. \A d : mcast_s2l(d) => l0' = l0
    BY DEF mcast_s2l
  <2>2. \A d : mcast_g2s(d) => l0' = l0
    BY DEF mcast_g2s
  <2>3. \A d : mcast_s2s(d) => l0' = l0
    BY DEF mcast_s2s
  <2>4. \A d : copy_mem(d) => l0' = l0
    BY DEF copy_mem
  <2> QED
    BY <1>5, <2>1, <2>2, <2>3, <2>4 DEF MoverOps
<1>6. ASSUME SvrOps PROVE l0' = l0
  BY <1>6 DEF SvrOps, store_svr
<1> QED
  BY <1>1, <1>2, <1>3, <1>4, <1>5, <1>6 DEF Next

(* Every step leaves whole registers. *)
LEMMA RegisterTypes ==
  ASSUME MemoryInv, Next
  PROVE  l0' \in L0s
<1>1. /\ nest \in Nests /\ l0 \in L0s
      /\ is_ploop => nest = current_nest
      /\ ~is_ploop => nest = 0
      /\ is_tloop => is_ploop /\ current_spu \in Spus
      /\ 0 \in Nests /\ 0 \in Spus
  BY RoutedUnit, TopologyAssumption
     DEF MemoryInv, ControlTypeOK, WarpTypeOK, MemoryTypeOK, L0s, nest, is_ploop, is_tloop, Nests, Spus
<1>2. ASSUME NEW w \in Fw.wsvr, wrspr_svr(w[1], w[2], w[3]) PROVE l0' \in L0s
  <2>1. w[1] \in Svrs /\ w[2] \in 0 .. (SvrLen - 1) /\ w[3] \in Val
    BY FirmwareAssumption
  <2>2. PICK reg \in Svrs, i \in 0 .. (SvrLen - 1), value \in Val : reg = w[1] /\ i = w[2] /\ value = w[3]
    BY <2>1
  <2>3. \A mem \in L0Mem : [mem EXCEPT ![reg][i] = value] \in L0Mem
    BY DEF L0Mem
  <2>4. l0' = IF is_tloop
              THEN [l0 EXCEPT ![current_nest][current_spu][reg][i] = value]
              ELSE IF is_ploop
              THEN [l0 EXCEPT ![current_nest] = [s \in Spus |-> [@[s] EXCEPT ![reg][i] = value]]]
              ELSE [l0 EXCEPT ![0][0][reg][i] = value]
    BY <1>2, <2>2 DEF wrspr_svr
  <2>5. CASE is_tloop
    <3>1. l0' = [l0 EXCEPT ![current_nest][current_spu] = [@ EXCEPT ![reg][i] = value]]
      BY <2>4, <2>5
    <3>2. [l0[current_nest][current_spu] EXCEPT ![reg][i] = value] \in L0Mem
      BY <1>1, <2>3, <2>5 DEF L0s
    <3> QED
      BY <1>1, <2>5, <3>1, <3>2 DEF L0s
  <2>6. CASE ~is_tloop /\ is_ploop
    <3>1. l0' = [l0 EXCEPT ![current_nest] = [s \in Spus |-> [@[s] EXCEPT ![reg][i] = value]]]
      BY <2>4, <2>6
    <3>2. [s \in Spus |-> [l0[current_nest][s] EXCEPT ![reg][i] = value]] \in [Spus -> L0Mem]
      BY <1>1, <2>3, <2>6 DEF L0s
    <3> QED
      BY <1>1, <2>6, <3>1, <3>2 DEF L0s
  <2>7. CASE ~is_tloop /\ ~is_ploop
    <3>1. l0' = [l0 EXCEPT ![0][0] = [@ EXCEPT ![reg][i] = value]]
      BY <2>4, <2>7
    <3>2. [l0[0][0] EXCEPT ![reg][i] = value] \in L0Mem
      BY <1>1, <2>3 DEF L0s
    <3> QED
      BY <1>1, <3>1, <3>2 DEF L0s
  <2> QED
    BY <2>5, <2>6, <2>7
<1>3. ASSUME NEW d \in Fw.lsvr, load_svr(d) PROVE l0' \in L0s
  <2>1. d \in SvrArgs
    BY FirmwareAssumption
  <2>2. PICK mem1 \in L1s : mem1 = AtBoundary(l1, DrainedL1)
    BY DrainedTypes
  <2>3. PICK row : row = [x \in 0 .. (SvrLen - 1) |-> mem1[nest][current_spu][(d.addr % L1Size) + x]]
    OBVIOUS
  <2>4. l0' = IF SvrRejected(d) THEN l0 ELSE [l0 EXCEPT ![nest][current_spu][d.reg] = row]
    BY <1>3, <2>2, <2>3 DEF load_svr
  <2>5. CASE ~SvrRejected(d)
    <3>1. PICK off \in Nat : off = d.addr % L1Size /\ off + SvrLen <= L1Size /\ current_spu \in Spus
      BY <2>1, <2>5, SvrWindow
    <3>2. \A x \in 0 .. (SvrLen - 1) : off + x \in 0 .. (L1Size - 1)
      BY <3>1, SizeAssumption
    <3>3. mem1[nest][current_spu] \in [0 .. (L1Size - 1) -> Val]
      BY <1>1, <3>1 DEF L1s, L1Mem
    <3>4. row \in [0 .. (SvrLen - 1) -> Val]
      BY <2>3, <3>1, <3>2, <3>3
    <3>5. [l0[nest][current_spu] EXCEPT ![d.reg] = row] \in L0Mem
      BY <1>1, <3>1, <3>4 DEF L0s, L0Mem
    <3>6. l0' = [l0 EXCEPT ![nest][current_spu] = [@ EXCEPT ![d.reg] = row]]
      BY <2>4, <2>5
    <3> QED
      BY <1>1, <3>1, <3>5, <3>6 DEF L0s
  <2> QED
    BY <1>1, <2>4, <2>5
<1> QED
  BY <1>1, <1>2, <1>3, RegistersKept

LEMMA MulticastTypes ==
  ASSUME MemoryInv, NEW d \in Fw.s2l, mcast_s2l(d)
  PROVE  l1' \in L1s /\ l2' \in L2s
<1>1. /\ d.lo \in Nat /\ d.hi \in Nat /\ d.st \in Nat /\ d.h \in Nat \ {0} /\ d.len \in Nat
  BY FirmwareAssumption DEF DmaArgs
<1>2. nest \in Nests
  BY RoutedUnit DEF MemoryInv, ControlTypeOK
<1>3. PICK mem1 \in L1s : mem1 = AtBoundary(l1, DrainedL1)
  BY DrainedTypes
<1>4. PICK mem2 \in L2s : mem2 = AtBoundary(l2, DrainedL2)
  BY DrainedTypes
<1>5. PICK st \in Nat : st = Stride(d)
  BY <1>1 DEF Stride
<1>6. PICK rows : rows = Grid(d.lo, d.len, d.hi, st, d.h, d.len)
  OBVIOUS
<1>7. PICK chosen : chosen = Selected(staging.op3.lo, Spus)
  OBVIOUS
<1>8. /\ l2' = mem2
      /\ \/ l1' = mem1
         \/ /\ ~(st < d.len) /\ ~(d.hi + d.h * st > L2Size)
            /\ l1' = [mem1 EXCEPT ![nest] =
                       [s \in Spus |-> IF s \in chosen THEN CopyRows(@[s], mem2[nest], rows) ELSE @[s]]]
  BY <1>3, <1>4, <1>5, <1>6, <1>7 DEF mcast_s2l
<1>9. CASE l1' = mem1
  BY <1>3, <1>4, <1>8, <1>9
<1>10. CASE ~(l1' = mem1)
  <2>1. st >= d.len /\ d.hi + d.h * st <= L2Size
    <3>1. PICK p \in Nat : p = d.h * st
      <4>1. \A x, y \in Nat : x * y \in Nat
        OBVIOUS
      <4> QED
        BY <1>1, <4>1
    <3>2. ~(st < d.len) /\ ~(d.hi + p > L2Size)
      BY <1>8, <1>10, <3>1
    <3>3. st >= d.len /\ d.hi + p <= L2Size
      BY <1>1, <3>2, SizeAssumption
    <3> QED
      BY <3>1, <3>3
  <2>2. RowsRead(rows, d.h, 0 .. (L2Size - 1))
    BY <1>1, <1>6, <2>1, FitsL2
  <2>3. mem2[nest] \in [0 .. (L2Size - 1) -> Val] /\ 0 .. (L1Size - 1) \in SUBSET Int
    BY <1>2 DEF L2s, L2Mem
  <2>4. ASSUME NEW mem \in L1Mem PROVE CopyRows(mem, mem2[nest], rows) \in L1Mem
    <3>1. mem \in [0 .. (L1Size - 1) -> Val]
      BY DEF L1Mem
    <3>2. CopyFacts(CopyRows(mem, mem2[nest], rows), 0 .. (L1Size - 1), Val, mem, mem2[nest], rows, d.h)
      BY <2>2, <2>3, <3>1, CopyRowsFacts
    <3> QED
      BY <3>2 DEF CopyFacts, L1Mem
  <2>5. PICK row : row = [s \in Spus |-> IF s \in chosen THEN CopyRows(mem1[nest][s], mem2[nest], rows) ELSE mem1[nest][s]]
    OBVIOUS
  <2>6. row \in [Spus -> L1Mem]
    <3>1. \A s \in Spus : mem1[nest][s] \in L1Mem
      BY <1>2 DEF L1s
    <3> QED
      BY <2>4, <2>5, <3>1
  <2>7. l1' = [mem1 EXCEPT ![nest] = row]
    BY <1>8, <1>10, <2>5
  <2> QED
    BY <1>2, <1>8, <2>6, <2>7 DEF L1s
<1> QED
  BY <1>9, <1>10

LEMMA GatherTypes ==
  ASSUME MemoryInv, NEW d \in Fw.g2s, mcast_g2s(d)
  PROVE  l1' \in L1s /\ l2' \in L2s
<1>1. /\ d.lo \in Nat /\ d.hi \in Nat /\ d.st \in Nat /\ d.h \in Nat \ {0} /\ d.len \in Nat
  BY FirmwareAssumption DEF DmaArgs
<1>2. ddr \in DdrMem /\ l1' \in L1s
  BY DrainedTypes DEF MemoryInv, MemoryTypeOK, mcast_g2s
<1>3. PICK mem2 \in L2s : mem2 = AtBoundary(l2, DrainedL2)
  BY DrainedTypes
<1>4. PICK off \in Nat : off = DdrOff(d.hi)
  BY <1>1, DdrOffType
<1>5. PICK rows : rows = Grid(d.lo, d.len, off, d.len, d.h, d.len)
  OBVIOUS
<1>6. PICK chosen : chosen = Selected(staging.op3.lo, Nests)
  OBVIOUS
<1>7. \/ l2' = mem2
      \/ /\ ~Overruns(off, d.len, d.h, d.len)
         /\ l2' = [m \in Nests |-> IF m \in chosen THEN CopyRows(mem2[m], ddr, rows) ELSE mem2[m]]
  BY <1>3, <1>4, <1>5, <1>6 DEF mcast_g2s
<1>8. CASE l2' = mem2
  BY <1>2, <1>8
<1>9. CASE ~(l2' = mem2)
  <2>1. RowsRead(rows, d.h, 0 .. (DdrSize - 1))
    BY <1>1, <1>5, <1>7, <1>9, FitsDdr
  <2>2. \A m \in Nests : mem2[m] \in L2Mem
    BY DEF L2s
  <2>3. \A m \in Nests : CopyRows(mem2[m], ddr, rows) \in L2Mem
    BY <1>2, <2>1, <2>2, IntoL2
  <2>4. l2' = [m \in Nests |-> IF m \in chosen THEN CopyRows(mem2[m], ddr, rows) ELSE mem2[m]]
    BY <1>7, <1>9
  <2> QED
    BY <1>2, <2>2, <2>3, <2>4 DEF L2s
<1> QED
  BY <1>8, <1>9

LEMMA SpreadTypes ==
  ASSUME MemoryInv, NEW d \in Fw.s2s, mcast_s2s(d)
  PROVE  l1' \in L1s /\ l2' \in L2s
<1>1. d \in MoveArgs
  BY FirmwareAssumption
<1>2. l1' \in L1s
  BY DrainedTypes DEF mcast_s2s
<1>3. PICK mem2 \in [Nests -> L2Mem] : mem2 = AtBoundary(l2, DrainedL2)
  BY DrainedTypes DEF L2s
<1>4. PICK tmu \in Nests : tmu = IF d.tmu \in Nests THEN d.tmu ELSE 0
  BY TopologyAssumption DEF Nests
<1>5. PICK dst_st \in Nat : dst_st = staging.op3.lo
  BY DEF MemoryInv, ControlTypeOK, BufferTypeOK, Words
<1>6. PICK rows : rows = [i \in 1 .. d.h |-> WrappedRow(d, d.dst, dst_st, i)]
  OBVIOUS
<1>7. PICK mask : mask = staging.op3.hi
  OBVIOUS
<1>8. l2' = mem2 \/ l2' = SpreadRows(mem2, tmu, mask, rows)
  BY <1>3, <1>4, <1>5, <1>6, <1>7 DEF mcast_s2s
<1>9. RowsRead(rows, d.h, 0 .. (L2Size - 1))
  <2>1. d.dst \in Nat
    BY <1>1 DEF MoveArgs
  <2> QED
    BY <1>1, <1>6, <2>1, WrappedRowsRead
<1>10. SpreadRows(mem2, tmu, mask, rows) \in [Nests -> L2Mem]
  <2>1. PICK n : n = d.h
    OBVIOUS
  <2>2. RowsRead(rows, n, 0 .. (L2Size - 1))
    BY <1>9, <2>1
  <2> QED
    BY <2>2, SpreadRowsType
<1> QED
  BY <1>2, <1>8, <1>10 DEF L2s

LEMMA IncomingRowsRead ==
  ASSUME NEW d \in MoveArgs, NEW dst \in Nat, NEW dst_st \in Nat, NEW off \in Nat, off = DdrOff(d.src),
         ~Overruns(off, d.st, d.h, d.len)
  PROVE  RowsRead([i \in 1 .. d.h |-> IncomingRow(d, dst, dst_st, i)], d.h, 0 .. (DdrSize - 1))
<1>1. d.len \in Nat /\ d.h \in Nat \ {0} /\ d.st \in Nat
  BY DEF MoveArgs
<1>2. RowsRead(Grid(0, 0, off, d.st, d.h, d.len), d.h, 0 .. (DdrSize - 1))
  BY <1>1, FitsDdr
<1>3. ASSUME NEW i \in 1 .. d.h PROVE RowReads(IncomingRow(d, dst, dst_st, i), 0 .. (DdrSize - 1))
  <2>1. i \in Nat \ {0}
    BY <1>1
  <2>2. PICK s \in Nat : s = off + (i - 1) * d.st
    BY <1>1, <2>1, StepType
  <2>3. PICK y \in Nat : y = dst + (i - 1) * dst_st
    BY <2>1, StepType
  <2>4. PICK t \in 0 .. (L2Size - 1) : t = y % L2Size
    BY <2>3, WrapInL2
  <2>5. PICK l \in Int : l = L2Size - t
    BY <2>4, SizeAssumption
  <2>6. PICK k \in Int : k = d.len
    BY <1>1
  <2>7. PICK m \in Int : m = Min({k, l}) /\ m <= k
    BY MinOfTwo
  <2>8. PICK r : r = IncomingRow(d, dst, dst_st, i)
    OBVIOUS
  <2>9. r = [d |-> t, s |-> s, n |-> m]
    BY <2>2, <2>3, <2>4, <2>5, <2>6, <2>7, <2>8 DEF IncomingRow
  <2>10. \A o \in 0 .. k - 1 : s + o \in 0 .. (DdrSize - 1)
    <3>1. PICK g : g = Grid(0, 0, off, d.st, d.h, d.len)[i]
      OBVIOUS
    <3>2. RowReads(g, 0 .. (DdrSize - 1))
      BY <1>2, <3>1 DEF RowsRead
    <3>3. g.s = s /\ g.n = k
      BY <2>2, <2>6, <3>1 DEF Grid
    <3> QED
      BY <3>2, <3>3 DEF RowReads
  <2>11. \A o \in 0 .. m - 1 : o \in 0 .. k - 1
    BY <2>7
  <2>12. r.d = t /\ r.s = s /\ r.n = m
    BY <2>9
  <2>13. RowReads(r, 0 .. (DdrSize - 1))
    BY <2>10, <2>11, <2>12 DEF RowReads
  <2> QED
    BY <2>8, <2>13
<1> QED
  BY <1>1, <1>3 DEF RowsRead

LEMMA CopyMemTypes ==
  ASSUME MemoryInv, NEW d \in Fw.copymem, copy_mem(d)
  PROVE  l1' \in L1s /\ l2' \in L2s /\ ddr' \in DdrMem
<1> DEFINE dst == staging.op3.lo
           dst_st == d.dst_st + 65536 * staging.op3.hi
           srcDdr == d.src >= L2Size
           dstDdr == dst >= L2Size
           touchesDdr == d.len > 0 /\ (srcDdr \/ dstDdr)
           mem2 == AtBoundary(l2, DrainedL2)
           rejected == \/ d.len = 0
                       \/ touchesDdr /\ FlushFails
                       \/ srcDdr /\ Overruns(DdrOff(d.src), d.st, d.h, d.len)
                       \/ dstDdr /\ Overruns(DdrOff(dst), dst_st, d.h, d.len)
                       \/ dstDdr /\ ~srcDdr
           toDdr == Grid(DdrOff(dst), dst_st, DdrOff(d.src), d.st, d.h, d.len)
           toL2 == [i \in 1 .. d.h |-> IncomingRow(d, dst, dst_st, i)]
           inL2 == [i \in 1 .. d.h |-> WrappedRow(d, dst, dst_st, i)]
           committed == IF touchesDdr THEN Flushed(mem2) ELSE ddr
<1>1. /\ d \in MoveArgs /\ d.src \in Nat /\ d.len \in Nat /\ d.h \in Nat \ {0} /\ d.st \in Nat
      /\ d.dst_st \in Nat
  BY FirmwareAssumption DEF MoveArgs
<1>2. l1' \in L1s /\ nest \in Nests /\ ddr \in DdrMem /\ QueueTypeOK
  BY DrainedTypes, RoutedUnit DEF copy_mem, MemoryInv, ControlTypeOK, MemoryTypeOK
<1>3. ddr' = IF rejected \/ ~dstDdr THEN committed ELSE MoveRows(committed, toDdr)
  BY DEF copy_mem
<1>4. l2' = IF rejected \/ dstDdr THEN mem2
            ELSE [mem2 EXCEPT ![nest] = IF srcDdr THEN CopyRows(@, committed, toL2) ELSE MoveRows(@, inL2)]
  BY DEF copy_mem
<1>5. mem2 \in [Nests -> L2Mem]
  BY DrainedTypes DEF L2s
<1>6. dst \in Nat /\ dst_st \in Nat
  BY <1>1 DEF MemoryInv, ControlTypeOK, BufferTypeOK, Words
<1>7. PICK off \in Nat : off = DdrOff(d.src)
  BY <1>1, DdrOffType
<1>8. ~rejected /\ srcDdr => ~Overruns(off, d.st, d.h, d.len)
  BY <1>7
<1>9. ~rejected /\ dstDdr => srcDdr
  OBVIOUS
<1>10. committed \in DdrMem
  <2>1. Flushed(mem2) \in DdrMem
    <3> HIDE DEF mem2
    <3> QED
      BY <1>2, <1>5, FlushedUnfolds
  <2> HIDE DEF mem2, touchesDdr
  <2> QED
    BY <1>2, <2>1
<1>11. ~Overruns(off, d.st, d.h, d.len) => RowsRead(toDdr, d.h, 0 .. (DdrSize - 1))
  <2>1. PICK out \in Nat : out = DdrOff(dst)
    BY <1>6, DdrOffType
  <2> HIDE DEF dst, dst_st
  <2> QED
    BY <1>1, <1>6, <1>7, <2>1, FitsDdr
<1>12. ~Overruns(off, d.st, d.h, d.len) => RowsRead(toL2, d.h, 0 .. (DdrSize - 1))
  <2> HIDE DEF dst, dst_st
  <2> QED
    BY <1>1, <1>6, <1>7, IncomingRowsRead
<1>13. RowsRead(inL2, d.h, 0 .. (L2Size - 1))
  <2> HIDE DEF dst, dst_st
  <2> QED
    BY <1>1, <1>6, WrappedRowsRead
<1> HIDE DEF dst, dst_st, mem2, rejected, srcDdr, dstDdr, toDdr, toL2, inL2, committed
<1>14. ddr' \in DdrMem
  <2>1. ASSUME ~Overruns(off, d.st, d.h, d.len) PROVE MoveRows(committed, toDdr) \in DdrMem
    <3>1. committed \in [0 .. (DdrSize - 1) -> Val] /\ 0 .. (DdrSize - 1) \in SUBSET Int
      BY <1>10 DEF DdrMem
    <3>2. MoveRows(committed, toDdr) \in [0 .. (DdrSize - 1) -> Val]
      BY <1>11, <2>1, <3>1, MoveRowsType
    <3> QED
      BY <3>2 DEF DdrMem
  <2> QED
    BY <1>3, <1>8, <1>9, <1>10, <2>1
<1>15. l2' \in [Nests -> L2Mem]
  <2>1. mem2[nest] \in L2Mem
    BY <1>2, <1>5
  <2>2. ASSUME ~Overruns(off, d.st, d.h, d.len) PROVE CopyRows(mem2[nest], committed, toL2) \in L2Mem
    BY <1>10, <1>12, <2>1, <2>2, IntoL2
  <2>3. MoveRows(mem2[nest], inL2) \in L2Mem
    BY <1>2, <1>13, <2>1, IntoL2
  <2> QED
    BY <1>2, <1>4, <1>5, <1>8, <2>2, <2>3
<1> QED
  BY <1>2, <1>14, <1>15 DEF L2s

(* How a step may change the buffer and the anchors. *)
BufferMoves ==
  /\ \/ tloop_buf' \in {tloop_buf, <<>>}
     \/ \E i \in TLoopInsns : tloop_buf' = Append(tloop_buf, Entry(i[1], i[2]))
  /\ \/ lspr' = lspr
     \/ \E w \in Fw.anchors : wrspr(w[1], w[2])

LEMMA StepMovesBuffer ==
  ASSUME Next
  PROVE  BufferMoves
<1>1. ASSUME NEW id \in Fw.nest_ids, startp(id) PROVE BufferMoves
  BY <1>1 DEF startp, Marker, KeepQueue, BufferMoves
<1>2. ASSUME NEW id, NEW Units, badid(id, Units) PROVE BufferMoves
  BY <1>2 DEF badid, Marker, BufferMoves
<1>3. ASSUME NEW id \in Fw.gdmac_ids, starts(id) PROVE BufferMoves
  BY <1>3 DEF starts, Marker, KeepQueue, BufferMoves
<1>4. ASSUME NEW id \in Fw.spu_ids, startt(id) PROVE BufferMoves
  BY <1>4 DEF startt, Marker, KeepQueue, BufferMoves
<1>5. ASSUME ends PROVE BufferMoves
  BY <1>5 DEF ends, Marker, KeepQueue, BufferMoves
<1>6. ASSUME endt PROVE BufferMoves
  BY <1>6 DEF endt, Marker, KeepQueue, BufferMoves
<1>7. ASSUME endp PROVE BufferMoves
  BY <1>7 DEF endp, Marker, Settle, KeepQueue, FlushQueue, BufferMoves
<1>8. ASSUME split PROVE BufferMoves
  BY <1>8 DEF split, Marker, KeepQueue, BufferMoves
<1>9. ASSUME join PROVE BufferMoves
  BY <1>9 DEF join, Marker, Settle, FlushQueue, BufferMoves
<1>10. ASSUME NEW d \in Fw.sload, sloop_load(d) PROVE BufferMoves
  BY <1>10 DEF sloop_load, Eager, BufferMoves
<1>11. ASSUME NEW d \in Fw.sstore, sloop_store(d) PROVE BufferMoves
  BY <1>11 DEF sloop_store, Eager, BufferMoves
<1>12. ASSUME NEW d \in Fw.scopy, sloop_copy(d) PROVE BufferMoves
  BY <1>12 DEF sloop_copy, Eager, BufferMoves
<1>13. ASSUME idle_dma PROVE BufferMoves
  BY <1>13 DEF idle_dma, Eager, BufferMoves
<1>14. ASSUME NEW i \in TLoopInsns, try_buffer(i[1], i[2]) PROVE BufferMoves
  BY <1>14 DEF try_buffer, BufferMoves
<1>15. ASSUME NEW i \in Fw.tdma, dma_tloop(i[1], i[2]) PROVE BufferMoves
  BY <1>15 DEF dma_tloop, ExecuteOnBank, Eager, KeepQueue, BufferMoves
<1>16. ASSUME NEW i \in Fw.vec, vector_op(i[1], i[2]) PROVE BufferMoves
  BY <1>16 DEF vector_op, ExecuteOnBank, Eager, KeepQueue, BufferMoves
<1>17. ASSUME NEW w \in Fw.op3, opset("op3", w) PROVE BufferMoves
  BY <1>17 DEF opset, BufferMoves
<1>18. ASSUME NEW w \in Fw.op5, opset("op5", w) PROVE BufferMoves
  BY <1>18 DEF opset, BufferMoves
<1>19. ASSUME NEW w \in Fw.anchors, wrspr(w[1], w[2]) PROVE BufferMoves
  BY <1>19 DEF wrspr, HardBoundary, KeepQueue, BufferMoves, AtBoundary
<1>20. ASSUME rdspr PROVE BufferMoves
  BY <1>20 DEF rdspr, HardBoundary, KeepQueue, BufferMoves, AtBoundary
<1>21. ASSUME credit_ld_op PROVE BufferMoves
  BY <1>21 DEF credit_ld_op, Eager, KeepQueue, BufferMoves
<1>22. ASSUME NEW mask \in Fw.masks, credit_st_op(mask) PROVE BufferMoves
  BY <1>22 DEF credit_st_op, Eager, KeepQueue, BufferMoves
<1>23. ASSUME credit_chk PROVE BufferMoves
  BY <1>23 DEF credit_chk, KeepQueue, FlushQueue, BufferMoves
<1>24. ASSUME NEW d \in Fw.s2l, mcast_s2l(d) PROVE BufferMoves
  BY <1>24 DEF mcast_s2l, HardBoundary, BufferMoves, AtBoundary
<1>25. ASSUME NEW d \in Fw.g2s, mcast_g2s(d) PROVE BufferMoves
  BY <1>25 DEF mcast_g2s, HardBoundary, BufferMoves, AtBoundary
<1>26. ASSUME NEW d \in Fw.s2s, mcast_s2s(d) PROVE BufferMoves
  BY <1>26 DEF mcast_s2s, HardBoundary, BufferMoves, AtBoundary
<1>27. ASSUME NEW d \in Fw.copymem, copy_mem(d) PROVE BufferMoves
  BY <1>27 DEF copy_mem, HardBoundary, BufferMoves, AtBoundary
<1>28. ASSUME NEW w \in Fw.wsvr, wrspr_svr(w[1], w[2], w[3]) PROVE BufferMoves
  BY <1>28 DEF wrspr_svr, KeepQueue, HardBoundary, BufferMoves, AtBoundary
<1>29. ASSUME NEW d \in Fw.lsvr, load_svr(d) PROVE BufferMoves
  BY <1>29 DEF load_svr, HardBoundary, BufferMoves, AtBoundary
<1>30. ASSUME NEW d \in Fw.ssvr, store_svr(d) PROVE BufferMoves
  BY <1>30 DEF store_svr, HardBoundary, BufferMoves, AtBoundary
<1> QED
  BY <1>1, <1>2, <1>3, <1>4, <1>5, <1>6, <1>7, <1>8, <1>9, <1>10, <1>11, <1>12, <1>13, <1>14, <1>15, <1>16, <1>17, <1>18, <1>19, <1>20, <1>21, <1>22, <1>23, <1>24, <1>25, <1>26, <1>27, <1>28, <1>29, <1>30
     DEF Next, Markers, SharedLoopOps, ThreadLoopOps, ControlOps, MoverOps, SvrOps

LEMMA AnchorStep ==
  ASSUME WarpTypeOK, BufferTypeOK, AllAnchorsFit, BufferMoves
  PROVE  AllAnchorsFit'
<1>1. CASE lspr' = lspr
  BY <1>1 DEF AllAnchorsFit
<1>2. ASSUME NEW w \in Fw.anchors, wrspr(w[1], w[2]) PROVE AllAnchorsFit'
  <2>1. ASSUME NEW addr, AnchorsFit(addr) PROVE AnchorsFit(SetAnchor(addr, w[1], w[2]))
    <3>1. w[1] \in {"a", "b", "r"} /\ w[2] \in Nat /\ \A i \in Fw.vec : w[2] + i[2].n <= L1Size
      BY FirmwareAssumption
    <3>2. SetAnchor(addr, w[1], w[2]) \in Anchors
      BY <2>1, SetAnchorType DEF AnchorsFit
    <3>3. PICK v : v = w[2]
      OBVIOUS
    <3>4. CASE w[1] = "a"
      BY <2>1, <3>1, <3>2, <3>3, <3>4 DEF SetAnchor, AnchorsFit, Anchors
    <3>5. CASE w[1] = "b"
      BY <2>1, <3>1, <3>2, <3>3, <3>5 DEF SetAnchor, AnchorsFit, Anchors
    <3>6. CASE w[1] = "r"
      BY <2>1, <3>1, <3>2, <3>3, <3>6 DEF SetAnchor, AnchorsFit, Anchors
    <3> QED
      BY <3>1, <3>4, <3>5, <3>6
  <2>2. 0 \in Nests /\ 0 \in Spus /\ current_nest \in Nests /\ (is_tloop => current_spu \in Spus)
    BY TopologyAssumption DEF WarpTypeOK, Nests, Spus
  <2>3. lspr \in [Nests -> [Spus -> Anchors]]
    BY DEF BufferTypeOK
  <2>4. ASSUME NEW m \in Nests, NEW s \in Spus
        PROVE  lspr'[m][s] = lspr[m][s] \/ lspr'[m][s] = SetAnchor(lspr[m][s], w[1], w[2])
    BY <1>2, <2>2, <2>3 DEF wrspr
  <2> QED
    BY <2>1, <2>4 DEF AllAnchorsFit
<1> QED
  BY <1>1, <1>2 DEF BufferMoves

LEMMA CaptureStep ==
  ASSUME WarpTypeOK, BufferTypeOK, AllAnchorsFit, Captured(tloop_buf), BufferMoves
  PROVE  Captured(tloop_buf')
<1>1. CASE tloop_buf' = tloop_buf
  BY <1>1
<1>2. CASE tloop_buf' = <<>>
  BY <1>2 DEF Captured
<1>3. ASSUME NEW i \in TLoopInsns, tloop_buf' = Append(tloop_buf, Entry(i[1], i[2]))
      PROVE  Captured(tloop_buf')
  <2>1. PICK e : e = Entry(i[1], i[2])
    OBVIOUS
  <2>2. e \in TLoopEntries
    BY <2>1, EntryType
  <2>3. /\ e.mnemonic = i[1] /\ e.arg = i[2] /\ AnchorsFit(e.addr)
    BY <2>1, RoutedUnit DEF Entry, AllAnchorsFit
  <2>4. <<i[1], i[2]>> = i
    BY FirmwareAssumption DEF TLoopInsns
  <2>5. EntryFits(e)
    BY <2>2, <2>3, <2>4 DEF EntryFits
  <2>6. tloop_buf \in Seq(TLoopEntries) /\ \A j \in 1 .. Len(tloop_buf) : EntryFits(tloop_buf[j])
    BY DEF Captured
  <2>7. \A j \in 1 .. Len(tloop_buf') : EntryFits(tloop_buf'[j])
    BY <1>3, <2>1, <2>2, <2>5, <2>6
  <2> QED
    BY <1>3, <2>1, <2>2, <2>6, <2>7 DEF Captured
<1> QED
  BY <1>1, <1>2, <1>3 DEF BufferMoves

(* An instruction executed at once writes what its handler computes on the bank. *)
Moved == l1' \in L1s /\ l2' \in L2s /\ ddr' \in DdrMem

LEMMA ExecutedTypes ==
  ASSUME MemoryInv, NEW i \in TLoopInsns, ExecuteOnBank(i[1], i[2])
  PROVE  Moved
<1>1. PICK e : e = Entry(i[1], i[2])
  OBVIOUS
<1>2. e \in TLoopEntries
  BY <1>1, EntryType DEF MemoryInv, ControlTypeOK
<1>3. /\ e.mnemonic = i[1] /\ e.arg = i[2] /\ AnchorsFit(e.addr)
  BY <1>1, RoutedUnit DEF Entry, AllAnchorsFit, MemoryInv, ControlTypeOK
<1>4. <<i[1], i[2]>> = i
  BY FirmwareAssumption DEF TLoopInsns
<1>5. EntryFits(e)
  BY <1>2, <1>3, <1>4 DEF EntryFits
<1>6. PICK b \in Banks : b = Bank
  BY DrainedTypes
<1>7. PICK after \in Banks : after = Replay(e, b)
  BY <1>5, ReplayType
<1>8. WriteBank(after) /\ ddr' = ddr
  BY <1>1, <1>6, <1>7 DEF ExecuteOnBank, KeepQueue
<1> QED
  BY <1>8, WrittenTypes DEF Moved, MemoryInv, MemoryTypeOK

LEMMA MemoryStep ==
  ASSUME MemoryInv, Next
  PROVE  Moved
<1>1. ASSUME NEW id \in Fw.nest_ids, startp(id) PROVE Moved
  <2>1. l1' \in L1s /\ l2' \in L2s
    BY <1>1, MarkerTypes DEF startp
  <2>2. PICK mem2 \in L2s : mem2 = l2'
    BY <2>1
  <2>3. FlushQueue(mem2) \/ KeepQueue
    BY <1>1, <2>2 DEF startp
  <2> QED
    BY <2>1, <2>2, <2>3, CommitTypes DEF Moved
<1>2. ASSUME NEW id, NEW Units, badid(id, Units) PROVE Moved
  <2>1. l1' \in L1s /\ l2' \in L2s
    BY <1>2, MarkerTypes DEF badid
  <2>2. ddr' = ddr
    BY <1>2 DEF badid
  <2> QED
    BY <2>1, <2>2 DEF Moved, MemoryInv, MemoryTypeOK
<1>3. ASSUME NEW id \in Fw.gdmac_ids, starts(id) PROVE Moved
  <2>1. l1' \in L1s /\ l2' \in L2s
    BY <1>3, MarkerTypes DEF starts
  <2>2. PICK mem2 \in L2s : mem2 = l2'
    BY <2>1
  <2>3. FlushQueue(mem2) \/ KeepQueue
    BY <1>3, <2>2 DEF starts
  <2> QED
    BY <2>1, <2>2, <2>3, CommitTypes DEF Moved
<1>4. ASSUME NEW id \in Fw.spu_ids, startt(id) PROVE Moved
  <2>1. l1' \in L1s /\ l2' \in L2s
    BY <1>4, MarkerTypes DEF startt
  <2>2. PICK mem2 \in L2s : mem2 = l2'
    BY <2>1
  <2>3. FlushQueue(mem2) \/ KeepQueue
    BY <1>4, <2>2 DEF startt
  <2> QED
    BY <2>1, <2>2, <2>3, CommitTypes DEF Moved
<1>5. ASSUME ends PROVE Moved
  <2>1. l1' \in L1s /\ l2' \in L2s
    BY <1>5, MarkerTypes DEF ends
  <2>2. PICK mem2 \in L2s : mem2 = l2'
    BY <2>1
  <2>3. FlushQueue(mem2) \/ KeepQueue
    BY <1>5, <2>2 DEF ends
  <2> QED
    BY <2>1, <2>2, <2>3, CommitTypes DEF Moved
<1>6. ASSUME endt PROVE Moved
  <2>1. l1' \in L1s /\ l2' \in L2s
    BY <1>6, MarkerTypes DEF endt
  <2>2. PICK mem2 \in L2s : mem2 = l2'
    BY <2>1
  <2>3. FlushQueue(mem2) \/ KeepQueue
    BY <1>6, <2>2 DEF endt
  <2> QED
    BY <2>1, <2>2, <2>3, CommitTypes DEF Moved
<1>7. ASSUME endp PROVE Moved
  <2>1. l1' \in L1s /\ l2' \in L2s
    BY <1>7, MarkerTypes DEF endp
  <2>2. PICK mem2 \in L2s : mem2 = l2'
    BY <2>1
  <2>3. FlushQueue(mem2) \/ KeepQueue
    BY <1>7, <2>2 DEF endp
  <2> QED
    BY <2>1, <2>2, <2>3, CommitTypes DEF Moved
<1>8. ASSUME split PROVE Moved
  <2>1. l1' \in L1s /\ l2' \in L2s
    BY <1>8, MarkerTypes DEF split
  <2>2. PICK mem2 \in L2s : mem2 = l2'
    BY <2>1
  <2>3. FlushQueue(mem2) \/ KeepQueue
    BY <1>8, <2>2 DEF split
  <2> QED
    BY <2>1, <2>2, <2>3, CommitTypes DEF Moved
<1>9. ASSUME join PROVE Moved
  <2>1. l1' \in L1s /\ l2' \in L2s
    BY <1>9, MarkerTypes DEF join
  <2>2. PICK mem2 \in L2s : mem2 = l2'
    BY <2>1
  <2>3. FlushQueue(mem2) \/ KeepQueue
    BY <1>9, <2>2 DEF join
  <2> QED
    BY <2>1, <2>2, <2>3, CommitTypes DEF Moved
<1>10. ASSUME NEW d \in Fw.sload, sloop_load(d) PROVE Moved
  <2>1. l1' = l1
    BY <1>10 DEF sloop_load
  <2> QED
    BY <1>10, <2>1, LoadTypes DEF Moved, MemoryInv, MemoryTypeOK, L1s
<1>11. ASSUME NEW d \in Fw.sstore, sloop_store(d) PROVE Moved
  BY <1>11 DEF sloop_store, memory, Moved, MemoryInv, MemoryTypeOK, L1s, L2s
<1>12. ASSUME NEW d \in Fw.scopy, sloop_copy(d) PROVE Moved
  <2>1. l1' = l1 /\ ddr' = ddr
    BY <1>12 DEF sloop_copy
  <2> QED
    BY <1>12, <2>1, CopyTypes DEF Moved, MemoryInv, MemoryTypeOK, L1s
<1>13. ASSUME idle_dma PROVE Moved
  BY <1>13 DEF idle_dma, memory, Moved, MemoryInv, MemoryTypeOK, L1s, L2s
<1>14. ASSUME NEW i \in TLoopInsns, try_buffer(i[1], i[2]) PROVE Moved
  BY <1>14 DEF try_buffer, memory, Moved, MemoryInv, MemoryTypeOK, L1s, L2s
<1>15. ASSUME NEW i \in Fw.tdma, dma_tloop(i[1], i[2]) PROVE Moved
  <2>1. i \in TLoopInsns
    BY DEF TLoopInsns
  <2>2. ExecuteOnBank(i[1], i[2])
    BY <1>15 DEF dma_tloop
  <2> QED
    BY <2>1, <2>2, ExecutedTypes
<1>16. ASSUME NEW i \in Fw.vec, vector_op(i[1], i[2]) PROVE Moved
  <2>1. i \in TLoopInsns
    BY DEF TLoopInsns
  <2>2. ExecuteOnBank(i[1], i[2])
    BY <1>16 DEF vector_op
  <2> QED
    BY <2>1, <2>2, ExecutedTypes
<1>17. ASSUME NEW w \in Fw.op3, opset("op3", w) PROVE Moved
  BY <1>17 DEF opset, memory, Moved, MemoryInv, MemoryTypeOK, L1s, L2s
<1>18. ASSUME NEW w \in Fw.op5, opset("op5", w) PROVE Moved
  BY <1>18 DEF opset, memory, Moved, MemoryInv, MemoryTypeOK, L1s, L2s
<1>19. ASSUME NEW w \in Fw.anchors, wrspr(w[1], w[2]) PROVE Moved
  BY <1>19, DrainedTypes DEF wrspr, KeepQueue, Moved, MemoryInv, MemoryTypeOK
<1>20. ASSUME rdspr PROVE Moved
  BY <1>20, DrainedTypes DEF rdspr, KeepQueue, Moved, MemoryInv, MemoryTypeOK
<1>21. ASSUME credit_ld_op PROVE Moved
  BY <1>21 DEF credit_ld_op, KeepQueue, Moved, MemoryInv, MemoryTypeOK, L1s, L2s
<1>22. ASSUME NEW mask \in Fw.masks, credit_st_op(mask) PROVE Moved
  BY <1>22 DEF credit_st_op, KeepQueue, Moved, MemoryInv, MemoryTypeOK, L1s, L2s
<1>23. ASSUME credit_chk PROVE Moved
  <2>1. l1' = l1 /\ l2' = l2 /\ (FlushQueue(l2) \/ KeepQueue)
    BY <1>23 DEF credit_chk
  <2>2. l1 \in L1s /\ l2 \in L2s
    BY DEF MemoryInv, MemoryTypeOK, L1s, L2s
  <2> QED
    BY <2>1, <2>2, CommitTypes DEF Moved
<1>24. ASSUME NEW d \in Fw.s2l, mcast_s2l(d) PROVE Moved
  <2>1. ddr' = ddr
    BY <1>24 DEF mcast_s2l
  <2> QED
    BY <1>24, <2>1, MulticastTypes DEF Moved, MemoryInv, MemoryTypeOK
<1>25. ASSUME NEW d \in Fw.g2s, mcast_g2s(d) PROVE Moved
  <2>1. ddr' = ddr
    BY <1>25 DEF mcast_g2s
  <2> QED
    BY <1>25, <2>1, GatherTypes DEF Moved, MemoryInv, MemoryTypeOK
<1>26. ASSUME NEW d \in Fw.s2s, mcast_s2s(d) PROVE Moved
  <2>1. ddr' = ddr
    BY <1>26 DEF mcast_s2s
  <2> QED
    BY <1>26, <2>1, SpreadTypes DEF Moved, MemoryInv, MemoryTypeOK
<1>27. ASSUME NEW d \in Fw.copymem, copy_mem(d) PROVE Moved
  BY <1>27, CopyMemTypes DEF Moved
<1>28. ASSUME NEW w \in Fw.wsvr, wrspr_svr(w[1], w[2], w[3]) PROVE Moved
  BY <1>28, DrainedTypes DEF wrspr_svr, KeepQueue, Moved, MemoryInv, MemoryTypeOK
<1>29. ASSUME NEW d \in Fw.lsvr, load_svr(d) PROVE Moved
  BY <1>29, DrainedTypes DEF load_svr, Moved, MemoryInv, MemoryTypeOK
<1>30. ASSUME NEW d \in Fw.ssvr, store_svr(d) PROVE Moved
  BY <1>30, DrainedTypes, StoreSvrTypes DEF store_svr, Moved, MemoryInv, MemoryTypeOK
<1> QED
  BY <1>1, <1>2, <1>3, <1>4, <1>5, <1>6, <1>7, <1>8, <1>9, <1>10, <1>11, <1>12, <1>13, <1>14, <1>15, <1>16, <1>17, <1>18, <1>19, <1>20, <1>21, <1>22, <1>23, <1>24, <1>25, <1>26, <1>27, <1>28, <1>29, <1>30
     DEF Next, Markers, SharedLoopOps, ThreadLoopOps, ControlOps, MoverOps, SvrOps

(* The inductive invariant holds. *)
LEMMA MemoryInvariant == Spec => []MemoryInv
<1>1. Init => MemoryInv
  <2> SUFFICES ASSUME Init PROVE MemoryInv
    OBVIOUS
  <2>1. ControlTypeOK
    BY InitTypes
  <2>2. MemoryTypeOK
    BY ImageAssumption DEF Init, MemoryTypeOK, PerSpu, L0Mem, L1Mem, L2Mem, DdrMem
  <2>3. Captured(tloop_buf)
    BY DEF Init, Captured
  <2>4. AllAnchorsFit
    <3>1. \A i \in Fw.vec : i[2].n \in Nat /\ i[2].n <= L1Size
      BY FirmwareAssumption DEF VecArgs
    <3>2. AnchorsFit([a |-> 0, b |-> 0, r |-> 0])
      BY <3>1 DEF AnchorsFit, Anchors
    <3> QED
      BY <3>2 DEF Init, AllAnchorsFit, PerSpu
  <2> QED
    BY <2>1, <2>2, <2>3, <2>4 DEF MemoryInv
<1>2. MemoryInv /\ [Next]_vars => MemoryInv'
  <2>1. ASSUME MemoryInv, Next PROVE MemoryInv'
    <3>1. WarpTypeOK /\ BufferTypeOK /\ QueueTypeOK /\ CreditTypeOK /\ AllAnchorsFit /\ Captured(tloop_buf)
      BY <2>1 DEF MemoryInv, ControlTypeOK
    <3>2. BufferMoves
      BY <2>1, StepMovesBuffer
    <3>3. ControlTypeOK'
      BY <2>1, <3>1, WarpStep, BufferStep, QueueStep, CreditStep DEF ControlTypeOK
    <3>4. AllAnchorsFit'
      BY <3>1, <3>2, AnchorStep
    <3>5. Captured(tloop_buf')
      BY <3>1, <3>2, CaptureStep
    <3>6. MemoryTypeOK'
      BY <2>1, MemoryStep, RegisterTypes DEF Moved, MemoryTypeOK, L0s, L1s, L2s
    <3> QED
      BY <3>3, <3>4, <3>5, <3>6 DEF MemoryInv
  <2>2. ASSUME MemoryInv, UNCHANGED vars PROVE MemoryInv'
    <3>1. ControlTypeOK'
      BY <2>2, Stutter DEF MemoryInv
    <3> QED
      BY <2>2, <3>1 DEF MemoryInv, vars, memory, MemoryTypeOK, AllAnchorsFit
  <2> QED
    BY <2>1, <2>2
<1> QED
  BY <1>1, <1>2, PTL DEF Spec

(* Type correctness in full, for every topology, memory size and firmware: no transfer, drain,
   fused run, multicast or commit writes outside a memory, leaves a hole in one, or reads a
   cell that is not there; the ids name real units and no counter goes below zero. *)
THEOREM NpuTypesCorrect == Spec => []TypeOK
<1>1. MemoryInv => TypeOK
  BY DEF MemoryInv, TypeOK
<1> QED
  BY <1>1, MemoryInvariant, PTL


-----------------------------------------------------------------------------
(* Routing: the memories a step may change, and the four instructions with a wider reach. *)
SpreadsToSpus == \E d \in Fw.s2l : mcast_s2l(d)
SpreadsToNests == \E d \in Fw.g2s : mcast_g2s(d)
SpreadsWithin == \E d \in Fw.s2s : mcast_s2s(d)
WritesSvr == \E w \in Fw.wsvr : wrspr_svr(w[1], w[2], w[3])
LoadsSvr == \E d \in Fw.lsvr : load_svr(d)
StoresSvr == \E d \in Fw.ssvr : store_svr(d)

ReachesL0 ==
  \A m \in Nests, s \in Spus :
    l0'[m][s] # l0[m][s] =>
      /\ m = nest
      /\ \/ s = spu
         \/ is_ploop /\ WritesSvr
         \/ s = current_spu /\ LoadsSvr

ReachesL1 ==
  \A m \in Nests, s \in Spus :
    l1'[m][s] # l1[m][s] =>
      /\ m = nest
      /\ \/ s = spu
         \/ s \in Selected(staging.op3.lo, Spus) /\ SpreadsToSpus
         \/ s = current_spu /\ StoresSvr

ReachesL2 ==
  \A m \in Nests :
    l2'[m] # l2[m] =>
      \/ m = nest
      \/ m \in Selected(staging.op3.lo, Nests) /\ SpreadsToNests
      \/ m \in Selected(staging.op3.hi, Nests) /\ SpreadsWithin

KeepsWhileStaged == staging' # NoStaging /\ ~halted' => UNCHANGED <<memory, credits, warp>>

Reaches == ReachesL1 /\ ReachesL2 /\ KeepsWhileStaged

(* Changing only the thread's L1, or only the plan's L2, is within reach. *)
LEMMA OwnL1 ==
  ASSUME MemoryInv, NEW x, l1' \in {l1, [l1 EXCEPT ![nest][spu] = x]}
  PROVE  ReachesL1
<1>1. nest \in Nests /\ spu \in Spus
  BY RoutedUnit DEF MemoryInv, ControlTypeOK
<1>2. l1 \in [Nests -> [Spus -> L1Mem]]
  BY DEF MemoryInv, MemoryTypeOK
<1> QED
  BY <1>1, <1>2 DEF ReachesL1

LEMMA OwnL2 ==
  ASSUME MemoryInv, NEW x, l2' \in {l2, [l2 EXCEPT ![nest] = x]}
  PROVE  ReachesL2
<1>1. nest \in Nests /\ l2 \in [Nests -> L2Mem]
  BY RoutedUnit DEF MemoryInv, ControlTypeOK, MemoryTypeOK
<1> QED
  BY <1>1 DEF ReachesL2

LEMMA MarkerReaches ==
  ASSUME MemoryInv, Marker
  PROVE  ReachesL1 /\ ReachesL2
<1>1. PICK x, y : l1' = [l1 EXCEPT ![nest][spu] = x] /\ l2' = [l2 EXCEPT ![nest] = y]
  BY DEF Marker, WriteBank
<1>2. l1' \in {l1, [l1 EXCEPT ![nest][spu] = x]} /\ l2' \in {l2, [l2 EXCEPT ![nest] = y]}
  BY <1>1
<1> QED
  BY <1>2, OwnL1, OwnL2

LEMMA BoundaryReachesL1 ==
  ASSUME MemoryInv, l1' = AtBoundary(l1, DrainedL1)
  PROVE  ReachesL1
<1>1. PICK x : x = Drained.l1
  OBVIOUS
<1>2. l1' \in {l1, [l1 EXCEPT ![nest][spu] = x]}
  BY <1>1 DEF AtBoundary, DrainedL1
<1> QED
  BY <1>2, OwnL1

LEMMA BoundaryReachesL2 ==
  ASSUME MemoryInv, l2' = AtBoundary(l2, DrainedL2)
  PROVE  ReachesL2
<1>1. PICK x : x = Drained.l2
  OBVIOUS
<1>2. l2' \in {l2, [l2 EXCEPT ![nest] = x]}
  BY <1>1 DEF AtBoundary, DrainedL2
<1> QED
  BY <1>2, OwnL2

(* What a boundary drains in other units than the thread's, it leaves alone. *)
LEMMA BoundaryElsewhere ==
  ASSUME MemoryInv
  PROVE  /\ \A m \in Nests \ {nest} : AtBoundary(l1, DrainedL1)[m] = l1[m]
         /\ \A s \in Spus \ {spu} : AtBoundary(l1, DrainedL1)[nest][s] = l1[nest][s]
         /\ \A m \in Nests \ {nest} : AtBoundary(l2, DrainedL2)[m] = l2[m]
         /\ AtBoundary(l1, DrainedL1) \in L1s /\ AtBoundary(l2, DrainedL2) \in L2s
<1>1. nest \in Nests /\ spu \in Spus
  BY RoutedUnit DEF MemoryInv, ControlTypeOK
<1>2. l1 \in [Nests -> [Spus -> L1Mem]] /\ l2 \in [Nests -> L2Mem]
  BY DEF MemoryInv, MemoryTypeOK
<1> QED
  BY <1>1, <1>2, DrainedTypes DEF AtBoundary, DrainedL1, DrainedL2

(* Spreading rows over the selected NESTs leaves the others alone. *)
LEMMA SpreadKeeps ==
  ASSUME NEW mem2 \in [Nests -> L2Mem], NEW from \in Nests, NEW mask, NEW rows, NEW n,
         RowsRead(rows, n, 0 .. (L2Size - 1)), NEW m \in Nests \ Selected(mask, Nests)
  PROVE  SpreadRows(mem2, from, mask, rows)[m] = mem2[m]
<1>1. n \in Nat
  BY DEF RowsRead
<1>2. PICK acc \in [0 .. n -> [Nests -> L2Mem]] :
        /\ SpreadChain(acc, mem2, from, mask, rows, n)
        /\ SpreadRows(mem2, from, mask, rows) = acc[n]
  <2>1. SpreadUnfolds(SpreadRows(mem2, from, mask, rows), [Nests -> L2Mem], mem2, from, mask, rows, n)
    BY SpreadRowsChain
  <2> QED
    BY <2>1 DEF SpreadUnfolds
<1> DEFINE T == {k \in 0 .. n : acc[k][m] = mem2[m]}
<1>3. 0 \in T
  BY <1>1, <1>2 DEF SpreadChain
<1>4. \A k \in 0 .. n - 1 : k \in T => k + 1 \in T
  <2> TAKE k \in 0 .. n - 1
  <2> HAVE k \in T
  <2>1. k + 1 \in 1 .. n /\ k + 1 - 1 = k
    BY <1>1
  <2>2. acc[k + 1] = SpreadRow(acc[k], from, mask, rows[k + 1])
    BY <1>2, <2>1 DEF SpreadChain
  <2>3. acc[k + 1][m] = acc[k][m]
    BY <2>2 DEF SpreadRow
  <2> QED
    BY <2>1, <2>3
<1>5. 0 .. n \subseteq T
  <2> HIDE DEF T
  <2> QED
    BY <1>1, <1>3, <1>4, UpToInduction
<1>6. n \in 0 .. n
  BY <1>1
<1> QED
  BY <1>2, <1>5, <1>6

LEMMA ReachStep ==
  ASSUME MemoryInv, Next
  PROVE  Reaches
<1>1. ASSUME NEW id \in Fw.nest_ids, startp(id) PROVE Reaches
  <2>1. ReachesL1 /\ ReachesL2
    BY <1>1, MarkerReaches DEF startp
  <2> QED
    BY <1>1, <2>1 DEF Reaches, KeepsWhileStaged, startp, ClearStaging
<1>2. ASSUME NEW id, NEW Units, badid(id, Units) PROVE Reaches
  <2>1. ReachesL1 /\ ReachesL2
    BY <1>2, MarkerReaches DEF badid
  <2> QED
    BY <1>2, <2>1 DEF Reaches, KeepsWhileStaged, badid, ClearStaging
<1>3. ASSUME NEW id \in Fw.gdmac_ids, starts(id) PROVE Reaches
  <2>1. ReachesL1 /\ ReachesL2
    BY <1>3, MarkerReaches DEF starts
  <2> QED
    BY <1>3, <2>1 DEF Reaches, KeepsWhileStaged, starts, ClearStaging
<1>4. ASSUME NEW id \in Fw.spu_ids, startt(id) PROVE Reaches
  <2>1. ReachesL1 /\ ReachesL2
    BY <1>4, MarkerReaches DEF startt
  <2> QED
    BY <1>4, <2>1 DEF Reaches, KeepsWhileStaged, startt, ClearStaging
<1>5. ASSUME ends PROVE Reaches
  <2>1. ReachesL1 /\ ReachesL2
    BY <1>5, MarkerReaches DEF ends
  <2> QED
    BY <1>5, <2>1 DEF Reaches, KeepsWhileStaged, ends, ClearStaging
<1>6. ASSUME endt PROVE Reaches
  <2>1. ReachesL1 /\ ReachesL2
    BY <1>6, MarkerReaches DEF endt
  <2> QED
    BY <1>6, <2>1 DEF Reaches, KeepsWhileStaged, endt, ClearStaging
<1>7. ASSUME endp PROVE Reaches
  <2>1. ReachesL1 /\ ReachesL2
    BY <1>7, MarkerReaches DEF endp
  <2> QED
    BY <1>7, <2>1 DEF Reaches, KeepsWhileStaged, endp, ClearStaging
<1>8. ASSUME split PROVE Reaches
  <2>1. ReachesL1 /\ ReachesL2
    BY <1>8, MarkerReaches DEF split
  <2> QED
    BY <1>8, <2>1 DEF Reaches, KeepsWhileStaged, split, ClearStaging
<1>9. ASSUME join PROVE Reaches
  <2>1. ReachesL1 /\ ReachesL2
    BY <1>9, MarkerReaches DEF join
  <2> QED
    BY <1>9, <2>1 DEF Reaches, KeepsWhileStaged, join, ClearStaging
<1>10. ASSUME NEW d \in Fw.sload, sloop_load(d) PROVE Reaches
  BY <1>10, OwnL1, OwnL2 DEF Reaches, KeepsWhileStaged, sloop_load, ClearStaging, memory, credits, warp
<1>11. ASSUME NEW d \in Fw.sstore, sloop_store(d) PROVE Reaches
  BY <1>11, OwnL1, OwnL2 DEF Reaches, KeepsWhileStaged, sloop_store, ClearStaging, memory, credits, warp
<1>12. ASSUME NEW d \in Fw.scopy, sloop_copy(d) PROVE Reaches
  <2>1. PICK y : l2' = [l2 EXCEPT ![nest] = y]
    BY <1>12 DEF sloop_copy
  <2>2. l1' \in {l1, [l1 EXCEPT ![nest][spu] = y]} /\ l2' \in {l2, [l2 EXCEPT ![nest] = y]}
    BY <1>12, <2>1 DEF sloop_copy
  <2>3. ReachesL1 /\ ReachesL2
    BY <2>2, OwnL1, OwnL2
  <2> QED
    BY <1>12, <2>3 DEF Reaches, KeepsWhileStaged, sloop_copy, ClearStaging
<1>13. ASSUME idle_dma PROVE Reaches
  BY <1>13, OwnL1, OwnL2 DEF Reaches, KeepsWhileStaged, idle_dma, ClearStaging, memory, credits, warp
<1>14. ASSUME NEW i \in TLoopInsns, try_buffer(i[1], i[2]) PROVE Reaches
  BY <1>14, OwnL1, OwnL2 DEF Reaches, KeepsWhileStaged, try_buffer, memory, credits, warp
<1>15. ASSUME NEW i \in Fw.tdma, dma_tloop(i[1], i[2]) PROVE Reaches
  <2>1. PICK x, y : l1' = [l1 EXCEPT ![nest][spu] = x] /\ l2' = [l2 EXCEPT ![nest] = y]
    BY <1>15 DEF dma_tloop, ExecuteOnBank, WriteBank
  <2>2. l1' \in {l1, [l1 EXCEPT ![nest][spu] = x]} /\ l2' \in {l2, [l2 EXCEPT ![nest] = y]}
    BY <2>1
  <2>3. ReachesL1 /\ ReachesL2
    BY <2>2, OwnL1, OwnL2
  <2> QED
    BY <1>15, <2>3 DEF Reaches, KeepsWhileStaged, dma_tloop, ExecuteOnBank, ClearStaging
<1>16. ASSUME NEW i \in Fw.vec, vector_op(i[1], i[2]) PROVE Reaches
  <2>1. PICK x, y : l1' = [l1 EXCEPT ![nest][spu] = x] /\ l2' = [l2 EXCEPT ![nest] = y]
    BY <1>16 DEF vector_op, ExecuteOnBank, WriteBank
  <2>2. l1' \in {l1, [l1 EXCEPT ![nest][spu] = x]} /\ l2' \in {l2, [l2 EXCEPT ![nest] = y]}
    BY <2>1
  <2>3. ReachesL1 /\ ReachesL2
    BY <2>2, OwnL1, OwnL2
  <2> QED
    BY <1>16, <2>3 DEF Reaches, KeepsWhileStaged, vector_op, ExecuteOnBank, ClearStaging
<1>17. ASSUME NEW w \in Fw.op3, opset("op3", w) PROVE Reaches
  BY <1>17, OwnL1, OwnL2 DEF Reaches, KeepsWhileStaged, opset, memory, credits, warp
<1>18. ASSUME NEW w \in Fw.op5, opset("op5", w) PROVE Reaches
  BY <1>18, OwnL1, OwnL2 DEF Reaches, KeepsWhileStaged, opset, memory, credits, warp
<1>19. ASSUME NEW w \in Fw.anchors, wrspr(w[1], w[2]) PROVE Reaches
  BY <1>19, BoundaryReachesL1, BoundaryReachesL2 DEF Reaches, KeepsWhileStaged, wrspr, ClearStaging
<1>20. ASSUME rdspr PROVE Reaches
  BY <1>20, BoundaryReachesL1, BoundaryReachesL2 DEF Reaches, KeepsWhileStaged, rdspr, ClearStaging
<1>21. ASSUME credit_ld_op PROVE Reaches
  BY <1>21, OwnL1, OwnL2 DEF Reaches, KeepsWhileStaged, credit_ld_op, ClearStaging, memory, credits, warp
<1>22. ASSUME NEW mask \in Fw.masks, credit_st_op(mask) PROVE Reaches
  BY <1>22, OwnL1, OwnL2 DEF Reaches, KeepsWhileStaged, credit_st_op, ClearStaging, memory, credits, warp
<1>23. ASSUME credit_chk PROVE Reaches
  BY <1>23, OwnL1, OwnL2 DEF Reaches, KeepsWhileStaged, credit_chk, ClearStaging, memory, credits, warp
<1>24. ASSUME NEW d \in Fw.s2l, mcast_s2l(d) PROVE Reaches
  <2> DEFINE mem1 == AtBoundary(l1, DrainedL1)
             rows == Grid(d.lo, d.len, d.hi, Stride(d), d.h, d.len)
  <2>1. /\ l1' \in {mem1, [mem1 EXCEPT ![nest] =
                  [s \in Spus |-> IF s \in Selected(staging.op3.lo, Spus)
                                  THEN CopyRows(@[s], AtBoundary(l2, DrainedL2)[nest], rows)
                                  ELSE @[s]]]}
        /\ l2' = AtBoundary(l2, DrainedL2) /\ ClearStaging
    BY <1>24 DEF mcast_s2l
  <2>2. nest \in Nests /\ mem1 \in L1s
    BY BoundaryElsewhere, RoutedUnit DEF MemoryInv, ControlTypeOK
  <2>3. /\ \A m \in Nests \ {nest} : mem1[m] = l1[m]
        /\ \A s \in Spus \ {spu} : mem1[nest][s] = l1[nest][s]
    BY BoundaryElsewhere
  <2> HIDE DEF mem1, rows
  <2>4. /\ \A m \in Nests \ {nest} : l1'[m] = mem1[m]
        /\ \A s \in Spus \ Selected(staging.op3.lo, Spus) : l1'[nest][s] = mem1[nest][s]
    BY <2>1, <2>2 DEF L1s
  <2>5. ReachesL1
    BY <1>24, <2>3, <2>4 DEF ReachesL1, SpreadsToSpus
  <2> QED
    BY <2>1, <2>5, BoundaryReachesL2 DEF Reaches, KeepsWhileStaged, ClearStaging
<1>25. ASSUME NEW d \in Fw.g2s, mcast_g2s(d) PROVE Reaches
  <2> DEFINE mem2 == AtBoundary(l2, DrainedL2)
             rows == Grid(d.lo, d.len, DdrOff(d.hi), d.len, d.h, d.len)
  <2>1. /\ l2' \in {mem2, [m \in Nests |-> IF m \in Selected(staging.op3.lo, Nests)
                                           THEN CopyRows(mem2[m], ddr, rows) ELSE mem2[m]]}
        /\ l1' = AtBoundary(l1, DrainedL1) /\ ClearStaging
    BY <1>25 DEF mcast_g2s
  <2>2. \A m \in Nests \ {nest} : mem2[m] = l2[m]
    BY BoundaryElsewhere
  <2> HIDE DEF mem2, rows
  <2>3. \A m \in Nests \ Selected(staging.op3.lo, Nests) : l2'[m] = mem2[m]
    BY <2>1
  <2>4. ReachesL2
    BY <1>25, <2>2, <2>3 DEF ReachesL2, SpreadsToNests
  <2> QED
    BY <2>1, <2>4, BoundaryReachesL1 DEF Reaches, KeepsWhileStaged, ClearStaging
<1>26. ASSUME NEW d \in Fw.s2s, mcast_s2s(d) PROVE Reaches
  <2>1. d \in MoveArgs
    BY <1>26, FirmwareAssumption
  <2>2. PICK mem2 \in [Nests -> L2Mem] : mem2 = AtBoundary(l2, DrainedL2)
    BY DrainedTypes DEF L2s
  <2>3. PICK tmu \in Nests : tmu = IF d.tmu \in Nests THEN d.tmu ELSE 0
    BY TopologyAssumption DEF Nests
  <2>4. PICK dst_st \in Nat : dst_st = staging.op3.lo
    BY DEF MemoryInv, ControlTypeOK, BufferTypeOK, Words
  <2>5. PICK rows : rows = [i \in 1 .. d.h |-> WrappedRow(d, d.dst, dst_st, i)]
    OBVIOUS
  <2>6. PICK mask, n : mask = staging.op3.hi /\ n = d.h
    OBVIOUS
  <2>7. RowsRead(rows, n, 0 .. (L2Size - 1))
    <3>1. d.dst \in Nat
      BY <2>1 DEF MoveArgs
    <3> QED
      BY <2>1, <2>5, <2>6, <3>1, WrappedRowsRead
  <2>8. l2' \in {mem2, SpreadRows(mem2, tmu, mask, rows)}
    BY <1>26, <2>2, <2>3, <2>4, <2>5, <2>6 DEF mcast_s2s
  <2>9. \A m \in Nests \ Selected(mask, Nests) : l2'[m] = mem2[m]
    BY <2>7, <2>8, SpreadKeeps
  <2>10. \A m \in Nests \ {nest} : mem2[m] = l2[m]
    BY <2>2, BoundaryElsewhere
  <2>11. ReachesL2
    BY <1>26, <2>6, <2>9, <2>10 DEF ReachesL2, SpreadsWithin
  <2>12. l1' = AtBoundary(l1, DrainedL1) /\ ClearStaging
    BY <1>26 DEF mcast_s2s
  <2> QED
    BY <2>11, <2>12, BoundaryReachesL1 DEF Reaches, KeepsWhileStaged, ClearStaging
<1>27. ASSUME NEW d \in Fw.copymem, copy_mem(d) PROVE Reaches
  <2> DEFINE dst == staging.op3.lo
             dst_st == d.dst_st + 65536 * staging.op3.hi
             srcDdr == d.src >= L2Size
             dstDdr == dst >= L2Size
             touchesDdr == d.len > 0 /\ (srcDdr \/ dstDdr)
             mem2 == AtBoundary(l2, DrainedL2)
             rejected == \/ d.len = 0
                         \/ touchesDdr /\ FlushFails
                         \/ srcDdr /\ Overruns(DdrOff(d.src), d.st, d.h, d.len)
                         \/ dstDdr /\ Overruns(DdrOff(dst), dst_st, d.h, d.len)
                         \/ dstDdr /\ ~srcDdr
             toL2 == [i \in 1 .. d.h |-> IncomingRow(d, dst, dst_st, i)]
             inL2 == [i \in 1 .. d.h |-> WrappedRow(d, dst, dst_st, i)]
             committed == IF touchesDdr THEN Flushed(mem2) ELSE ddr
  <2>1. l2' = IF rejected \/ dstDdr THEN mem2
              ELSE [mem2 EXCEPT ![nest] = IF srcDdr THEN CopyRows(@, committed, toL2) ELSE MoveRows(@, inL2)]
    BY <1>27 DEF copy_mem
  <2>2. /\ \A m \in Nests \ {nest} : mem2[m] = l2[m]
        /\ mem2 \in [Nests -> L2Mem]
    BY BoundaryElsewhere DEF L2s
  <2> HIDE DEF mem2, rejected, dstDdr, srcDdr, toL2, inL2, committed
  <2>3. \A m \in Nests \ {nest} : l2'[m] = mem2[m]
    BY <2>1, <2>2
  <2>4. ReachesL2
    BY <2>2, <2>3 DEF ReachesL2
  <2>5. l1' = AtBoundary(l1, DrainedL1) /\ ClearStaging
    BY <1>27 DEF copy_mem
  <2> QED
    BY <2>4, <2>5, BoundaryReachesL1 DEF Reaches, KeepsWhileStaged, ClearStaging
<1>28. ASSUME NEW w \in Fw.wsvr, wrspr_svr(w[1], w[2], w[3]) PROVE Reaches
  BY <1>28, BoundaryReachesL1, BoundaryReachesL2 DEF Reaches, KeepsWhileStaged, wrspr_svr, ClearStaging
<1>29. ASSUME NEW d \in Fw.lsvr, load_svr(d) PROVE Reaches
  BY <1>29, BoundaryReachesL1, BoundaryReachesL2 DEF Reaches, KeepsWhileStaged, load_svr, ClearStaging
<1>30. ASSUME NEW d \in Fw.ssvr, store_svr(d) PROVE Reaches
  <2> DEFINE mem1 == AtBoundary(l1, DrainedL1)
             row == [d |-> d.addr % L1Size, s |-> 0, n |-> SvrLen]
  <2>1. /\ l1' \in {mem1, [mem1 EXCEPT ![nest][current_spu] =
                              PutRow(@, l0[nest][current_spu][d.reg], row)]}
        /\ l2' = AtBoundary(l2, DrainedL2) /\ ClearStaging
    BY <1>30 DEF store_svr
  <2>2. nest \in Nests /\ mem1 \in L1s
    BY BoundaryElsewhere, RoutedUnit DEF MemoryInv, ControlTypeOK
  <2>3. /\ \A m \in Nests \ {nest} : mem1[m] = l1[m]
        /\ \A s \in Spus \ {spu} : mem1[nest][s] = l1[nest][s]
    BY BoundaryElsewhere
  <2> HIDE DEF mem1, row
  <2>4. /\ \A m \in Nests \ {nest} : l1'[m] = mem1[m]
        /\ \A s \in Spus \ {current_spu} : l1'[nest][s] = mem1[nest][s]
    BY <2>1, <2>2 DEF L1s
  <2>5. ReachesL1
    BY <1>30, <2>3, <2>4 DEF ReachesL1, StoresSvr
  <2> QED
    BY <2>1, <2>5, BoundaryReachesL2 DEF Reaches, KeepsWhileStaged, ClearStaging
<1> QED
  BY <1>1, <1>2, <1>3, <1>4, <1>5, <1>6, <1>7, <1>8, <1>9, <1>10, <1>11, <1>12, <1>13, <1>14, <1>15, <1>16, <1>17, <1>18, <1>19, <1>20, <1>21, <1>22, <1>23, <1>24, <1>25, <1>26, <1>27, <1>28, <1>29, <1>30
     DEF Next, Markers, SharedLoopOps, ThreadLoopOps, ControlOps, MoverOps, SvrOps

(* The registers a step may change. *)
LEMMA RegisterReach ==
  ASSUME MemoryInv, Next
  PROVE  ReachesL0
<1>1. /\ nest \in Nests /\ l0 \in L0s
      /\ is_ploop => nest = current_nest
      /\ ~is_ploop => nest = 0
      /\ is_tloop => is_ploop /\ spu = current_spu
      /\ ~is_tloop => spu = 0
  BY RoutedUnit DEF MemoryInv, ControlTypeOK, MemoryTypeOK, L0s, nest, spu, is_ploop, is_tloop
<1>2. ASSUME NEW w \in Fw.wsvr, wrspr_svr(w[1], w[2], w[3]) PROVE ReachesL0
  <2>1. l0' = IF is_tloop
              THEN [l0 EXCEPT ![current_nest][current_spu][w[1]][w[2]] = w[3]]
              ELSE IF is_ploop
              THEN [l0 EXCEPT ![current_nest] = [s \in Spus |-> [@[s] EXCEPT ![w[1]][w[2]] = w[3]]]]
              ELSE [l0 EXCEPT ![0][0][w[1]][w[2]] = w[3]]
    BY <1>2 DEF wrspr_svr
  <2>2. \E x, y : l0' \in {[l0 EXCEPT ![nest] = x], [l0 EXCEPT ![nest][spu] = y]}
    BY <1>1, <2>1
  <2>3. ~is_ploop => \E y : l0' = [l0 EXCEPT ![nest][spu] = y]
    BY <1>1, <2>1
  <2>4. WritesSvr
    BY <1>2 DEF WritesSvr
  <2>5. \A m \in Nests, s \in Spus : l0'[m][s] # l0[m][s] => m = nest
    BY <1>1, <2>2 DEF L0s
  <2>6. ~is_ploop => \A m \in Nests, s \in Spus : l0'[m][s] # l0[m][s] => s = spu
    BY <1>1, <2>3 DEF L0s
  <2> QED
    BY <2>4, <2>5, <2>6 DEF ReachesL0
<1>3. ASSUME NEW d \in Fw.lsvr, load_svr(d) PROVE ReachesL0
  <2>1. \E y : l0' \in {l0, [l0 EXCEPT ![nest][current_spu] = y]}
    BY <1>3 DEF load_svr
  <2>2. \A m \in Nests, s \in Spus : l0'[m][s] # l0[m][s] => m = nest /\ s = current_spu
    BY <1>1, <2>1 DEF L0s
  <2> QED
    BY <1>3, <2>2 DEF ReachesL0, LoadsSvr
<1> QED
  BY <1>2, <1>3, RegistersKept DEF ReachesL0

(* An instruction writes only the memories it is routed to, for every topology and
   firmware, and only the multicasts, a write of an SVR in a plan and the two SVR transfers
   reach beyond the plan's NEST and the thread's SPU, each no further than
   ReachesOnlySelected allows it.  A drain, a fused run, a commit and a copy.mem write
   nowhere else. *)
THEOREM RoutingConfined == Spec => ReachesOnlySelected
<1>1. MemoryInv /\ [Next]_vars => [Reaches /\ ReachesL0]_vars
  BY ReachStep, RegisterReach
<1>2. [Reaches /\ ReachesL0]_vars => [LET myNest == IF CONTEXT = "C1" THEN 0 ELSE current_nest
         mySpu  == IF CONTEXT = "C3" THEN current_spu ELSE 0
     IN /\ \A m \in Nests, s \in Spus :
             l1'[m][s] # l1[m][s] =>
               /\ m = myNest
               /\ \/ s = mySpu
                  \/ s \in Selected(staging.op3.lo, Spus) /\ \E d \in Fw.s2l : mcast_s2l(d)
                  \/ s = current_spu /\ \E d \in Fw.ssvr : store_svr(d)
        /\ \A m \in Nests, s \in Spus :
             l0'[m][s] # l0[m][s] =>
               /\ m = myNest
               /\ \/ s = mySpu
                  \/ CONTEXT # "C1" /\ \E w \in Fw.wsvr : wrspr_svr(w[1], w[2], w[3])
                  \/ s = current_spu /\ \E d \in Fw.lsvr : load_svr(d)
        /\ \A m \in Nests :
             l2'[m] # l2[m] =>
               \/ m = myNest
               \/ m \in Selected(staging.op3.lo, Nests) /\ \E d \in Fw.g2s : mcast_g2s(d)
               \/ m \in Selected(staging.op3.hi, Nests) /\ \E d \in Fw.s2s : mcast_s2s(d)
        /\ staging' # NoStaging /\ ~halted' => UNCHANGED <<memory, credits, warp>>]_vars
  BY DEF Reaches, ReachesL0, ReachesL1, ReachesL2, KeepsWhileStaged, nest, spu, is_ploop, is_tloop,
         SpreadsToSpus, SpreadsToNests, SpreadsWithin, WritesSvr, LoadsSvr, StoresSvr
<1> QED
  BY <1>1, <1>2, MemoryInvariant, PTL DEF Spec, ReachesOnlySelected

-----------------------------------------------------------------------------
(* The deferred stores. *)

(* What the queue, once committed from the L2 in mem2, leaves at a DDR address. *)
Latest(mem2, a) ==
  IF Covering(a) = {} THEN ddr[a]
  ELSE LET p == LastCovering(a)
           req == deferred_ddr_stores[p[1]]
           r == StoreRows(req)[p[2]]
       IN mem2[req.nest][r.s + (a - r.d)]

(* Row j of the store queued at place i covers the address. *)
Covers(a, i, j) == ~OutsideRow(a, StoreRows(deferred_ddr_stores[i])[j])

LEMMA CoveringPairs ==
  ASSUME QueueTypeOK, NEW a
  PROVE  \A p : p \in Covering(a) <=>
           \E i \in 1 .. Len(deferred_ddr_stores) :
             \E j \in 1 .. deferred_ddr_stores[i].height : p = <<i, j>> /\ Covers(a, i, j)
<1>1. DOMAIN deferred_ddr_stores = 1 .. Len(deferred_ddr_stores)
  BY DEF QueueTypeOK
<1>2. \A r : DOMAIN StoreRows(r) = 1 .. r.height
  BY DEF StoreRows
<1>3. \A i, j : Covers(a, i, j) <=>
        LET r == StoreRows(deferred_ddr_stores[i])[j] IN a \in r.d .. (r.d + r.n - 1)
  BY DEF Covers, OutsideRow
<1>4. \A p : p \in Covering(a) <=>
        \E i \in DOMAIN deferred_ddr_stores :
          \E j \in DOMAIN StoreRows(deferred_ddr_stores[i]) : p = <<i, j>> /\ Covers(a, i, j)
  <2>1. \A p : p \in Covering(a) <=>
          /\ \E i \in DOMAIN deferred_ddr_stores : p \in {i} \X DOMAIN StoreRows(deferred_ddr_stores[i])
          /\ LET r == StoreRows(deferred_ddr_stores[p[1]])[p[2]] IN a \in r.d .. (r.d + r.n - 1)
    BY ZenonT(60) DEF Covering
  <2>2. \A p : p \in Covering(a) <=>
          /\ \E i \in DOMAIN deferred_ddr_stores : p \in {i} \X DOMAIN StoreRows(deferred_ddr_stores[i])
          /\ Covers(a, p[1], p[2])
    BY <2>1, <1>3
  <2> TAKE p
  <2>3. ASSUME p \in Covering(a)
        PROVE  \E i \in DOMAIN deferred_ddr_stores :
                 \E j \in DOMAIN StoreRows(deferred_ddr_stores[i]) : p = <<i, j>> /\ Covers(a, i, j)
    <3>1. PICK i \in DOMAIN deferred_ddr_stores : p \in {i} \X DOMAIN StoreRows(deferred_ddr_stores[i])
      BY <2>2, <2>3
    <3>2. Covers(a, p[1], p[2])
      BY <2>2, <2>3
    <3>3. PICK j \in DOMAIN StoreRows(deferred_ddr_stores[i]) : p = <<i, j>>
      BY <3>1
    <3>4. p[1] = i /\ p[2] = j
      BY <3>3
    <3> QED
      BY <3>2, <3>3, <3>4
  <2>4. ASSUME NEW i \in DOMAIN deferred_ddr_stores, NEW j \in DOMAIN StoreRows(deferred_ddr_stores[i]),
               p = <<i, j>>, Covers(a, i, j)
        PROVE  p \in Covering(a)
    <3>1. p \in {i} \X DOMAIN StoreRows(deferred_ddr_stores[i]) /\ p[1] = i /\ p[2] = j
      BY <2>4
    <3> QED
      BY <2>2, <2>4, <3>1
  <2> QED
    BY <2>3, <2>4
<1> QED
  BY <1>1, <1>2, <1>4

LEMMA LastCoveringIs ==
  ASSUME QueueTypeOK, NEW a, NEW k \in Nat, NEW i \in Nat, <<k, i>> \in Covering(a),
         \A p \in Covering(a) : p[1] < k \/ (p[1] = k /\ p[2] <= i)
  PROVE  LastCovering(a) = <<k, i>>
<1>1. \E p \in Covering(a) :
        \A q \in Covering(a) : q[1] < p[1] \/ (q[1] = p[1] /\ q[2] <= p[2])
  <2>1. <<k, i>>[1] = k /\ <<k, i>>[2] = i
    OBVIOUS
  <2> QED
    BY <2>1
<1>2. PICK p : p = LastCovering(a)
  OBVIOUS
<1>3. p \in Covering(a) /\ \A q \in Covering(a) : q[1] < p[1] \/ (q[1] = p[1] /\ q[2] <= p[2])
  BY <1>1, <1>2 DEF LastCovering
<1>4. PICK x, y : x \in Nat /\ y \in Nat /\ p = <<x, y>>
  <2>1. \A n \in 1 .. Len(deferred_ddr_stores) : deferred_ddr_stores[n] \in DeferredDdrStores
    BY DEF QueueTypeOK
  <2>2. \A n \in 1 .. Len(deferred_ddr_stores) : deferred_ddr_stores[n].height \in Nat
    BY <2>1 DEF DeferredDdrStores
  <2>3. \E n \in 1 .. Len(deferred_ddr_stores) :
          \E m \in 1 .. deferred_ddr_stores[n].height : p = <<n, m>>
    BY <1>3, CoveringPairs
  <2> QED
    BY <2>2, <2>3
<1>5. p[1] = x /\ p[2] = y
  BY <1>4
<1>6. k < x \/ (k = x /\ i <= y)
  BY <1>3, <1>5
<1>7. x < k \/ (x = k /\ y <= i)
  BY <1>3, <1>5
<1>8. x = k /\ y = i
  BY <1>4, <1>6, <1>7
<1> QED
  BY <1>2, <1>4, <1>8

(* One store: an address none of its rows covers keeps its value, and one that some row
   covers gets the element the last such row names. *)
StoredFacts(after, before, mem2, k) ==
  /\ \A a \in 0 .. (DdrSize - 1) :
       (\A j \in 1 .. deferred_ddr_stores[k].height : ~Covers(a, k, j)) => after[a] = before[a]
  /\ \A a \in 0 .. (DdrSize - 1), i \in 1 .. deferred_ddr_stores[k].height :
       Covers(a, k, i) /\ (\A j \in i + 1 .. deferred_ddr_stores[k].height : ~Covers(a, k, j)) =>
         after[a] = mem2[deferred_ddr_stores[k].nest]
                        [StoreRows(deferred_ddr_stores[k])[i].s + (a - StoreRows(deferred_ddr_stores[k])[i].d)]

LEMMA CommittedStore ==
  ASSUME QueueTypeOK, NEW k \in 1 .. Len(deferred_ddr_stores), NEW before \in DdrMem,
         NEW mem2 \in [Nests -> L2Mem]
  PROVE  StoredFacts(CopyRows(before, mem2[deferred_ddr_stores[k].nest], StoreRows(deferred_ddr_stores[k])),
                     before, mem2, k)
<1>1. PICK req \in DeferredDdrStores : req = deferred_ddr_stores[k]
  BY DEF QueueTypeOK
<1>2. PICK rows : rows = StoreRows(req)
  OBVIOUS
<1>3. RowsRead(rows, req.height, 0 .. (L2Size - 1)) /\ req.nest \in Nests
  BY <1>2, StoreRowsRead DEF DeferredDdrStores
<1>4. /\ before \in [0 .. (DdrSize - 1) -> Val] /\ mem2[req.nest] \in [0 .. (L2Size - 1) -> Val]
      /\ 0 .. (DdrSize - 1) \in SUBSET Int
  BY <1>3 DEF DdrMem, L2Mem
<1>5. CopyFacts(CopyRows(before, mem2[req.nest], rows), 0 .. (DdrSize - 1), Val,
                before, mem2[req.nest], rows, req.height)
  BY <1>3, <1>4, CopyRowsFacts
<1>6. \A a, j : Covers(a, k, j) <=> ~OutsideRow(a, rows[j])
  BY <1>1, <1>2 DEF Covers
<1>7. PICK res : res = CopyRows(before, mem2[req.nest], rows)
  OBVIOUS
<1>8. StoredFacts(res, before, mem2, k)
  BY <1>1, <1>2, <1>5, <1>6, <1>7 DEF StoredFacts, CopyFacts
<1> QED
  BY <1>1, <1>2, <1>7, <1>8

(* A commit of the whole queue: every address gets what the last store that covers it, in
   issue order, takes from L2. *)
LEMMA FlushedLatest ==
  ASSUME QueueTypeOK, ddr \in DdrMem, NEW mem2 \in [Nests -> L2Mem], ~FlushFails,
         NEW a \in 0 .. (DdrSize - 1)
  PROVE  Flushed(mem2)[a] = Latest(mem2, a)
<1>1. PICK n \in Nat : n = Len(deferred_ddr_stores)
  BY DEF QueueTypeOK
<1>2. PICK acc \in [0 .. n -> DdrMem] :
        /\ acc[0] = ddr /\ Flushed(mem2) = acc[n]
        /\ \A k \in 1 .. n :
             acc[k] = CopyRows(acc[k - 1], mem2[deferred_ddr_stores[k].nest], StoreRows(deferred_ddr_stores[k]))
  <2>1. PICK todo : todo = SubSeq(deferred_ddr_stores, 1, Committed)
    OBVIOUS
  <2>2. CommitUnfolds(Flushed(mem2), DdrMem, mem2, ddr, todo, n)
    BY <1>1, <2>1, FlushedUnfolds, CommittedPrefix
  <2>3. \A k \in 1 .. n : todo[k] = deferred_ddr_stores[k]
    BY <1>1, <2>1, CommittedPrefix
  <2> QED
    BY <2>2, <2>3 DEF CommitUnfolds, CommitSteps
<1>3. \A k \in 1 .. n : StoredFacts(acc[k], acc[k - 1], mem2, k)
  <2> TAKE k \in 1 .. n
  <2>1. acc[k - 1] \in DdrMem /\ k \in 1 .. Len(deferred_ddr_stores)
    BY <1>1
  <2> QED
    BY <1>2, <2>1, CommittedStore
<1> DEFINE rowsOf(k) == 1 .. deferred_ddr_stores[k].height
           hit(k) == \E j \in rowsOf(k) : Covers(a, k, j)
<1>4. \A k \in 1 .. n : deferred_ddr_stores[k].height \in Nat
  <2>1. \A k \in 1 .. n : deferred_ddr_stores[k] \in DeferredDdrStores
    BY <1>1 DEF QueueTypeOK
  <2> QED
    BY <2>1 DEF DeferredDdrStores
<1>5. ASSUME NEW k \in 0 .. n, \A m \in k + 1 .. n : ~hit(m)
      PROVE  acc[n][a] = acc[k][a]
  <2> DEFINE T == {j \in 0 .. n - k : acc[k + j][a] = acc[k][a]}
  <2>1. 0 \in T
    BY <1>1
  <2>2. ASSUME NEW j \in 0 .. (n - k) - 1, j \in T PROVE j + 1 \in T
    <3>1. k + (j + 1) \in 1 .. n /\ k + (j + 1) \in k + 1 .. n /\ (k + (j + 1)) - 1 = k + j
      BY <1>1
    <3>2. StoredFacts(acc[k + (j + 1)], acc[k + j], mem2, k + (j + 1)) /\ ~hit(k + (j + 1))
      BY <1>3, <1>5, <3>1
    <3>3. acc[k + (j + 1)][a] = acc[k + j][a]
      BY <3>2 DEF StoredFacts
    <3> QED
      BY <2>2, <3>3, <1>1
  <2>3. n - k \in Nat /\ n - k \in 0 .. n - k /\ k + (n - k) = n
    BY <1>1
  <2>4. 0 .. n - k \subseteq T
    <3> HIDE DEF T
    <3> QED
      BY <2>1, <2>2, <2>3, UpToInduction
  <2> QED
    BY <2>3, <2>4
<1>6. CASE \A k \in 1 .. n : ~hit(k)
  <2>1. acc[n][a] = acc[0][a]
    <3>1. 0 \in 0 .. n /\ 0 + 1 = 1
      BY <1>1
    <3> HIDE DEF hit
    <3> QED
      BY <1>5, <1>6, <3>1
  <2>2. Covering(a) = {}
    BY <1>1, <1>6, CoveringPairs
  <2> QED
    BY <1>2, <2>1, <2>2 DEF Latest
<1>7. CASE \E k \in 1 .. n : hit(k)
  <2> DEFINE ks == {k \in 1 .. n : hit(k)}
  <2>1. PICK k \in 1 .. n : hit(k) /\ \A m \in k + 1 .. n : ~hit(m)
    <3>1. ks # {} /\ ks \in SUBSET (1 .. n)
      BY <1>7
    <3>2. PICK k : k = Max(ks) /\ k \in ks /\ \A x \in ks : x <= k
      <4> HIDE DEF ks
      <4> QED
        BY <3>1, MaxInSet
    <3>3. k \in 1 .. n /\ hit(k)
      BY <3>2
    <3>4. \A m \in k + 1 .. n : m \notin ks /\ m \in 1 .. n
      <4> HIDE DEF ks
      <4> QED
        BY <3>2, <3>3, <1>1
    <3> QED
      BY <3>3, <3>4
  <2> DEFINE is == {j \in rowsOf(k) : Covers(a, k, j)}
  <2>2. PICK i \in rowsOf(k) : Covers(a, k, i) /\ \A j \in i + 1 .. deferred_ddr_stores[k].height : ~Covers(a, k, j)
    <3>1. is # {} /\ is \in SUBSET (1 .. deferred_ddr_stores[k].height)
      BY <2>1
    <3>2. deferred_ddr_stores[k].height \in Nat
      BY <1>4
    <3>3. PICK i : i = Max(is) /\ i \in is /\ \A x \in is : x <= i
      <4> HIDE DEF is
      <4> QED
        BY <3>1, <3>2, MaxInSet
    <3>4. i \in rowsOf(k) /\ Covers(a, k, i)
      BY <3>3
    <3>5. \A j \in i + 1 .. deferred_ddr_stores[k].height : j \notin is /\ j \in rowsOf(k)
      <4> HIDE DEF is
      <4> QED
        BY <3>2, <3>3, <3>4
    <3> QED
      BY <3>4, <3>5
  <2>3. k \in Nat /\ i \in Nat /\ k \in 0 .. n
    BY <1>1, <1>4
  <2>4. <<k, i>> \in Covering(a)
    BY <1>1, <2>2, CoveringPairs
  <2>5. \A p \in Covering(a) : p[1] < k \/ (p[1] = k /\ p[2] <= i)
    <3> TAKE p \in Covering(a)
    <3>1. PICK x \in 1 .. n : \E y \in rowsOf(x) : p = <<x, y>> /\ Covers(a, x, y)
      BY <1>1, CoveringPairs
    <3>2. PICK y \in rowsOf(x) : p = <<x, y>> /\ Covers(a, x, y)
      BY <3>1
    <3>3. p[1] = x /\ p[2] = y /\ hit(x)
      BY <3>2
    <3>4. x <= k
      <4> HIDE DEF hit
      <4> QED
        BY <2>1, <3>3, <1>1
    <3>5. x = k => y <= i
      BY <2>2, <3>2, <1>4
    <3> QED
      BY <3>3, <3>4, <3>5
  <2>6. LastCovering(a) = <<k, i>>
    BY <2>3, <2>4, <2>5, LastCoveringIs
  <2>7. acc[n][a] = acc[k][a]
    <3> HIDE DEF hit
    <3> QED
      BY <1>5, <2>1, <2>3
  <2>8. acc[k][a] = mem2[deferred_ddr_stores[k].nest]
                        [StoreRows(deferred_ddr_stores[k])[i].s + (a - StoreRows(deferred_ddr_stores[k])[i].d)]
    BY <1>3, <2>2 DEF StoredFacts
  <2>9. Covering(a) # {}
    BY <2>4
  <2>10. <<k, i>>[1] = k /\ <<k, i>>[2] = i
    OBVIOUS
  <2>11. Latest(mem2, a) = mem2[deferred_ddr_stores[k].nest]
                        [StoreRows(deferred_ddr_stores[k])[i].s + (a - StoreRows(deferred_ddr_stores[k])[i].d)]
    BY <2>6, <2>9, <2>10 DEF Latest
  <2> QED
    BY <1>2, <2>7, <2>8, <2>11
<1> QED
  BY <1>6, <1>7

-----------------------------------------------------------------------------
(* A move within one memory leaves what none of its rows is addressed to. *)
LEMMA MoveElsewhere ==
  ASSUME NEW A \in SUBSET Int, NEW X, NEW mem \in [A -> X], NEW rows, NEW n, RowsRead(rows, n, A),
         NEW a \in A \ TargetCells(rows)
  PROVE  MoveRows(mem, rows)[a] = mem[a]
<1>1. n \in Nat /\ DOMAIN rows = 1 .. n /\ \A k \in 1 .. n : RowReads(rows[k], A)
  BY DEF RowsRead
<1>2. PICK acc \in [0 .. n -> [A -> X]] : MoveChain(acc, mem, rows, n) /\ MoveRows(mem, rows) = acc[n]
  <2>1. MoveUnfolds(MoveRows(mem, rows), [A -> X], mem, rows, n)
    BY MoveRowsChain
  <2> QED
    BY <2>1 DEF MoveUnfolds
<1>3. \A k \in 1 .. n : a \notin rows[k].d .. (rows[k].d + rows[k].n - 1)
  BY <1>1 DEF TargetCells
<1> DEFINE T == {k \in 0 .. n : acc[k][a] = mem[a]}
<1>4. 0 \in T
  BY <1>1, <1>2 DEF MoveChain
<1>5. \A k \in 0 .. n - 1 : k \in T => k + 1 \in T
  <2> TAKE k \in 0 .. n - 1
  <2> HAVE k \in T
  <2>1. k + 1 \in 1 .. n /\ k + 1 - 1 = k /\ acc[k] \in [A -> X]
    BY <1>1
  <2>2. acc[k + 1] = PutRow(acc[k], acc[k], rows[k + 1])
    BY <1>2, <2>1 DEF MoveChain
  <2>3. acc[k + 1][a] = acc[k][a]
    BY <1>3, <2>1, <2>2 DEF PutRow
  <2> QED
    BY <2>1, <2>3
<1>6. 0 .. n \subseteq T
  <2> HIDE DEF T
  <2> QED
    BY <1>1, <1>4, <1>5, UpToInduction
<1>7. n \in 0 .. n
  BY <1>1
<1> QED
  BY <1>2, <1>6, <1>7

LEMMA MoveInDdr ==
  ASSUME NEW mem \in DdrMem, NEW rows, NEW n, RowsRead(rows, n, 0 .. (DdrSize - 1))
  PROVE  \A a \in (0 .. (DdrSize - 1)) \ TargetCells(rows) : MoveRows(mem, rows)[a] = mem[a]
<1>1. mem \in [0 .. (DdrSize - 1) -> Val] /\ 0 .. (DdrSize - 1) \in SUBSET Int
  BY DEF DdrMem
<1> QED
  BY <1>1, MoveElsewhere

(* The body of CommitWritesLatest. *)
QueueCommitted == deferred_ddr_stores # <<>> /\ deferred_ddr_stores' = <<>>

WritesLatest ==
  /\ ~QueueCommitted /\ ~halted' => \A a \in DOMAIN ddr \ CopyTargets : ddr'[a] = ddr[a]
  /\ QueueCommitted => \A a \in DOMAIN ddr \ CopyTargets : ddr'[a] = Latest(DrainedL2, a)

(* Draining an empty buffer changes nothing, so outside the T-loop and at a hard boundary
   L2 is what the drain leaves. *)
LEMMA DrainedWhenEmpty ==
  ASSUME MemoryInv, PendingFramesCoherent
  PROVE  /\ tloop_buf = <<>> => DrainedL2 = l2
         /\ ~Buffering \/ is_sloop => DrainedL2 = l2
         /\ AtBoundary(l2, DrainedL2) = DrainedL2
<1>1. nest \in Nests /\ l2 \in [Nests -> L2Mem]
  BY RoutedUnit DEF MemoryInv, ControlTypeOK, MemoryTypeOK
<1>2. tloop_buf = <<>> => DrainedL2 = l2
  BY <1>1 DEF Drained, DrainedL2, Bank
<1>3. ~Buffering \/ is_sloop => tloop_buf = <<>>
  BY DEF PendingFramesCoherent, Buffering, is_sloop, is_tloop
<1> QED
  BY <1>2, <1>3 DEF AtBoundary

(* A step that leaves the DDR alone and takes no store out of the queue. *)
LEMMA KeepsDdr ==
  ASSUME ddr' = ddr, deferred_ddr_stores' = <<>> => deferred_ddr_stores = <<>>
  PROVE  WritesLatest
BY DEF WritesLatest, QueueCommitted

LEMMA KeptQueue ==
  ASSUME KeepQueue
  PROVE  WritesLatest
BY KeepsDdr DEF KeepQueue

(* A step that commits the queue from the drained L2. *)
CommitsDrained ==
  /\ \A a \in DOMAIN ddr \ CopyTargets : ddr'[a] = Flushed(DrainedL2)[a]
  /\ deferred_ddr_stores' = IF FlushFails THEN deferred_ddr_stores ELSE <<>>
  /\ FlushFails => halted'

LEMMA CommitsLatest ==
  ASSUME MemoryInv, CommitsDrained
  PROVE  WritesLatest
<1>1. QueueTypeOK /\ ddr \in DdrMem /\ DOMAIN ddr = 0 .. (DdrSize - 1)
  BY DEF MemoryInv, ControlTypeOK, MemoryTypeOK, DdrMem
<1>2. PICK mem2 \in [Nests -> L2Mem] : mem2 = DrainedL2
  BY DrainedTypes DEF L2s
<1>3. CASE FlushFails
  BY <1>3 DEF CommitsDrained, WritesLatest, QueueCommitted
<1>4. CASE ~FlushFails
  <2>1. \A a \in 0 .. (DdrSize - 1) : Flushed(mem2)[a] = Latest(mem2, a)
    BY <1>1, <1>4, FlushedLatest
  <2>2. \A a \in DOMAIN ddr \ CopyTargets : ddr'[a] = Latest(mem2, a)
    BY <1>1, <1>2, <2>1 DEF CommitsDrained
  <2>3. ASSUME deferred_ddr_stores = <<>>, NEW a PROVE Latest(mem2, a) = ddr[a]
    <3>1. Len(deferred_ddr_stores) = 0
      BY <2>3
    <3>2. Covering(a) = {}
      BY <1>1, <3>1, CoveringPairs
    <3> QED
      BY <3>2 DEF Latest
  <2>4. deferred_ddr_stores' = <<>>
    BY <1>4 DEF CommitsDrained
  <2> QED
    BY <1>2, <2>2, <2>3, <2>4 DEF WritesLatest, QueueCommitted
<1> QED
  BY <1>3, <1>4

LEMMA FlushedQueue ==
  ASSUME MemoryInv, FlushQueue(DrainedL2)
  PROVE  WritesLatest
BY CommitsLatest DEF FlushQueue, CommitsDrained

LEMMA MarkerDrains ==
  ASSUME Marker
  PROVE  l2' = DrainedL2
BY DEF Marker, WriteBank, DrainedL2

LEMMA LoadCommits ==
  ASSUME MemoryInv, PendingFramesCoherent, NEW d \in Fw.sload, sloop_load(d)
  PROVE  WritesLatest
<1>1. l2 = DrainedL2
  BY DrainedWhenEmpty DEF sloop_load
<1>2. PICK flush \in BOOLEAN :
        /\ ddr' = IF flush THEN Flushed(l2) ELSE ddr
        /\ deferred_ddr_stores' = IF flush /\ ~FlushFails THEN <<>> ELSE deferred_ddr_stores
        /\ flush /\ FlushFails => halted'
  <2> DEFINE wr == staging.op3.lo
             width == IF wr = 0 THEN d.len ELSE wr
             flush == HitsPendingSource(Extent(d.lo, width, d.h, d.len))
  <2>1. flush \in BOOLEAN
    BY DEF HitsPendingSource
  <2>2. /\ ddr' = IF flush THEN Flushed(l2) ELSE ddr
        /\ deferred_ddr_stores' = IF flush /\ ~FlushFails THEN <<>> ELSE deferred_ddr_stores
        /\ flush /\ FlushFails => halted'
    BY DEF sloop_load
  <2> HIDE DEF flush
  <2> QED
    BY <2>1, <2>2
<1>3. CASE flush
  <2>1. CommitsDrained
    BY <1>1, <1>2, <1>3 DEF CommitsDrained
  <2> QED
    BY <2>1, CommitsLatest
<1>4. CASE ~flush
  BY <1>2, <1>4, KeepsDdr
<1> QED
  BY <1>3, <1>4

(* The rows a copy.mem may move into the DDR lie in CopyTargets. *)
LEMMA CopyMemTargets ==
  ASSUME NEW d \in Fw.copymem, staging.op3.lo \in Nat, staging.op3.lo >= L2Size, NEW s0, NEW sst
  PROVE  TargetCells(Grid(DdrOff(staging.op3.lo), d.dst_st + 65536 * staging.op3.hi, s0, sst, d.h, d.len))
           \subseteq CopyTargets
<1> DEFINE off == DdrOff(staging.op3.lo)
           st == d.dst_st + 65536 * staging.op3.hi
<1>1. TargetCells(Grid(off, st, s0, sst, d.h, d.len)) = TargetCells(Grid(off, st, 0, 0, d.h, d.len))
  <2> HIDE DEF off, st
  <2>1. DOMAIN Grid(off, st, s0, sst, d.h, d.len) = 1 .. d.h /\ DOMAIN Grid(off, st, 0, 0, d.h, d.len) = 1 .. d.h
    BY DEF Grid
  <2>2. \A i \in 1 .. d.h :
          /\ Grid(off, st, s0, sst, d.h, d.len)[i].d = Grid(off, st, 0, 0, d.h, d.len)[i].d
          /\ Grid(off, st, s0, sst, d.h, d.len)[i].n = Grid(off, st, 0, 0, d.h, d.len)[i].n
    BY DEF Grid
  <2> QED
    BY <2>1, <2>2 DEF TargetCells
<1>2. TargetCells(Grid(off, st, 0, 0, d.h, d.len)) \subseteq CopyTargets
  <2>1. ~(staging.op3.lo < L2Size)
    BY SizeAssumption
  <2> QED
    BY <2>1 DEF CopyTargets
<1> QED
  BY <1>1, <1>2

LEMMA CopyMemCommits ==
  ASSUME MemoryInv, PendingFramesCoherent, NEW d \in Fw.copymem, copy_mem(d)
  PROVE  WritesLatest
<1> DEFINE dst == staging.op3.lo
           dst_st == d.dst_st + 65536 * staging.op3.hi
           srcDdr == d.src >= L2Size
           dstDdr == dst >= L2Size
           touchesDdr == d.len > 0 /\ (srcDdr \/ dstDdr)
           mem2 == AtBoundary(l2, DrainedL2)
           rejected == \/ d.len = 0
                       \/ touchesDdr /\ FlushFails
                       \/ srcDdr /\ Overruns(DdrOff(d.src), d.st, d.h, d.len)
                       \/ dstDdr /\ Overruns(DdrOff(dst), dst_st, d.h, d.len)
                       \/ dstDdr /\ ~srcDdr
           toDdr == Grid(DdrOff(dst), dst_st, DdrOff(d.src), d.st, d.h, d.len)
           committed == IF touchesDdr THEN Flushed(mem2) ELSE ddr
<1>1. /\ d \in MoveArgs /\ d.src \in Nat /\ d.len \in Nat /\ d.h \in Nat \ {0} /\ d.st \in Nat
      /\ d.dst_st \in Nat
  BY FirmwareAssumption DEF MoveArgs
<1>2. ddr \in DdrMem /\ QueueTypeOK /\ DrainedL2 \in [Nests -> L2Mem]
  BY DrainedTypes DEF MemoryInv, ControlTypeOK, MemoryTypeOK, L2s
<1>3. /\ ddr' = IF rejected \/ ~dstDdr THEN committed ELSE MoveRows(committed, toDdr)
      /\ deferred_ddr_stores' = IF touchesDdr /\ ~FlushFails THEN <<>> ELSE deferred_ddr_stores
      /\ halted' = rejected
  BY DEF copy_mem
<1>4. dst \in Nat /\ dst_st \in Nat
  BY <1>1 DEF MemoryInv, ControlTypeOK, BufferTypeOK, Words
<1>5. committed = IF touchesDdr THEN Flushed(DrainedL2) ELSE ddr
  BY DrainedWhenEmpty
<1>6. committed \in DdrMem
  <2>1. Flushed(DrainedL2) \in DdrMem
    BY <1>2, FlushedUnfolds
  <2> HIDE DEF touchesDdr, committed
  <2> QED
    BY <1>2, <1>5, <2>1
<1>7. \A a \in DOMAIN ddr \ CopyTargets : ddr'[a] = committed[a]
  <2>1. CASE rejected \/ ~dstDdr
    BY <1>3, <2>1
  <2>2. CASE ~rejected /\ dstDdr
    <3>1. ~Overruns(DdrOff(d.src), d.st, d.h, d.len) /\ d.len # 0
      BY <2>2
    <3>2. PICK off \in Nat, out \in Nat : off = DdrOff(d.src) /\ out = DdrOff(dst)
      BY <1>1, <1>4, DdrOffType
    <3>3. PICK rows : rows = toDdr
      OBVIOUS
    <3>4. RowsRead(rows, d.h, 0 .. (DdrSize - 1))
      <4> HIDE DEF dst, dst_st
      <4> QED
        BY <1>1, <1>4, <3>1, <3>2, <3>3, FitsDdr
    <3>5. TargetCells(rows) \subseteq CopyTargets
      BY <1>4, <2>2, <3>3, CopyMemTargets
    <3>6. PICK mem \in DdrMem : mem = committed
      BY <1>6
    <3>7. \A a \in (0 .. (DdrSize - 1)) \ TargetCells(rows) : MoveRows(mem, rows)[a] = mem[a]
      BY <3>4, <3>6, MoveInDdr
    <3>8. ddr' = MoveRows(mem, rows)
      <4> HIDE DEF rejected, dstDdr, toDdr, committed
      <4> QED
        BY <1>3, <2>2, <3>3, <3>6
    <3>9. DOMAIN ddr = 0 .. (DdrSize - 1)
      BY <1>2 DEF DdrMem
    <3> HIDE DEF rejected, dstDdr, toDdr, committed
    <3> QED
      BY <3>5, <3>6, <3>7, <3>8, <3>9
  <2> QED
    BY <2>1, <2>2
<1>8. touchesDdr /\ FlushFails => rejected
  OBVIOUS
<1>9. CASE touchesDdr
  <2>1. CommitsDrained
    <3> HIDE DEF rejected, dstDdr, toDdr, committed, touchesDdr
    <3> QED
      BY <1>3, <1>5, <1>7, <1>8, <1>9 DEF CommitsDrained
  <2> QED
    BY <2>1, CommitsLatest
<1>10. CASE ~touchesDdr
  <2> HIDE DEF rejected, dstDdr, toDdr, committed, touchesDdr
  <2> QED
    BY <1>3, <1>5, <1>7, <1>10 DEF WritesLatest, QueueCommitted
<1> QED
  BY <1>9, <1>10

LEMMA CommitStep ==
  ASSUME MemoryInv, PendingFramesCoherent, Next
  PROVE  WritesLatest
<1>1. ASSUME NEW id \in Fw.nest_ids, startp(id) PROVE WritesLatest
  BY <1>1, KeptQueue DEF startp
<1>2. ASSUME NEW id, NEW Units, badid(id, Units) PROVE WritesLatest
  BY <1>2, KeepsDdr DEF badid
<1>3. ASSUME NEW id \in Fw.gdmac_ids, starts(id) PROVE WritesLatest
  BY <1>3, KeptQueue DEF starts
<1>4. ASSUME NEW id \in Fw.spu_ids, startt(id) PROVE WritesLatest
  BY <1>4, KeptQueue DEF startt
<1>5. ASSUME ends PROVE WritesLatest
  BY <1>5, KeptQueue DEF ends
<1>6. ASSUME endt PROVE WritesLatest
  BY <1>6, KeptQueue DEF endt
<1>7. ASSUME endp PROVE WritesLatest
  <2>1. KeepQueue \/ FlushQueue(DrainedL2)
    BY <1>7, MarkerDrains DEF endp
  <2> QED
    BY <2>1, KeptQueue, FlushedQueue
<1>8. ASSUME split PROVE WritesLatest
  BY <1>8, KeptQueue DEF split
<1>9. ASSUME join PROVE WritesLatest
  <2>1. FlushQueue(DrainedL2)
    BY <1>9, MarkerDrains DEF join
  <2> QED
    BY <2>1, FlushedQueue
<1>10. ASSUME NEW d \in Fw.sload, sloop_load(d) PROVE WritesLatest
  BY <1>10, LoadCommits
<1>11. ASSUME NEW d \in Fw.sstore, sloop_store(d) PROVE WritesLatest
  <2>1. deferred_ddr_stores' # <<>> /\ ddr' = ddr
    BY <1>11 DEF sloop_store, memory, MemoryInv, ControlTypeOK, QueueTypeOK
  <2> QED
    BY <2>1, KeepsDdr
<1>12. ASSUME NEW d \in Fw.scopy, sloop_copy(d) PROVE WritesLatest
  BY <1>12, KeepsDdr DEF sloop_copy
<1>13. ASSUME idle_dma PROVE WritesLatest
  BY <1>13, KeepsDdr DEF idle_dma, memory
<1>14. ASSUME NEW i \in TLoopInsns, try_buffer(i[1], i[2]) PROVE WritesLatest
  BY <1>14, KeepsDdr DEF try_buffer, memory
<1>15. ASSUME NEW i \in Fw.tdma, dma_tloop(i[1], i[2]) PROVE WritesLatest
  BY <1>15, KeptQueue DEF dma_tloop, ExecuteOnBank
<1>16. ASSUME NEW i \in Fw.vec, vector_op(i[1], i[2]) PROVE WritesLatest
  BY <1>16, KeptQueue DEF vector_op, ExecuteOnBank
<1>17. ASSUME NEW w \in Fw.op3, opset("op3", w) PROVE WritesLatest
  BY <1>17, KeepsDdr DEF opset, memory
<1>18. ASSUME NEW w \in Fw.op5, opset("op5", w) PROVE WritesLatest
  BY <1>18, KeepsDdr DEF opset, memory
<1>19. ASSUME NEW w \in Fw.anchors, wrspr(w[1], w[2]) PROVE WritesLatest
  BY <1>19, KeptQueue DEF wrspr
<1>20. ASSUME rdspr PROVE WritesLatest
  BY <1>20, KeptQueue DEF rdspr
<1>21. ASSUME credit_ld_op PROVE WritesLatest
  BY <1>21, KeptQueue DEF credit_ld_op
<1>22. ASSUME NEW mask \in Fw.masks, credit_st_op(mask) PROVE WritesLatest
  BY <1>22, KeptQueue DEF credit_st_op
<1>23. ASSUME credit_chk PROVE WritesLatest
  <2>1. KeepQueue \/ FlushQueue(DrainedL2)
    BY <1>23, DrainedWhenEmpty DEF credit_chk
  <2> QED
    BY <2>1, KeptQueue, FlushedQueue
<1>24. ASSUME NEW d \in Fw.s2l, mcast_s2l(d) PROVE WritesLatest
  BY <1>24, KeepsDdr DEF mcast_s2l
<1>25. ASSUME NEW d \in Fw.g2s, mcast_g2s(d) PROVE WritesLatest
  BY <1>25, KeepsDdr DEF mcast_g2s
<1>26. ASSUME NEW d \in Fw.s2s, mcast_s2s(d) PROVE WritesLatest
  BY <1>26, KeepsDdr DEF mcast_s2s
<1>27. ASSUME NEW d \in Fw.copymem, copy_mem(d) PROVE WritesLatest
  BY <1>27, CopyMemCommits
<1>28. ASSUME NEW w \in Fw.wsvr, wrspr_svr(w[1], w[2], w[3]) PROVE WritesLatest
  BY <1>28, KeepsDdr DEF wrspr_svr, KeepQueue
<1>29. ASSUME NEW d \in Fw.lsvr, load_svr(d) PROVE WritesLatest
  BY <1>29, KeepsDdr DEF load_svr
<1>30. ASSUME NEW d \in Fw.ssvr, store_svr(d) PROVE WritesLatest
  BY <1>30, KeepsDdr DEF store_svr
<1> QED
  BY <1>1, <1>2, <1>3, <1>4, <1>5, <1>6, <1>7, <1>8, <1>9, <1>10, <1>11, <1>12, <1>13, <1>14, <1>15, <1>16, <1>17, <1>18, <1>19, <1>20, <1>21, <1>22, <1>23, <1>24, <1>25, <1>26, <1>27, <1>28, <1>29, <1>30
     DEF Next, Markers, SharedLoopOps, ThreadLoopOps, ControlOps, MoverOps, SvrOps

(* A commit of the deferred stores leaves at each DDR address what the last queued row that
   covers it names, read from L2 as the drained T-loop buffer left it, and no other step
   writes the DDR, but for the targets of a copy.mem: for every queue, stride, overlap and
   order of NESTs, at end.p, join, credit.chk, an S-loop load and a copy.mem alike. *)
THEOREM CommitsFaithful == Spec => CommitWritesLatest
<1>1. MemoryInv /\ PendingFramesCoherent /\ [Next]_vars => [WritesLatest]_vars
  BY CommitStep
<1>2. [WritesLatest]_vars =>
      [LET committed == deferred_ddr_stores # <<>> /\ deferred_ddr_stores' = <<>>
     IN /\ ~committed /\ ~halted' =>
             \A a \in DOMAIN ddr \ CopyTargets : ddr'[a] = ddr[a]
        /\ committed =>
             \A a \in DOMAIN ddr \ CopyTargets :
               ddr'[a] = IF Covering(a) = {} THEN ddr[a]
                         ELSE LET p == LastCovering(a)
                                  req == deferred_ddr_stores[p[1]]
                                  r == StoreRows(req)[p[2]]
                              IN DrainedL2[req.nest][r.s + (a - r.d)]]_vars
  BY DEF WritesLatest, QueueCommitted, Latest
<1> QED
  BY <1>1, <1>2, MemoryInvariant, BufferCoherent, PTL DEF Spec, CommitWritesLatest

-----------------------------------------------------------------------------
(* The stores that wait. No row of a store starts beyond the end of L2, whichever word the
   firmware stages. *)
RowsInside(r) == r.l2_off + (r.height - 1) * r.l2_stride < L2Size

StagedWord == staging.op3 \in Fw.op3 \cup {NoStaging.op3}

QueuedInside == \A i \in 1 .. Len(deferred_ddr_stores) : RowsInside(deferred_ddr_stores[i])

OrderInv == StagedWord /\ QueuedInside

LEMMA OrderKept ==
  ASSUME OrderInv, staging' \in {staging, NoStaging}, deferred_ddr_stores' \in {deferred_ddr_stores, <<>>}
  PROVE  OrderInv'
<1>1. StagedWord'
  BY DEF OrderInv, StagedWord
<1>2. QueuedInside'
  <2>1. Len(<<>>) = 0
    OBVIOUS
  <2> QED
    BY <2>1 DEF OrderInv, QueuedInside
<1> QED
  BY <1>1, <1>2 DEF OrderInv

LEMMA StoreOrdered ==
  ASSUME OrderedStores(Fw), ControlTypeOK, OrderInv, NEW d \in Fw.sstore, sloop_store(d)
  PROVE  OrderInv'
<1>1. staging' \in {staging, NoStaging}
  BY DEF sloop_store, ClearStaging
<1>2. PICK r : r = [nest |-> nest, l2_off |-> d.lo, ddr_off |-> DdrOff(d.hi), length |-> d.len,
                    height |-> d.h, l2_stride |-> staging.op3.lo, ddr_stride |-> d.st]
  OBVIOUS
<1>3. RowsInside(r)
  <2>1. d.lo + (d.h - 1) * staging.op3.lo < L2Size
    BY DEF OrderedStores, OrderInv, StagedWord
  <2>2. r.l2_off = d.lo /\ r.height = d.h /\ r.l2_stride = staging.op3.lo
    BY <1>2
  <2> QED
    BY <2>1, <2>2 DEF RowsInside
<1>4. deferred_ddr_stores \in Seq(DeferredDdrStores) /\ deferred_ddr_stores' = Append(deferred_ddr_stores, r)
  BY <1>2 DEF sloop_store, ControlTypeOK, QueueTypeOK
<1>5. \A i \in 1 .. Len(deferred_ddr_stores') :
        deferred_ddr_stores'[i] = r \/ (i \in 1 .. Len(deferred_ddr_stores) /\ deferred_ddr_stores'[i] = deferred_ddr_stores[i])
  BY <1>4
<1>6. QueuedInside'
  BY <1>3, <1>5 DEF OrderInv, QueuedInside
<1> QED
  BY <1>1, <1>6 DEF OrderInv, StagedWord

LEMMA OrderStep ==
  ASSUME OrderedStores(Fw), ControlTypeOK, OrderInv, Next
  PROVE  OrderInv'
<1>1. ASSUME NEW id \in Fw.nest_ids, startp(id) PROVE OrderInv'
  BY <1>1, OrderKept DEF startp, Marker, KeepQueue, ClearStaging
<1>2. ASSUME NEW id, NEW Units, badid(id, Units) PROVE OrderInv'
  BY <1>2, OrderKept DEF badid, Marker, ClearStaging
<1>3. ASSUME NEW id \in Fw.gdmac_ids, starts(id) PROVE OrderInv'
  BY <1>3, OrderKept DEF starts, Marker, KeepQueue, ClearStaging
<1>4. ASSUME NEW id \in Fw.spu_ids, startt(id) PROVE OrderInv'
  BY <1>4, OrderKept DEF startt, Marker, KeepQueue, ClearStaging
<1>5. ASSUME ends PROVE OrderInv'
  BY <1>5, OrderKept DEF ends, Marker, KeepQueue, ClearStaging
<1>6. ASSUME endt PROVE OrderInv'
  BY <1>6, OrderKept DEF endt, Marker, KeepQueue, ClearStaging
<1>7. ASSUME endp PROVE OrderInv'
  BY <1>7, OrderKept DEF endp, Marker, Settle, KeepQueue, FlushQueue, ClearStaging
<1>8. ASSUME split PROVE OrderInv'
  BY <1>8, OrderKept DEF split, Marker, KeepQueue, ClearStaging
<1>9. ASSUME join PROVE OrderInv'
  BY <1>9, OrderKept DEF join, Marker, Settle, FlushQueue, ClearStaging
<1>10. ASSUME NEW d \in Fw.sload, sloop_load(d) PROVE OrderInv'
  BY <1>10, OrderKept DEF sloop_load, Eager, ClearStaging
<1>11. ASSUME NEW d \in Fw.sstore, sloop_store(d) PROVE OrderInv'
  BY <1>11, StoreOrdered
<1>12. ASSUME NEW d \in Fw.scopy, sloop_copy(d) PROVE OrderInv'
  BY <1>12, OrderKept DEF sloop_copy, Eager, ClearStaging
<1>13. ASSUME idle_dma PROVE OrderInv'
  BY <1>13, OrderKept DEF idle_dma, Eager, ClearStaging
<1>14. ASSUME NEW i \in TLoopInsns, try_buffer(i[1], i[2]) PROVE OrderInv'
  BY <1>14, OrderKept DEF try_buffer, ClearStaging
<1>15. ASSUME NEW i \in Fw.tdma, dma_tloop(i[1], i[2]) PROVE OrderInv'
  BY <1>15, OrderKept DEF dma_tloop, ExecuteOnBank, Eager, KeepQueue, ClearStaging
<1>16. ASSUME NEW i \in Fw.vec, vector_op(i[1], i[2]) PROVE OrderInv'
  BY <1>16, OrderKept DEF vector_op, ExecuteOnBank, Eager, KeepQueue, ClearStaging
<1>17. ASSUME NEW w \in Fw.op3, opset("op3", w) PROVE OrderInv'
  <2>1. staging' = [staging EXCEPT !["op3"] = w] /\ deferred_ddr_stores' = deferred_ddr_stores
    BY <1>17 DEF opset
  <2>2. staging'.op3 = w
    BY <2>1 DEF ControlTypeOK, BufferTypeOK
  <2> QED
    BY <2>1, <2>2 DEF OrderInv, StagedWord, QueuedInside
<1>18. ASSUME NEW w \in Fw.op5, opset("op5", w) PROVE OrderInv'
  <2>1. staging' = [staging EXCEPT !["op5"] = w] /\ deferred_ddr_stores' = deferred_ddr_stores
    BY <1>18 DEF opset
  <2>2. staging'.op3 = staging.op3
    BY <2>1 DEF ControlTypeOK, BufferTypeOK
  <2> QED
    BY <2>1, <2>2 DEF OrderInv, StagedWord, QueuedInside
<1>19. ASSUME NEW w \in Fw.anchors, wrspr(w[1], w[2]) PROVE OrderInv'
  BY <1>19, OrderKept DEF wrspr, HardBoundary, KeepQueue, ClearStaging
<1>20. ASSUME rdspr PROVE OrderInv'
  BY <1>20, OrderKept DEF rdspr, HardBoundary, KeepQueue, ClearStaging
<1>21. ASSUME credit_ld_op PROVE OrderInv'
  BY <1>21, OrderKept DEF credit_ld_op, Eager, KeepQueue, ClearStaging
<1>22. ASSUME NEW mask \in Fw.masks, credit_st_op(mask) PROVE OrderInv'
  BY <1>22, OrderKept DEF credit_st_op, Eager, KeepQueue, ClearStaging
<1>23. ASSUME credit_chk PROVE OrderInv'
  BY <1>23, OrderKept DEF credit_chk, KeepQueue, FlushQueue, ClearStaging
<1>24. ASSUME NEW d \in Fw.s2l, mcast_s2l(d) PROVE OrderInv'
  BY <1>24, OrderKept DEF mcast_s2l, HardBoundary, ClearStaging
<1>25. ASSUME NEW d \in Fw.g2s, mcast_g2s(d) PROVE OrderInv'
  BY <1>25, OrderKept DEF mcast_g2s, HardBoundary, ClearStaging
<1>26. ASSUME NEW d \in Fw.s2s, mcast_s2s(d) PROVE OrderInv'
  BY <1>26, OrderKept DEF mcast_s2s, HardBoundary, ClearStaging
<1>27. ASSUME NEW d \in Fw.copymem, copy_mem(d) PROVE OrderInv'
  BY <1>27, OrderKept DEF copy_mem, HardBoundary, ClearStaging
<1>28. ASSUME NEW w \in Fw.wsvr, wrspr_svr(w[1], w[2], w[3]) PROVE OrderInv'
  BY <1>28, OrderKept DEF wrspr_svr, KeepQueue, HardBoundary, ClearStaging
<1>29. ASSUME NEW d \in Fw.lsvr, load_svr(d) PROVE OrderInv'
  BY <1>29, OrderKept DEF load_svr, HardBoundary, ClearStaging
<1>30. ASSUME NEW d \in Fw.ssvr, store_svr(d) PROVE OrderInv'
  BY <1>30, OrderKept DEF store_svr, HardBoundary, ClearStaging
<1> QED
  BY <1>1, <1>2, <1>3, <1>4, <1>5, <1>6, <1>7, <1>8, <1>9, <1>10, <1>11, <1>12, <1>13, <1>14, <1>15, <1>16, <1>17, <1>18, <1>19, <1>20, <1>21, <1>22, <1>23, <1>24, <1>25, <1>26, <1>27, <1>28, <1>29, <1>30
     DEF Next, Markers, SharedLoopOps, ThreadLoopOps, ControlOps, MoverOps, SvrOps

(* The body of StoreBeforeOverwrite. *)
SparesSources ==
  is_sloop /\ deferred_ddr_stores' = deferred_ddr_stores =>
    \A m \in Nests : \A x \in PendingSource(m) : l2'[m][x] = l2[m][x]

(* The rows a store will read lie in the extent the guard of LOAD compares. *)
LEMMA RowBelow ==
  ASSUME NEW h \in Nat, NEW i \in 1 .. h, NEW stride \in Nat
  PROVE  (i - 1) * stride \in Nat /\ (h - 1) * stride \in Nat /\ (i - 1) * stride <= (h - 1) * stride
<1>1. \A x, y, z \in Nat : x <= y => x * z <= y * z
  OBVIOUS
<1>2. \A x, y \in Nat : x * y \in Nat
  OBVIOUS
<1>3. i - 1 \in Nat /\ h - 1 \in Nat /\ i - 1 <= h - 1
  OBVIOUS
<1> QED
  BY <1>1, <1>2, <1>3

LEMMA SourceInExtent ==
  ASSUME NEW r \in DeferredDdrStores, RowsInside(r), NEW x \in SourceCells(StoreRows(r))
  PROVE  x \in Extent(r.l2_off, r.l2_stride, r.height, r.length) /\ x \in 0 .. (L2Size - 1)
<1>1. /\ r.l2_off \in Nat /\ r.ddr_off \in Nat /\ r.length \in Nat /\ r.height \in Nat
      /\ r.l2_stride \in Nat /\ r.ddr_stride \in Nat
  BY DEF DeferredDdrStores
<1>2. DOMAIN StoreRows(r) = 1 .. r.height
  BY DEF StoreRows
<1>3. PICK i \in 1 .. r.height : x \in StoreRows(r)[i].s .. (StoreRows(r)[i].s + StoreRows(r)[i].n - 1)
  BY <1>2 DEF SourceCells
<1>4. PICK p \in Nat, q \in Nat : p = (i - 1) * r.l2_stride /\ q = (r.height - 1) * r.l2_stride /\ p <= q
  BY <1>1, RowBelow
<1>5. r.l2_off + q < L2Size
  BY <1>4 DEF RowsInside
<1>6. (r.l2_off + p) % L2Size = r.l2_off + p
  <2>1. \A y, m \in Nat : y < m => y % m = y
    OBVIOUS
  <2>2. r.l2_off + p \in Nat /\ r.l2_off + p < L2Size /\ L2Size \in Nat
    BY <1>1, <1>4, <1>5, SizeAssumption
  <2> QED
    BY <2>1, <2>2
<1>7. PICK d \in Nat : d = r.ddr_off + (i - 1) * r.ddr_stride
  BY <1>1, StepType
<1>8. PICK n : n = Min({r.length, DdrSize - d, L2Size - (r.l2_off + p)})
  OBVIOUS
<1>9. n \in Int /\ n <= r.length /\ n <= L2Size - (r.l2_off + p)
  <2>1. r.length \in Int /\ DdrSize - d \in Int /\ L2Size - (r.l2_off + p) \in Int
    BY <1>1, <1>4, <1>7, SizeAssumption
  <2> QED
    BY <1>8, <2>1, MinOfThree
<1>10. StoreRows(r)[i] = [d |-> d, s |-> r.l2_off + p, n |-> n]
  BY <1>4, <1>6, <1>7, <1>8 DEF StoreRows
<1>11. x \in r.l2_off + p .. (r.l2_off + p + n - 1)
  BY <1>3, <1>10
<1>12. Extent(r.l2_off, r.l2_stride, r.height, r.length) = r.l2_off .. (r.l2_off + q + r.length - 1)
  BY <1>4 DEF Extent
<1>13. PICK off \in Nat, len \in Nat, size \in Nat : off = r.l2_off /\ len = r.length /\ size = L2Size
  BY <1>1, SizeAssumption
<1>14. x \in off + p .. (off + p + n - 1) /\ n <= len /\ n <= size - (off + p)
  BY <1>9, <1>11, <1>13
<1>15. x \in off .. (off + q + len - 1) /\ x \in 0 .. (size - 1)
  BY <1>4, <1>9, <1>14
<1> QED
  BY <1>12, <1>13, <1>15

(* The rows a LOAD writes lie in the extent its guard is given. *)
LEMMA LoadInExtent ==
  ASSUME NEW lo \in Nat, NEW wr \in Nat, NEW s0, NEW sst, NEW h \in Nat, NEW len \in Nat,
         NEW x \in Int, x \notin Extent(lo, wr, h, len), NEW i \in 1 .. h
  PROVE  OutsideRow(x, Grid(lo, wr, s0, sst, h, len)[i])
<1>1. PICK p \in Nat, q \in Nat : p = (i - 1) * wr /\ q = (h - 1) * wr /\ p <= q
  BY RowBelow
<1>2. PICK s : s = s0 + (i - 1) * sst
  OBVIOUS
<1>3. Grid(lo, wr, s0, sst, h, len)[i] = [d |-> lo + p, s |-> s, n |-> len]
  BY <1>1, <1>2 DEF Grid
<1>4. x \notin lo .. (lo + q + len - 1)
  BY <1>1 DEF Extent
<1> QED
  BY <1>1, <1>3, <1>4 DEF OutsideRow

LEMMA LoadSpares ==
  ASSUME MemoryInv, QueuedInside, NEW d \in Fw.sload, sloop_load(d)
  PROVE  SparesSources
<1>1. /\ d.lo \in Nat /\ d.hi \in Nat /\ d.st \in Nat /\ d.h \in Nat \ {0} /\ d.len \in Nat \ {0}
  BY FirmwareAssumption DEF DmaArgs
<1>2. nest \in Nests /\ l2 \in [Nests -> L2Mem] /\ ddr \in DdrMem /\ QueueTypeOK
  BY RoutedUnit DEF MemoryInv, MemoryTypeOK, ControlTypeOK
<1>3. PICK wr \in Nat : wr = staging.op3.lo
  BY DEF MemoryInv, ControlTypeOK, BufferTypeOK, Words
<1>4. PICK off \in Nat : off = DdrOff(d.hi)
  BY <1>1, DdrOffType
<1>5. PICK width \in Nat : width = IF wr = 0 THEN d.len ELSE wr
  BY <1>1
<1>6. PICK hits \in BOOLEAN : hits = HitsPendingSource(Extent(d.lo, width, d.h, d.len))
  BY DEF HitsPendingSource
<1>7. PICK D \in DdrMem : D = ddr'
  BY LoadTypes
<1>8. PICK rows : rows = Grid(d.lo, wr, off, d.st, d.h, d.len)
  OBVIOUS
<1>9. /\ deferred_ddr_stores' = IF hits /\ ~FlushFails THEN <<>> ELSE deferred_ddr_stores
      /\ hits /\ FlushFails => halted'
      /\ l2' = IF halted' THEN l2 ELSE [l2 EXCEPT ![nest] = CopyRows(@, D, rows)]
      /\ ~halted' => wr >= d.len /\ ~Overruns(off, d.st, d.h, d.len)
  <2>1. staging.op3.lo < d.len <=> ~(wr >= d.len)
    BY <1>1, <1>3
  <2> QED
    BY <1>3, <1>4, <1>5, <1>6, <1>7, <1>8, <2>1 DEF sloop_load
<1>10. CASE halted'
  BY <1>9, <1>10 DEF SparesSources
<1>11. CASE ~halted'
  <2> SUFFICES ASSUME deferred_ddr_stores' = deferred_ddr_stores, NEW m \in Nests, NEW x \in PendingSource(m)
               PROVE  l2'[m][x] = l2[m][x]
    BY DEF SparesSources
  <2>1. PICK i \in 1 .. Len(deferred_ddr_stores) :
          deferred_ddr_stores[i].nest = m /\ x \in SourceCells(StoreRows(deferred_ddr_stores[i]))
    BY <1>2 DEF PendingSource, QueueTypeOK
  <2>2. deferred_ddr_stores[i] \in DeferredDdrStores /\ RowsInside(deferred_ddr_stores[i])
    BY <1>2 DEF QueueTypeOK, QueuedInside
  <2>3. PICK r \in DeferredDdrStores : r = deferred_ddr_stores[i] /\ RowsInside(r)
    BY <2>2
  <2>4. x \in Extent(r.l2_off, r.l2_stride, r.height, r.length) /\ x \in 0 .. (L2Size - 1)
    BY <2>1, <2>3, SourceInExtent
  <2>5. CASE m # nest
    BY <1>2, <1>9, <1>11, <2>5
  <2>6. CASE m = nest
    <3>1. Len(deferred_ddr_stores) # 0 /\ Len(<<>>) = 0
      BY <2>1
    <3>2. ~hits
      BY <1>9, <1>11, <3>1
    <3>3. x \notin Extent(d.lo, width, d.h, d.len)
      <4>1. DOMAIN deferred_ddr_stores = 1 .. Len(deferred_ddr_stores)
        BY <1>2 DEF QueueTypeOK
      <4>2. i \in DOMAIN deferred_ddr_stores /\ r.nest = nest
        BY <2>1, <2>3, <2>6, <4>1
      <4>3. PICK window : window = Extent(d.lo, width, d.h, d.len)
        OBVIOUS
      <4>4. \A k \in DOMAIN deferred_ddr_stores :
              deferred_ddr_stores[k].nest = nest =>
                Extent(deferred_ddr_stores[k].l2_off, deferred_ddr_stores[k].l2_stride,
                       deferred_ddr_stores[k].height, deferred_ddr_stores[k].length) \cap window = {}
        BY <1>6, <3>2, <4>3 DEF HitsPendingSource
      <4>5. Extent(r.l2_off, r.l2_stride, r.height, r.length) \cap window = {}
        BY <2>3, <4>2, <4>4
      <4> QED
        BY <2>4, <4>3, <4>5
    <3>4. width = wr
      BY <1>1, <1>5, <1>9, <1>11
    <3>5. \A k \in 1 .. d.h : OutsideRow(x, rows[k])
      <4> TAKE k \in 1 .. d.h
      <4>1. x \in Int /\ x \notin Extent(d.lo, wr, d.h, d.len)
        BY <2>4, <3>3, <3>4
      <4>2. d.lo \in Nat /\ d.h \in Nat /\ d.len \in Nat
        BY <1>1
      <4> QED
        BY <1>8, <4>1, <4>2, LoadInExtent
    <3>6. RowsRead(rows, d.h, 0 .. (DdrSize - 1))
      BY <1>1, <1>8, <1>9, <1>11, FitsDdr
    <3>7. l2[nest] \in [0 .. (L2Size - 1) -> Val] /\ D \in [0 .. (DdrSize - 1) -> Val] /\ 0 .. (L2Size - 1) \in SUBSET Int
      BY <1>2 DEF L2Mem, DdrMem
    <3>8. CopyFacts(CopyRows(l2[nest], D, rows), 0 .. (L2Size - 1), Val, l2[nest], D, rows, d.h)
      BY <3>6, <3>7, CopyRowsFacts
    <3>9. CopyRows(l2[nest], D, rows)[x] = l2[nest][x]
      BY <2>4, <3>5, <3>8 DEF CopyFacts
    <3> QED
      BY <1>2, <1>9, <1>11, <2>6, <3>9
  <2> QED
    BY <2>5, <2>6
<1> QED
  BY <1>10, <1>11

LEMMA KeepsL2 ==
  ASSUME is_sloop => l2' = l2
  PROVE  SparesSources
BY DEF SparesSources

LEMMA DrainSpares ==
  ASSUME MemoryInv, PendingFramesCoherent, Marker \/ l2' = AtBoundary(l2, DrainedL2)
  PROVE  SparesSources
<1>1. l2' = DrainedL2
  BY MarkerDrains, DrainedWhenEmpty
<1> QED
  BY <1>1, DrainedWhenEmpty, KeepsL2

(* A vector instruction works in L1. *)
LEMMA VectorSpares ==
  ASSUME MemoryInv, NEW i \in Fw.vec, vector_op(i[1], i[2])
  PROVE  SparesSources
<1>1. i[1] \in UnaryOps \cup {"add.vv", "add.vs"}
  BY FirmwareAssumption
<1>2. Entry(i[1], i[2]).mnemonic = i[1]
  BY DEF Entry
<1>3. PICK e : e = Entry(i[1], i[2])
  OBVIOUS
<1>4. Replay(e, Bank).l2 = Bank.l2
  <2>1. PICK b : b = [Bank EXCEPT !.addr = e.addr]
    OBVIOUS
  <2>2. b.l2 = Bank.l2 /\ b = [l1 |-> b.l1, l2 |-> b.l2, addr |-> b.addr]
    BY <2>1 DEF Bank
  <2>3. \A f, v, w : UnaryV(f, v, b).l2 = b.l2 /\ ArithVV(v, b).l2 = b.l2 /\ ArithVS(v, w, b).l2 = b.l2
    BY <2>2 DEF Vector, UnaryV, ArithVV, ArithVS
  <2>4. e.mnemonic \notin {"load", "store", "copy"} /\ e.mnemonic \in UnaryOps \cup {"add.vv", "add.vs"}
    BY <1>1, <1>2, <1>3, ElementAssumption
  <2>5. \/ Replay(e, Bank) = ArithVV(e.arg, b)
        \/ Replay(e, Bank) = ArithVS(e.arg, e.op5, b)
        \/ Replay(e, Bank) = UnaryV(e.mnemonic, e.arg, b)
    <3>1. CASE e.mnemonic = "add.vv"
      BY <3>1, <2>1 DEF Replay
    <3>2. CASE e.mnemonic = "add.vs"
      BY <3>2, <2>1 DEF Replay
    <3>3. CASE e.mnemonic \in UnaryOps
      <4>1. e.mnemonic \notin {"load", "store", "copy", "add.vv", "add.vs"}
        BY <3>3, ElementAssumption
      <4> QED
        BY <3>3, <4>1, <2>1 DEF Replay
    <3> QED
      BY <2>4, <3>1, <3>2, <3>3
  <2> QED
    BY <2>2, <2>3, <2>5
<1>5. Bank.l2 = l2[nest] /\ l2 \in [Nests -> L2Mem] /\ nest \in Nests
  BY RoutedUnit DEF Bank, MemoryInv, ControlTypeOK, MemoryTypeOK
<1>6. l2' = [l2 EXCEPT ![nest] = Replay(e, Bank).l2]
  BY <1>3 DEF vector_op, ExecuteOnBank, WriteBank
<1>7. l2' = l2
  BY <1>4, <1>5, <1>6
<1> QED
  BY <1>7, KeepsL2

LEMMA CopyMemSpares ==
  ASSUME MemoryInv, PendingFramesCoherent, NEW d \in Fw.copymem, d.src >= L2Size, copy_mem(d)
  PROVE  SparesSources
<1>1. d.len \in Nat
  BY FirmwareAssumption DEF MoveArgs
<1>2. CASE d.len = 0 \/ FlushFails
  <2>1. l2' = AtBoundary(l2, DrainedL2)
    BY <1>1, <1>2 DEF copy_mem
  <2> QED
    BY <2>1, DrainSpares
<1>3. CASE d.len > 0 /\ ~FlushFails
  <2>1. deferred_ddr_stores' = <<>>
    BY <1>3 DEF copy_mem
  <2>2. \A m : deferred_ddr_stores = <<>> => PendingSource(m) = {}
    BY DEF PendingSource
  <2> QED
    BY <2>1, <2>2 DEF SparesSources
<1> QED
  BY <1>1, <1>2, <1>3

LEMMA SpareStep ==
  ASSUME OrderedStores(Fw), MemoryInv, PendingFramesCoherent, QueuedInside, Next
  PROVE  SparesSources
<1>1. ASSUME NEW id \in Fw.nest_ids, startp(id) PROVE SparesSources
  BY <1>1, DrainSpares DEF startp
<1>2. ASSUME NEW id, NEW Units, badid(id, Units) PROVE SparesSources
  BY <1>2, DrainSpares DEF badid
<1>3. ASSUME NEW id \in Fw.gdmac_ids, starts(id) PROVE SparesSources
  BY <1>3, DrainSpares DEF starts
<1>4. ASSUME NEW id \in Fw.spu_ids, startt(id) PROVE SparesSources
  BY <1>4, DrainSpares DEF startt
<1>5. ASSUME ends PROVE SparesSources
  BY <1>5, DrainSpares DEF ends
<1>6. ASSUME endt PROVE SparesSources
  BY <1>6, DrainSpares DEF endt
<1>7. ASSUME endp PROVE SparesSources
  BY <1>7, DrainSpares DEF endp
<1>8. ASSUME split PROVE SparesSources
  BY <1>8, DrainSpares DEF split
<1>9. ASSUME join PROVE SparesSources
  BY <1>9, DrainSpares DEF join
<1>10. ASSUME NEW d \in Fw.sload, sloop_load(d) PROVE SparesSources
  BY <1>10, LoadSpares
<1>11. ASSUME NEW d \in Fw.sstore, sloop_store(d) PROVE SparesSources
  BY <1>11, KeepsL2 DEF sloop_store, memory
<1>12. ASSUME NEW d \in Fw.scopy, sloop_copy(d) PROVE SparesSources
  BY <1>12 DEF OrderedStores
<1>13. ASSUME idle_dma PROVE SparesSources
  BY <1>13, KeepsL2 DEF idle_dma, memory
<1>14. ASSUME NEW i \in TLoopInsns, try_buffer(i[1], i[2]) PROVE SparesSources
  BY <1>14, KeepsL2 DEF try_buffer, memory
<1>15. ASSUME NEW i \in Fw.tdma, dma_tloop(i[1], i[2]) PROVE SparesSources
  BY <1>15, KeepsL2 DEF dma_tloop, is_sloop, is_tloop
<1>16. ASSUME NEW i \in Fw.vec, vector_op(i[1], i[2]) PROVE SparesSources
  BY <1>16, VectorSpares
<1>17. ASSUME NEW w \in Fw.op3, opset("op3", w) PROVE SparesSources
  BY <1>17, KeepsL2 DEF opset, memory
<1>18. ASSUME NEW w \in Fw.op5, opset("op5", w) PROVE SparesSources
  BY <1>18, KeepsL2 DEF opset, memory
<1>19. ASSUME NEW w \in Fw.anchors, wrspr(w[1], w[2]) PROVE SparesSources
  BY <1>19, DrainSpares DEF wrspr
<1>20. ASSUME rdspr PROVE SparesSources
  BY <1>20, DrainSpares DEF rdspr
<1>21. ASSUME credit_ld_op PROVE SparesSources
  BY <1>21, KeepsL2 DEF credit_ld_op, memory
<1>22. ASSUME NEW mask \in Fw.masks, credit_st_op(mask) PROVE SparesSources
  BY <1>22, KeepsL2 DEF credit_st_op, memory
<1>23. ASSUME credit_chk PROVE SparesSources
  BY <1>23, KeepsL2 DEF credit_chk, memory
<1>24. ASSUME NEW d \in Fw.s2l, mcast_s2l(d) PROVE SparesSources
  BY <1>24, DrainSpares DEF mcast_s2l
<1>25. ASSUME NEW d \in Fw.g2s, mcast_g2s(d) PROVE SparesSources
  BY <1>25 DEF OrderedStores
<1>26. ASSUME NEW d \in Fw.s2s, mcast_s2s(d) PROVE SparesSources
  BY <1>26 DEF OrderedStores
<1>27. ASSUME NEW d \in Fw.copymem, copy_mem(d) PROVE SparesSources
  BY <1>27, CopyMemSpares DEF OrderedStores
<1>28. ASSUME NEW w \in Fw.wsvr, wrspr_svr(w[1], w[2], w[3]) PROVE SparesSources
  BY <1>28, DrainSpares DEF wrspr_svr, KeepQueue
<1>29. ASSUME NEW d \in Fw.lsvr, load_svr(d) PROVE SparesSources
  BY <1>29, DrainSpares DEF load_svr
<1>30. ASSUME NEW d \in Fw.ssvr, store_svr(d) PROVE SparesSources
  BY <1>30, DrainSpares DEF store_svr
<1> QED
  BY <1>1, <1>2, <1>3, <1>4, <1>5, <1>6, <1>7, <1>8, <1>9, <1>10, <1>11, <1>12, <1>13, <1>14, <1>15, <1>16, <1>17, <1>18, <1>19, <1>20, <1>21, <1>22, <1>23, <1>24, <1>25, <1>26, <1>27, <1>28, <1>29, <1>30
     DEF Next, Markers, SharedLoopOps, ThreadLoopOps, ControlOps, MoverOps, SvrOps

(* Where LOAD is the only writer of the L2 of an S-loop and no waiting row wraps, no store
   loses its source before it is committed, whatever the queue holds: comparing two linear
   extents is enough for windows of any stride and height.  Both hypotheses are needed:
   ReuseFw and WrappedFw of MCGtxNpu lose a source. *)
THEOREM WaitingStoresKept == OrderedStores(Fw) => (Spec => StoreBeforeOverwrite)
<1> SUFFICES ASSUME OrderedStores(Fw) PROVE Spec => StoreBeforeOverwrite
  OBVIOUS
<1>1. Init => OrderInv
  BY DEF Init, OrderInv, StagedWord, QueuedInside
<1>2. ControlTypeOK /\ OrderInv /\ [Next]_vars => OrderInv'
  BY OrderStep, OrderKept DEF vars
<1>3. Spec => []OrderInv
  BY <1>1, <1>2, ControlTypeCorrect, PTL DEF Spec
<1>4. MemoryInv /\ PendingFramesCoherent /\ OrderInv /\ [Next]_vars => [SparesSources]_vars
  BY SpareStep DEF OrderInv
<1>5. [SparesSources]_vars =>
      [is_sloop /\ deferred_ddr_stores' = deferred_ddr_stores =>
         \A m \in Nests : \A x \in PendingSource(m) : l2'[m][x] = l2[m][x]]_vars
  BY DEF SparesSources
<1> QED
  BY <1>3, <1>4, <1>5, MemoryInvariant, BufferCoherent, PTL DEF Spec, StoreBeforeOverwrite

================================================================================
