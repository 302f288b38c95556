------------------------------ MODULE FoldProofs ------------------------------
(***************************************************************************)
(* Induction over data, and the folds the models are built from.  The      *)
(* induction theorems of the library take a predicate as a parameter; here *)
(* they are stated for a set of numbers and for a function, so that they   *)
(* can be cited.                                                           *)
(***************************************************************************)
EXTENDS SequencesExt, FiniteSetTheorems, WellFoundedInduction, TLAPS

(* Induction on the natural numbers, with a set in the place of the predicate: it is
   the minimum principle of the well-founded order on Nat. *)
LEMMA NatSetInduction ==
  ASSUME NEW T, 0 \in T, \A n \in Nat : n \in T => n + 1 \in T
  PROVE  Nat \subseteq T
<1> DEFINE Before == {p \in Nat \X Nat : p[1] < p[2]}
<1> SUFFICES ASSUME Nat \ T # {} PROVE FALSE
  OBVIOUS
<1>1. IsWellFoundedOn(Before, Nat)
  BY NatLessThanWellFounded DEF OpToRel
<1>2. PICK x \in Nat \ T : \A y \in Nat \ T : ~ (<<y, x>> \in Before)
  <2> HIDE DEF Before
  <2> QED
    BY <1>1, WFMin
<1>3. x # 0 /\ x - 1 \in Nat /\ x - 1 \notin T
  BY <1>2
<1>4. <<x - 1, x>> \in Before
  BY <1>3
<1> QED
  BY <1>2, <1>3, <1>4

(* The same up to a bound, which is how it is used on sequences. *)
LEMMA UpToInduction ==
  ASSUME NEW n \in Nat, NEW T, 0 \in T, \A k \in 0 .. n - 1 : k \in T => k + 1 \in T
  PROVE  0 .. n \subseteq T
<1> DEFINE S == {k \in Nat : k <= n => k \in T}
<1>1. 0 \in S
  OBVIOUS
<1>2. \A k \in Nat : k \in S => k + 1 \in S
  OBVIOUS
<1>3. Nat \subseteq S
  <2> HIDE DEF S
  <2> QED
    BY <1>1, <1>2, NatSetInduction
<1> QED
  BY <1>3

-----------------------------------------------------------------------------
(* A fold over a set takes its elements away one by one, those that c picks. *)
FoldedBy(it, S, base, F, c) ==
  \A s \in SUBSET S : it[s] = IF s = {} THEN base ELSE F[<<it[s \ {c[s]}], c[s]>>]

(* Over a finite set, the function a fold is the last value of exists. *)
LEMMA FoldExists ==
  ASSUME NEW S, IsFiniteSet(S), NEW V, NEW base \in V, NEW F \in [V \X S -> V],
         NEW c, \A s \in SUBSET S : s # {} => c[s] \in s
  PROVE  \E it \in [SUBSET S -> V] : FoldedBy(it, S, base, F, c)
<1> DEFINE Good(it, n) ==
             \A s \in SUBSET S : Cardinality(s) <= n =>
               it[s] = IF s = {} THEN base ELSE F[<<it[s \ {c[s]}], c[s]>>]
           T == {n \in Nat : \E it \in [SUBSET S -> V] : Good(it, n)}
<1>1. \A s \in SUBSET S : IsFiniteSet(s) /\ Cardinality(s) \in Nat /\ (Cardinality(s) = 0 <=> s = {})
  BY FS_Subset, FS_CardinalityType, FS_EmptySet
<1>2. \A s \in SUBSET S : s # {} => Cardinality(s \ {c[s]}) = Cardinality(s) - 1
  BY <1>1, FS_RemoveElement
<1>3. 0 \in T
  <2> DEFINE it == [s \in SUBSET S |-> base]
  <2>1. it \in [SUBSET S -> V] /\ Good(it, 0)
    BY <1>1
  <2> QED
    BY <2>1
<1>4. ASSUME NEW n \in Nat, n \in T PROVE n + 1 \in T
  <2>1. PICK it \in [SUBSET S -> V] : Good(it, n)
    BY <1>4
  <2> DEFINE more == [s \in SUBSET S |-> IF Cardinality(s) <= n THEN it[s] ELSE F[<<it[s \ {c[s]}], c[s]>>]]
  <2>2. \A s \in SUBSET S : s # {} => it[s \ {c[s]}] \in V /\ c[s] \in S
    OBVIOUS
  <2>3. \A s \in SUBSET S : Cardinality(s) > n => s # {}
    BY <1>1
  <2>4. more \in [SUBSET S -> V]
    BY <2>2, <2>3, <1>1
  <2>5. ASSUME NEW s \in SUBSET S, Cardinality(s) <= n + 1
        PROVE  more[s] = IF s = {} THEN base ELSE F[<<more[s \ {c[s]}], c[s]>>]
    <3>1. CASE s = {}
      BY <2>1, <3>1, <1>1
    <3>2. CASE s # {}
      <4>1. Cardinality(s \ {c[s]}) <= n
        BY <1>1, <1>2, <2>5, <3>2
      <4>2. more[s \ {c[s]}] = it[s \ {c[s]}]
        BY <4>1
      <4>3. more[s] = F[<<it[s \ {c[s]}], c[s]>>]
        BY <2>1, <3>2
      <4> QED
        BY <4>2, <4>3, <3>2
    <3> QED
      BY <3>1, <3>2
  <2>6. Good(more, n + 1)
    BY <2>5
  <2> HIDE DEF more, Good
  <2> QED
    BY <2>4, <2>6
<1>5. Nat \subseteq T
  <2> HIDE DEF T
  <2> QED
    BY <1>3, <1>4, NatSetInduction
<1>6. PICK it \in [SUBSET S -> V] : Good(it, Cardinality(S))
  BY <1>1, <1>5
<1>7. \A s \in SUBSET S : Cardinality(s) <= Cardinality(S)
  BY FS_Subset
<1> QED
  BY <1>6, <1>7 DEF FoldedBy

(* Two tables that agree on a set once they agree on it without the chosen element are
   the same. *)
Follows(it, ju, S, c) ==
  /\ it[{}] = ju[{}]
  /\ \A s \in SUBSET S : s # {} /\ it[s \ {c[s]}] = ju[s \ {c[s]}] => it[s] = ju[s]

SameOn(it, ju, S) == \A s \in SUBSET S : it[s] = ju[s]

LEMMA FoldUnique ==
  ASSUME NEW S, IsFiniteSet(S), NEW c, \A s \in SUBSET S : s # {} => c[s] \in s,
         NEW it, NEW ju, Follows(it, ju, S, c)
  PROVE  SameOn(it, ju, S)
<1> USE DEF Follows, SameOn
<1> DEFINE T == {n \in Nat : \A s \in SUBSET S : Cardinality(s) <= n => it[s] = ju[s]}
<1>1. \A s \in SUBSET S : IsFiniteSet(s) /\ Cardinality(s) \in Nat /\ (Cardinality(s) = 0 <=> s = {})
  BY FS_Subset, FS_CardinalityType, FS_EmptySet
<1>2. \A s \in SUBSET S : s # {} => Cardinality(s \ {c[s]}) = Cardinality(s) - 1
  BY <1>1, FS_RemoveElement
<1>3. 0 \in T
  <2>1. \A s \in SUBSET S : Cardinality(s) <= 0 => s = {}
    BY <1>1
  <2> QED
    BY <2>1
<1>4. ASSUME NEW n \in Nat, n \in T PROVE n + 1 \in T
  <2> SUFFICES ASSUME NEW s \in SUBSET S, Cardinality(s) <= n + 1
               PROVE  it[s] = ju[s]
    OBVIOUS
  <2> SUFFICES ASSUME s # {}
               PROVE  it[s] = ju[s]
    OBVIOUS
  <2>1. Cardinality(s \ {c[s]}) <= n
    BY <1>1, <1>2
  <2> QED
    BY <1>4, <2>1
<1>5. Nat \subseteq T
  <2> HIDE DEF T
  <2> QED
    BY <1>3, <1>4, NatSetInduction
<1> QED
  BY <1>1, <1>5

(* The largest element of a set of indices is one of them. *)
LEMMA MaxInSet ==
  ASSUME NEW n \in Nat, NEW s \in SUBSET (1 .. n), s # {}
  PROVE  Max(s) \in s /\ \A x \in s : x <= Max(s)
<1> DEFINE T == {k \in Nat : \A t \in SUBSET (1 .. k) : t # {} => \E x \in t : \A y \in t : x >= y}
<1>1. 0 \in T
  <2>1. 1 .. 0 = {}
    OBVIOUS
  <2> QED
    BY <2>1
<1>2. ASSUME NEW k \in Nat, k \in T PROVE k + 1 \in T
  <2> SUFFICES ASSUME NEW t \in SUBSET (1 .. k + 1), t # {}
               PROVE  \E x \in t : \A y \in t : x >= y
    OBVIOUS
  <2>1. CASE k + 1 \in t
    BY <2>1
  <2>2. CASE k + 1 \notin t
    <3>1. t \in SUBSET (1 .. k)
      BY <2>2
    <3> QED
      BY <3>1, <1>2
  <2> QED
    BY <2>1, <2>2
<1>3. Nat \subseteq T
  <2> HIDE DEF T
  <2> QED
    BY <1>1, <1>2, NatSetInduction
<1>4. \E x \in s : \A y \in s : x >= y
  BY <1>3
<1> QED
  BY <1>4 DEF Max

LEMMA MinInSet ==
  ASSUME NEW n \in Nat, NEW s \in SUBSET (1 .. n), s # {}
  PROVE  Min(s) \in s /\ \A x \in s : Min(s) <= x
<1> DEFINE t == {y \in 1 .. n : n + 1 - y \in s}
<1>1. t \in SUBSET (1 .. n) /\ t # {}
  <2>1. PICK x \in s : x \in 1 .. n
    OBVIOUS
  <2>2. n + 1 - x \in t
    BY <2>1
  <2> QED
    BY <2>2
<1>2. Max(t) \in t /\ \A y \in t : y <= Max(t)
  <2> HIDE DEF t
  <2> QED
    BY <1>1, MaxInSet
<1>3. PICK x \in s : x = n + 1 - Max(t)
  BY <1>2
<1>4. \A y \in s : x <= y
  <2> TAKE y \in s
  <2>1. n + 1 - y \in t /\ Max(t) \in 1 .. n /\ y \in 1 .. n
    BY <1>2
  <2>2. n + 1 - y <= Max(t)
    BY <1>2, <2>1
  <2> QED
    BY <1>3, <2>1, <2>2
<1> QED
  BY <1>4 DEF Min

LEMMA MaxFromZero ==
  ASSUME NEW n \in Nat, NEW s \in SUBSET (0 .. n), s # {}
  PROVE  Max(s) \in s
<1> DEFINE t == {y \in 1 .. n + 1 : y - 1 \in s}
<1>1. t \in SUBSET (1 .. n + 1) /\ t # {}
  <2>1. PICK x \in s : x \in 0 .. n
    OBVIOUS
  <2>2. x + 1 \in t
    BY <2>1
  <2> QED
    BY <2>2
<1>2. Max(t) \in t /\ \A y \in t : y <= Max(t)
  <2>1. n + 1 \in Nat
    OBVIOUS
  <2> HIDE DEF t
  <2> QED
    BY <1>1, <2>1, MaxInSet
<1>3. PICK x \in s : x = Max(t) - 1
  BY <1>2
<1>4. \A y \in s : x >= y
  <2> TAKE y \in s
  <2>1. y + 1 \in t /\ Max(t) \in 1 .. n + 1 /\ y \in 0 .. n
    BY <1>2
  <2>2. y + 1 <= Max(t)
    BY <1>2, <2>1
  <2> QED
    BY <1>3, <2>1, <2>2
<1>5. \E z \in s : \A y \in s : z >= y
  BY <1>4
<1> QED
  BY <1>5 DEF Max

LEMMA MaxOfPrefix ==
  ASSUME NEW n \in Nat \ {0}
  PROVE  Max(1 .. n) = n /\ (1 .. n) \ {n} = 1 .. n - 1
<1>1. Max(1 .. n) \in 1 .. n /\ \A x \in 1 .. n : x <= Max(1 .. n)
  <2>1. 1 .. n \in SUBSET (1 .. n) /\ 1 .. n # {}
    OBVIOUS
  <2> QED
    BY <2>1, MaxInSet
<1> QED
  BY <1>1

(* A fold over the indices 1 .. n takes the last one away first. *)
IndexFold(it, base, F, V, n) ==
  /\ it \in [SUBSET (1 .. n) -> V]
  /\ it = [s \in SUBSET (1 .. n) |-> IF s = {} THEN base ELSE F[<<it[s \ {Max(s)}], Max(s)>>]]

LEMMA FoldOfIndices ==
  ASSUME NEW n \in Nat, NEW V, NEW base \in V, NEW F \in [V \X (1 .. n) -> V]
  PROVE  \E it : IndexFold(it, base, F, V, n)
<1> DEFINE S == 1 .. n
           c == [s \in SUBSET S |-> Max(s)]
<1>1. \A s \in SUBSET S : s # {} => c[s] \in s
  BY MaxInSet
<1>2. IsFiniteSet(S)
  BY FS_Interval
<1>3. PICK it \in [SUBSET S -> V] : FoldedBy(it, S, base, F, c)
  <2>1. F \in [V \X S -> V]
    OBVIOUS
  <2> HIDE DEF S, c
  <2> QED
    BY <1>1, <1>2, <2>1, FoldExists
<1> QED
  BY <1>3 DEF FoldedBy, IndexFold

(* Read from the front, it is a chain of values, one per index. *)
IsChain(acc, base, F, n) == acc[0] = base /\ \A k \in 1 .. n : acc[k] = F[<<acc[k - 1], k>>]

Unfolds(x, base, F, V, n) == \E acc \in [0 .. n -> V] : IsChain(acc, base, F, n) /\ x = acc[n]

(* What is known of a fold's table where it is typed. *)
FoldsBackwards(iter, base, F, V, n) ==
  /\ iter[{}] = base
  /\ \A s \in SUBSET (1 .. n) :
       s # {} /\ iter[s \ {Max(s)}] \in V => iter[s] = F[<<iter[s \ {Max(s)}], Max(s)>>]

LEMMA FoldChain ==
  ASSUME NEW n \in Nat, NEW V, NEW base \in V, NEW F \in [V \X (1 .. n) -> V],
         NEW iter, FoldsBackwards(iter, base, F, V, n)
  PROVE  Unfolds(iter[1 .. n], base, F, V, n)
<1> DEFINE acc == [k \in 0 .. n |-> iter[1 .. k]]
           T == {k \in 0 .. n : iter[1 .. k] \in V}
<1>1. iter[1 .. 0] = base
  <2>1. 1 .. 0 = {}
    OBVIOUS
  <2> QED
    BY <2>1 DEF FoldsBackwards
<1>2. ASSUME NEW k \in 1 .. n, iter[1 .. k - 1] \in V
      PROVE  iter[1 .. k] = F[<<iter[1 .. k - 1], k>>]
  <2>1. k \in Nat \ {0} /\ 1 .. k \in SUBSET (1 .. n) /\ k \in 1 .. k
    OBVIOUS
  <2>2. Max(1 .. k) = k /\ (1 .. k) \ {k} = 1 .. k - 1
    BY <2>1, MaxOfPrefix
  <2> QED
    BY <1>2, <2>1, <2>2 DEF FoldsBackwards
<1>3. 0 \in T
  BY <1>1
<1>4. ASSUME NEW k \in 0 .. n - 1, k \in T PROVE k + 1 \in T
  <2>1. k + 1 \in 1 .. n /\ (k + 1) - 1 = k
    OBVIOUS
  <2>2. iter[1 .. k + 1] = F[<<iter[1 .. k], k + 1>>]
    BY <1>2, <1>4, <2>1
  <2> QED
    BY <1>4, <2>1, <2>2
<1>5. 0 .. n \subseteq T
  <2> HIDE DEF T
  <2> QED
    BY <1>3, <1>4, UpToInduction
<1>6. acc \in [0 .. n -> V] /\ acc[n] = iter[1 .. n] /\ acc[0] = iter[1 .. 0]
  BY <1>5
<1>7. \A k \in 1 .. n : acc[k] = F[<<acc[k - 1], k>>]
  <2> TAKE k \in 1 .. n
  <2>1. k - 1 \in 0 .. n /\ k \in 0 .. n
    OBVIOUS
  <2> QED
    BY <1>2, <1>5, <2>1
<1>8. IsChain(acc, base, F, n)
  <2> HIDE DEF acc
  <2> QED
    BY <1>1, <1>6, <1>7 DEF IsChain
<1> QED
  BY <1>6, <1>8 DEF Unfolds

-----------------------------------------------------------------------------
(* A table of subtotals: each set's is that of the set without any of its elements, plus
   the element's own. *)
Additive(it, f, S) ==
  it[{}] = 0 /\ \A s \in SUBSET S : \A x \in s : it[s] = f[x] + it[s \ {x}]

(* n is the sum of f over S. *)
IsSum(n, f, S) == \E it \in [SUBSET S -> Int] : Additive(it, f, S) /\ n = it[S]

(* Subtotals that are built by taking one chosen element at a time do not depend on the
   choice. *)
LEMMA AnyElementFirst ==
  ASSUME NEW S, IsFiniteSet(S), NEW f, \A x \in S : f[x] \in Int,
         NEW it \in [SUBSET S -> Int], NEW c, it[{}] = 0,
         \A s \in SUBSET S : s # {} => c[s] \in s /\ it[s] = f[c[s]] + it[s \ {c[s]}]
  PROVE  Additive(it, f, S)
<1> DEFINE Good(n) == \A s \in SUBSET S : Cardinality(s) <= n => \A x \in s : it[s] = f[x] + it[s \ {x}]
           T == {n \in Nat : Good(n)}
<1>1. \A s \in SUBSET S : IsFiniteSet(s) /\ Cardinality(s) \in Nat /\ (Cardinality(s) = 0 <=> s = {})
  BY FS_Subset, FS_CardinalityType, FS_EmptySet
<1>2. \A s \in SUBSET S : \A x \in s : Cardinality(s \ {x}) = Cardinality(s) - 1
  BY <1>1, FS_RemoveElement
<1>3. 0 \in T
  BY <1>1
<1>4. ASSUME NEW n \in Nat, n \in T PROVE n + 1 \in T
  <2> SUFFICES ASSUME NEW s \in SUBSET S, Cardinality(s) <= n + 1, NEW x \in s
               PROVE  it[s] = f[x] + it[s \ {x}]
    OBVIOUS
  <2> SUFFICES ASSUME x # c[s]
               PROVE  it[s] = f[x] + it[s \ {x}]
    OBVIOUS
  <2> DEFINE y == c[s]
  <2>1. y \in s /\ it[s] = f[y] + it[s \ {y}]
    OBVIOUS
  <2> HIDE DEF y
  <2>2. Cardinality(s \ {y}) <= n /\ Cardinality(s \ {x}) <= n
    BY <1>1, <1>2, <2>1
  <2>3. s \ {y} \in SUBSET S /\ s \ {x} \in SUBSET S /\ x \in s \ {y} /\ y \in s \ {x}
    BY <2>1 DEF y
  <2>4. it[s \ {y}] = f[x] + it[(s \ {y}) \ {x}]
    BY <1>4, <2>2, <2>3
  <2>5. it[s \ {x}] = f[y] + it[(s \ {x}) \ {y}]
    BY <1>4, <2>2, <2>3
  <2>6. (s \ {y}) \ {x} = (s \ {x}) \ {y}
    OBVIOUS
  <2>7. f[x] \in Int /\ f[y] \in Int /\ it[(s \ {x}) \ {y}] \in Int
    BY <2>1
  <2>8. \A a, b, r \in Int : a + (b + r) = b + (a + r)
    OBVIOUS
  <2>9. f[y] + (f[x] + it[(s \ {x}) \ {y}]) = f[x] + (f[y] + it[(s \ {x}) \ {y}])
    BY <2>7, <2>8
  <2> QED
    BY <2>1, <2>4, <2>5, <2>6, <2>9
<1>5. Nat \subseteq T
  <2> HIDE DEF T
  <2> QED
    BY <1>3, <1>4, NatSetInduction
<1> QED
  BY <1>1, <1>5 DEF Additive

(* Equal summands have equal sums. *)
LEMMA SumUnique ==
  ASSUME NEW S, IsFiniteSet(S), NEW f, NEW g, \A x \in S : f[x] = g[x],
         NEW it, Additive(it, f, S), NEW ju, Additive(ju, g, S)
  PROVE  it[S] = ju[S]
<1> DEFINE Good(n) == \A s \in SUBSET S : Cardinality(s) <= n => it[s] = ju[s]
           T == {n \in Nat : Good(n)}
<1>1. \A s \in SUBSET S : IsFiniteSet(s) /\ Cardinality(s) \in Nat /\ (Cardinality(s) = 0 <=> s = {})
  BY FS_Subset, FS_CardinalityType, FS_EmptySet
<1>2. \A s \in SUBSET S : \A x \in s : Cardinality(s \ {x}) = Cardinality(s) - 1
  BY <1>1, FS_RemoveElement
<1>3. 0 \in T
  <2>1. \A s \in SUBSET S : Cardinality(s) <= 0 => s = {}
    BY <1>1
  <2> QED
    BY <2>1 DEF Additive
<1>4. ASSUME NEW n \in Nat, n \in T PROVE n + 1 \in T
  <2> SUFFICES ASSUME NEW s \in SUBSET S, Cardinality(s) <= n + 1, NEW x \in s
               PROVE  it[s] = ju[s]
    BY <1>1, <1>4 DEF Additive
  <2>1. Cardinality(s \ {x}) <= n
    BY <1>1, <1>2
  <2>2. it[s \ {x}] = ju[s \ {x}]
    BY <1>4, <2>1
  <2>3. it[s] = f[x] + it[s \ {x}] /\ ju[s] = g[x] + ju[s \ {x}] /\ f[x] = g[x]
    BY DEF Additive
  <2> QED
    BY <2>2, <2>3
<1>5. Nat \subseteq T
  <2> HIDE DEF T
  <2> QED
    BY <1>3, <1>4, NatSetInduction
<1> QED
  BY <1>1, <1>5

LEMMA SumSame ==
  ASSUME NEW S, IsFiniteSet(S), NEW f, NEW g, \A x \in S : f[x] = g[x],
         NEW n, IsSum(n, f, S), NEW m, IsSum(m, g, S)
  PROVE  m = n
BY SumUnique DEF IsSum

(* One element more adds its own summand. *)
LEMMA SumGrows ==
  ASSUME NEW S, IsFiniteSet(S), NEW x, x \notin S,
         NEW f, NEW g, \A y \in S : f[y] = g[y],
         NEW n, IsSum(n, f, S), NEW m, IsSum(m, g, S \cup {x})
  PROVE  m = g[x] + n /\ n \in Int
<1>1. PICK it \in [SUBSET S -> Int] : Additive(it, f, S) /\ n = it[S]
  BY DEF IsSum
<1>2. PICK ju \in [SUBSET (S \cup {x}) -> Int] : Additive(ju, g, S \cup {x}) /\ m = ju[S \cup {x}]
  BY DEF IsSum
<1>3. Additive(ju, g, S)
  BY <1>2 DEF Additive
<1>4. ju[S] = it[S]
  BY <1>1, <1>3, SumUnique
<1>5. ju[S \cup {x}] = g[x] + ju[(S \cup {x}) \ {x}] /\ (S \cup {x}) \ {x} = S
  BY <1>2 DEF Additive
<1> QED
  BY <1>1, <1>2, <1>4, <1>5

(* The function MapThenSumSet reads a sum from. *)
SumTable(it, f, S) ==
  it = [s \in SUBSET S |-> IF s = {} THEN 0
                           ELSE f[CHOOSE x \in s : TRUE] + it[s \ {CHOOSE x \in s : TRUE}]]

LEMMA SumTableSums ==
  ASSUME NEW S, IsFiniteSet(S), NEW f, \A x \in S : f[x] \in Int
  PROVE  /\ \E it : SumTable(it, f, S)
         /\ \A iter : SumTable(iter, f, S) => IsSum(iter[S], f, S)
<1> DEFINE c == [s \in SUBSET S |-> CHOOSE x \in s : TRUE]
           Plus == [p \in Int \X S |-> f[p[2]] + p[1]]
<1>1. Plus \in [Int \X S -> Int] /\ \A s \in SUBSET S : s # {} => c[s] \in s
  OBVIOUS
<1>2. PICK it \in [SUBSET S -> Int] : FoldedBy(it, S, 0, Plus, c)
  <2> DEFINE base == 0
             V == Int
  <2>1. base \in V /\ Plus \in [V \X S -> V]
    BY <1>1
  <2> HIDE DEF Plus, c, base, V
  <2>2. \E it \in [SUBSET S -> V] : FoldedBy(it, S, base, Plus, c)
    BY <1>1, <2>1, FoldExists
  <2> QED
    BY <2>2 DEF base, V
<1>3. \A s \in SUBSET S : s # {} => /\ c[s] \in s /\ c[s] = CHOOSE x \in s : TRUE
                                   /\ it[s \ {c[s]}] \in Int
  OBVIOUS
<1>4. ASSUME NEW s \in SUBSET S
      PROVE  it[s] = IF s = {} THEN 0 ELSE f[CHOOSE x \in s : TRUE] + it[s \ {CHOOSE x \in s : TRUE}]
  BY <1>2, <1>3 DEF FoldedBy
<1>5. SumTable(it, f, S)
  BY <1>4 DEF SumTable
<1>6. ASSUME NEW iter, SumTable(iter, f, S) PROVE IsSum(iter[S], f, S)
  <2>1. iter[{}] = it[{}] /\ it[{}] = 0
    BY <1>4, <1>6 DEF SumTable
  <2>2. \A s \in SUBSET S : s # {} => iter[s] = f[c[s]] + iter[s \ {c[s]}] /\ it[s] = f[c[s]] + it[s \ {c[s]}]
    BY <1>4, <1>6 DEF SumTable
  <2> HIDE DEF c, Plus
  <2>3. Follows(iter, it, S, c)
    BY <2>1, <2>2 DEF Follows
  <2>4. SameOn(iter, it, S)
    BY <1>1, <2>3, FoldUnique
  <2>5. Additive(it, f, S)
    BY <1>1, <2>1, <2>2, AnyElementFirst
  <2> QED
    BY <2>4, <2>5 DEF IsSum, SameOn
<1> QED
  BY <1>5, <1>6
=============================================================================
