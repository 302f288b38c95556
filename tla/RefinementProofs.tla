--------------------------- MODULE RefinementProofs ---------------------------
(***************************************************************************)
(* The two specifications the NPU implements.  Its credit counters, with   *)
(* the deferral of the S-loop's decrements and the buffering of the        *)
(* T-loop's operations, implement CreditLedger.  The NPU as a whole, with  *)
(* its buffer and its fused drain, implements the NPU without a buffer     *)
(* (GTX_NO_FUSION=1), action by action.                                    *)
(* First, executing a run of frames in bulk is a shortcut (tloop_buffer.py *)
(* _execute_fused).  Bottom up: what one row load, one unary and one row   *)
(* store do to a bank, what the frame they make does, what frames that     *)
(* follow each other in L2 do, that the bulk path does the same, and that  *)
(* the drain loop therefore ends where the replay of the buffer ends.      *)
(***************************************************************************)
EXTENDS MemoryProofs

-----------------------------------------------------------------------------
(* One entry of height 1, row by row: bank c is what it makes of bank b. *)
Loaded(c, b, lo, hi, len) ==
  /\ c.addr = b.addr /\ c.l2 = b.l2
  /\ \A x \in 0 .. (L1Size - 1) :
       c.l1[x] = IF x \in lo .. (lo + len - 1) THEN b.l2[hi + (x - lo)] ELSE b.l1[x]

Stored(c, b, lo, hi, len) ==
  /\ c.addr = b.addr /\ c.l1 = b.l1
  /\ \A x \in 0 .. (L2Size - 1) :
       c.l2[x] = IF x \in hi .. (hi + len - 1) THEN b.l1[lo + (x - hi)] ELSE b.l2[x]

Mapped(c, b, f, n) ==
  /\ c.addr = b.addr /\ c.l2 = b.l2
  /\ \A x \in 0 .. (L1Size - 1) :
       c.l1[x] = IF x \in b.addr.r .. (b.addr.r + n - 1)
                 THEN UnaryFn[f][b.l1[b.addr.a + (x - b.addr.r)]] ELSE b.l1[x]

LEMMA SameAnchors ==
  ASSUME NEW b \in Banks, NEW addr, addr = b.addr
  PROVE  [b EXCEPT !.addr = addr] = b
BY DEF Banks

(* No entry moves the anchors it was captured under. *)
LEMMA ReplayKeepsAnchors ==
  ASSUME NEW e, EntryFits(e), NEW b \in Banks, e.addr = b.addr
  PROVE  Replay(e, b) \in Banks /\ Replay(e, b).addr = b.addr
<1>1. Replay(e, b) \in Banks
  BY ReplayType
<1>2. [b EXCEPT !.addr = e.addr] = b
  BY SameAnchors
<1>3. /\ \A d : TLoad(d, b).addr = b.addr /\ TStore(d, b).addr = b.addr /\ TCopy(d, b).addr = b.addr
      /\ \A f, v : UnaryV(f, v, b).addr = b.addr
      /\ \A v, o : ArithVV(v, b).addr = b.addr /\ ArithVS(v, o, b).addr = b.addr
  BY DEF TLoad, TStore, TCopy, UnaryV, ArithVV, ArithVS, Vector, Banks
<1>4. e.mnemonic \in {"load", "store", "copy", "add.vv", "add.vs", "credit.ld", "credit.st"} \cup UnaryOps
  BY DEF EntryFits, TLoopEntries, BUFFERABLE_MNEMONICS
<1>5. CASE e.mnemonic \in UnaryOps
  <2>1. e.mnemonic \notin {"load", "store", "copy", "add.vv", "add.vs"}
    BY <1>5, ElementAssumption
  <2>2. Replay(e, b) = UnaryV(e.mnemonic, e.arg, b)
    BY <1>2, <1>5, <2>1 DEF Replay
  <2> QED
    BY <1>1, <1>3, <2>2
<1>6. CASE e.mnemonic \notin UnaryOps
  <2>1. CASE e.mnemonic = "load"
    <3>1. Replay(e, b) = TLoad(e.arg, b)
      BY <1>2, <1>6, <2>1 DEF Replay
    <3> QED
      BY <1>1, <1>3, <3>1
  <2>2. CASE e.mnemonic = "store"
    <3>1. Replay(e, b) = TStore(e.arg, b)
      BY <1>2, <1>6, <2>2 DEF Replay
    <3> QED
      BY <1>1, <1>3, <3>1
  <2>3. CASE e.mnemonic = "copy"
    <3>1. Replay(e, b) = TCopy(e.arg, b)
      BY <1>2, <1>6, <2>3 DEF Replay
    <3> QED
      BY <1>1, <1>3, <3>1
  <2>4. CASE e.mnemonic = "add.vv"
    <3>1. Replay(e, b) = ArithVV(e.arg, b)
      BY <1>2, <1>6, <2>4 DEF Replay
    <3> QED
      BY <1>1, <1>3, <3>1
  <2>5. CASE e.mnemonic = "add.vs"
    <3>1. Replay(e, b) = ArithVS(e.arg, e.op5, b)
      BY <1>2, <1>6, <2>5 DEF Replay
    <3> QED
      BY <1>1, <1>3, <3>1
  <2>6. CASE e.mnemonic \in {"credit.ld", "credit.st"}
    <3>1. Replay(e, b) = b
      BY <1>2, <1>6, <2>6 DEF Replay
    <3> QED
      BY <1>1, <3>1
  <2> QED
    BY <1>4, <1>6, <2>1, <2>2, <2>3, <2>4, <2>5, <2>6
<1> QED
  BY <1>5, <1>6

LEMMA CreditIsNothing ==
  ASSUME NEW e, EntryFits(e), NEW b \in Banks, e.addr = b.addr, e.mnemonic \in {"credit.ld", "credit.st"}
  PROVE  Replay(e, b) = b
<1>1. [b EXCEPT !.addr = e.addr] = b
  BY SameAnchors
<1> QED
  BY <1>1, ElementAssumption DEF Replay

LEMMA LoadIsRow ==
  ASSUME NEW e, EntryFits(e), NEW b \in Banks, e.addr = b.addr, e.mnemonic = "load", e.arg.h = 1
  PROVE  Loaded(Replay(e, b), b, e.arg.lo, e.arg.hi, e.arg.len)
<1>1. PICK d \in DmaArgs : d = e.arg /\ TLoopWindow(d) /\ d.h = 1
  BY InsnOperands DEF EntryFits
<1>2. Replay(e, b) = TLoad(d, b)
  BY <1>1, SameAnchors, ElementAssumption DEF Replay
<1> DEFINE rows == Grid(d.lo, d.len, d.hi, d.st, d.h, d.len)
<1>3. RowsRead(rows, d.h, 0 .. (L2Size - 1))
  BY <1>1, WindowRows, GridRead, SizeAssumption DEF DmaArgs
<1>4. /\ b.l1 \in [0 .. (L1Size - 1) -> Val] /\ b.l2 \in [0 .. (L2Size - 1) -> Val]
      /\ 0 .. (L1Size - 1) \in SUBSET Int
  BY DEF Banks, L1Mem, L2Mem
<1>5. d.lo \in Nat /\ d.hi \in Nat /\ d.len \in Nat /\ d.st \in Nat
  BY DEF DmaArgs
<1>6. rows[1].d = d.lo /\ rows[1].s = d.hi /\ rows[1].n = d.len
  BY <1>1, <1>5 DEF Grid
<1> HIDE DEF rows
<1>7. CopyFacts(CopyRows(b.l1, b.l2, rows), 0 .. (L1Size - 1), Val, b.l1, b.l2, rows, d.h)
  BY <1>3, <1>4, CopyRowsFacts
<1>8. PICK l : l = CopyRows(b.l1, b.l2, rows)
  OBVIOUS
<1>9. ASSUME NEW x \in 0 .. (L1Size - 1)
      PROVE  l[x] = IF x \in d.lo .. (d.lo + d.len - 1) THEN b.l2[d.hi + (x - d.lo)] ELSE b.l1[x]
  <2>1. 1 \in 1 .. d.h /\ \A i \in 1 .. d.h : i = 1
    BY <1>1
  <2>2. \A i \in 1 + 1 .. d.h : FALSE
    BY <1>1
  <2>3. OutsideRow(x, rows[1]) <=> x \notin d.lo .. (d.lo + d.len - 1)
    BY <1>6 DEF OutsideRow
  <2>4. CASE OutsideRow(x, rows[1])
    BY <1>7, <1>8, <2>1, <2>3, <2>4 DEF CopyFacts
  <2>5. CASE ~OutsideRow(x, rows[1])
    <3>1. l[x] = b.l2[rows[1].s + (x - rows[1].d)]
      BY <1>7, <1>8, <2>1, <2>2, <2>5 DEF CopyFacts
    <3> QED
      BY <1>6, <2>3, <2>5, <3>1
  <2> QED
    BY <2>4, <2>5
<1>10. TLoad(d, b) = [b EXCEPT !.l1 = l]
  BY <1>8 DEF TLoad, rows
<1>11. PICK c : c = TLoad(d, b)
  OBVIOUS
<1>12. c.l1 = l /\ c.l2 = b.l2 /\ c.addr = b.addr
  BY <1>10, <1>11 DEF Banks
<1> QED
  BY <1>1, <1>2, <1>9, <1>11, <1>12 DEF Loaded

LEMMA StoreIsRow ==
  ASSUME NEW e, EntryFits(e), NEW b \in Banks, e.addr = b.addr, e.mnemonic = "store", e.arg.h = 1
  PROVE  Stored(Replay(e, b), b, e.arg.lo, e.arg.hi, e.arg.len)
<1>1. PICK d \in DmaArgs : d = e.arg /\ TLoopWindow(d) /\ d.h = 1
  BY InsnOperands DEF EntryFits
<1>2. Replay(e, b) = TStore(d, b)
  BY <1>1, SameAnchors, ElementAssumption DEF Replay
<1> DEFINE rows == Grid(d.hi, d.st, d.lo, d.len, d.h, d.len)
<1>3. RowsRead(rows, d.h, 0 .. (L1Size - 1))
  BY <1>1, WindowRows, GridRead, SizeAssumption DEF DmaArgs
<1>4. /\ b.l1 \in [0 .. (L1Size - 1) -> Val] /\ b.l2 \in [0 .. (L2Size - 1) -> Val]
      /\ 0 .. (L2Size - 1) \in SUBSET Int
  BY DEF Banks, L1Mem, L2Mem
<1>5. d.lo \in Nat /\ d.hi \in Nat /\ d.len \in Nat /\ d.st \in Nat
  BY DEF DmaArgs
<1>6. rows[1].d = d.hi /\ rows[1].s = d.lo /\ rows[1].n = d.len
  BY <1>1, <1>5 DEF Grid
<1> HIDE DEF rows
<1>7. CopyFacts(CopyRows(b.l2, b.l1, rows), 0 .. (L2Size - 1), Val, b.l2, b.l1, rows, d.h)
  BY <1>3, <1>4, CopyRowsFacts
<1>8. PICK l : l = CopyRows(b.l2, b.l1, rows)
  OBVIOUS
<1>9. ASSUME NEW x \in 0 .. (L2Size - 1)
      PROVE  l[x] = IF x \in d.hi .. (d.hi + d.len - 1) THEN b.l1[d.lo + (x - d.hi)] ELSE b.l2[x]
  <2>1. 1 \in 1 .. d.h /\ \A i \in 1 .. d.h : i = 1
    BY <1>1
  <2>2. \A i \in 1 + 1 .. d.h : FALSE
    BY <1>1
  <2>3. OutsideRow(x, rows[1]) <=> x \notin d.hi .. (d.hi + d.len - 1)
    BY <1>6 DEF OutsideRow
  <2>4. CASE OutsideRow(x, rows[1])
    BY <1>7, <1>8, <2>1, <2>3, <2>4 DEF CopyFacts
  <2>5. CASE ~OutsideRow(x, rows[1])
    <3>1. l[x] = b.l1[rows[1].s + (x - rows[1].d)]
      BY <1>7, <1>8, <2>1, <2>2, <2>5 DEF CopyFacts
    <3> QED
      BY <1>6, <2>3, <2>5, <3>1
  <2> QED
    BY <2>4, <2>5
<1>10. TStore(d, b) = [b EXCEPT !.l2 = l]
  BY <1>8 DEF TStore, rows
<1>11. PICK c : c = TStore(d, b)
  OBVIOUS
<1>12. c.l2 = l /\ c.l1 = b.l1 /\ c.addr = b.addr
  BY <1>10, <1>11 DEF Banks
<1> QED
  BY <1>1, <1>2, <1>9, <1>11, <1>12 DEF Stored

LEMMA UnaryIsMap ==
  ASSUME NEW e, EntryFits(e), NEW b \in Banks, e.addr = b.addr, e.mnemonic \in UnaryOps
  PROVE  Mapped(Replay(e, b), b, e.mnemonic, e.arg.n)
<1>1. e.mnemonic \notin {"load", "store", "copy", "add.vv", "add.vs"}
  BY ElementAssumption
<1>2. Replay(e, b) = UnaryV(e.mnemonic, e.arg, b)
  BY <1>1, SameAnchors DEF Replay
<1>3. DOMAIN b.l1 = 0 .. (L1Size - 1)
  BY DEF Banks, L1Mem
<1>4. PICK c : c = UnaryV(e.mnemonic, e.arg, b)
  OBVIOUS
<1>5. /\ c.addr = b.addr /\ c.l2 = b.l2
      /\ c.l1 = [x \in DOMAIN b.l1 |-> IF x \in b.addr.r .. (b.addr.r + e.arg.n - 1)
                                      THEN UnaryFn[e.mnemonic][b.l1[b.addr.a + (x - b.addr.r)]] ELSE b.l1[x]]
  BY <1>4 DEF UnaryV, Vector, Banks
<1> QED
  BY <1>2, <1>3, <1>4, <1>5 DEF Mapped

(* A frame of n elements as one step: bank c after it, bank b before it.  The row at hi in
   L2 goes to L1, through the operation, and to out in L2. *)
Framed(c, b, f, n, hi, out) ==
  /\ c.addr = b.addr
  /\ \A x \in 0 .. (L2Size - 1) :
       c.l2[x] = IF x \in out .. (out + n - 1) THEN UnaryFn[f][b.l2[hi + (x - out)]] ELSE b.l2[x]
  /\ \A x \in 0 .. (L1Size - 1) :
       c.l1[x] = IF x \in b.addr.r .. (b.addr.r + n - 1)
                 THEN UnaryFn[f][b.l2[hi + (x - b.addr.r)]]
                 ELSE IF x \in b.addr.a .. (b.addr.a + n - 1)
                 THEN b.l2[hi + (x - b.addr.a)] ELSE b.l1[x]

LEMMA RowsMakeFrame ==
  ASSUME NEW b \in Banks, NEW b1, NEW b2, NEW c, NEW f, NEW n \in Nat, NEW hi \in Nat, NEW out \in Nat,
         b.addr.a + n <= L1Size, b.addr.r + n <= L1Size,
         Loaded(b1, b, b.addr.a, hi, n), Mapped(b2, b1, f, n), Stored(c, b2, b.addr.r, out, n)
  PROVE  Framed(c, b, f, n, hi, out)
<1>1. PICK a \in Nat, r \in Nat : a = b.addr.a /\ r = b.addr.r /\ a + n <= L1Size /\ r + n <= L1Size
  BY DEF Banks, Anchors
<1>2. L1Size \in Nat
  BY SizeAssumption
<1>3. /\ b1.addr = b.addr /\ b1.l2 = b.l2
      /\ \A x \in 0 .. (L1Size - 1) :
           b1.l1[x] = IF x \in a .. (a + n - 1) THEN b.l2[hi + (x - a)] ELSE b.l1[x]
  BY <1>1 DEF Loaded
<1>4. /\ b2.addr = b.addr /\ b2.l2 = b.l2
      /\ \A x \in 0 .. (L1Size - 1) :
           b2.l1[x] = IF x \in r .. (r + n - 1) THEN UnaryFn[f][b1.l1[a + (x - r)]] ELSE b1.l1[x]
  BY <1>1, <1>3 DEF Mapped
<1>5. /\ c.addr = b.addr /\ c.l1 = b2.l1
      /\ \A x \in 0 .. (L2Size - 1) :
           c.l2[x] = IF x \in out .. (out + n - 1) THEN b2.l1[r + (x - out)] ELSE b.l2[x]
  BY <1>1, <1>4 DEF Stored
<1>6. ASSUME NEW o \in 0 .. (n - 1) PROVE b1.l1[a + o] = b.l2[hi + o]
  <2>1. a + o \in 0 .. (L1Size - 1) /\ a + o \in a .. (a + n - 1) /\ hi + ((a + o) - a) = hi + o
    BY <1>1, <1>2
  <2> QED
    BY <1>3, <2>1
<1>7. ASSUME NEW o \in 0 .. (n - 1) PROVE b2.l1[r + o] = UnaryFn[f][b.l2[hi + o]]
  <2>1. r + o \in 0 .. (L1Size - 1) /\ r + o \in r .. (r + n - 1) /\ a + ((r + o) - r) = a + o
    BY <1>1, <1>2
  <2> QED
    BY <1>4, <1>6, <2>1
<1>8. ASSUME NEW x \in 0 .. (L2Size - 1)
      PROVE  c.l2[x] = IF x \in out .. (out + n - 1) THEN UnaryFn[f][b.l2[hi + (x - out)]] ELSE b.l2[x]
  <2>1. x \in out .. (out + n - 1) => x - out \in 0 .. (n - 1)
    OBVIOUS
  <2> QED
    BY <1>5, <1>7, <2>1
<1>9. ASSUME NEW x \in 0 .. (L1Size - 1)
      PROVE  c.l1[x] = IF x \in r .. (r + n - 1) THEN UnaryFn[f][b.l2[hi + (x - r)]]
                       ELSE IF x \in a .. (a + n - 1) THEN b.l2[hi + (x - a)] ELSE b.l1[x]
  <2>1. x \in r .. (r + n - 1) => (x - r \in 0 .. (n - 1) /\ r + (x - r) = x)
    BY <1>1
  <2>2. CASE x \in r .. (r + n - 1)
    BY <1>5, <1>7, <2>1, <2>2
  <2>3. CASE x \notin r .. (r + n - 1)
    BY <1>3, <1>4, <1>5, <2>3
  <2> QED
    BY <2>2, <2>3
<1> QED
  BY <1>1, <1>5, <1>8, <1>9 DEF Framed

-----------------------------------------------------------------------------
(* Frames one behind the other in L2: after m elements, bank c from bank b. *)
Unmoved(c, b, f, hi, out, m) ==
  /\ c.addr = b.addr
  /\ \A x \in 0 .. (L2Size - 1) :
       c.l2[x] = IF x \in out .. (out + m - 1) THEN UnaryFn[f][b.l2[hi + (x - out)]] ELSE b.l2[x]

LastFrame(c, b, f, n, hi) ==
  \A x \in 0 .. (L1Size - 1) :
       c.l1[x] = IF x \in b.addr.r .. (b.addr.r + n - 1)
                 THEN UnaryFn[f][b.l2[hi + (x - b.addr.r)]]
                 ELSE IF x \in b.addr.a .. (b.addr.a + n - 1)
                 THEN b.l2[hi + (x - b.addr.a)] ELSE b.l1[x]

(* Room for total elements, of which m are done and n come next; what is written lies
   below what is still to be read, or behind all of it. *)
Room(hi, out, m, n, total) ==
  /\ hi \in Nat /\ out \in Nat /\ m \in Nat /\ n \in Nat /\ total \in Nat
  /\ m + n <= total /\ hi + total <= L2Size
  /\ out <= hi \/ out >= hi + total

(* The row the next frame reads is still as it was. *)
LEMMA NextRowUnmoved ==
  ASSUME NEW c, NEW b, NEW f, NEW n, NEW hi, NEW out, NEW m, NEW total,
         Room(hi, out, m, n, total), Unmoved(c, b, f, hi, out, m)
  PROVE  \A o \in 0 .. (n - 1) : c.l2[(hi + m) + o] = b.l2[hi + (m + o)]
<1>1. /\ hi \in Nat /\ out \in Nat /\ m \in Nat /\ n \in Nat /\ total \in Nat
      /\ m + n <= total /\ hi + total <= L2Size
      /\ out <= hi \/ out >= hi + total
  BY DEF Room
<1> SUFFICES ASSUME NEW o \in 0 .. (n - 1) PROVE c.l2[(hi + m) + o] = b.l2[hi + (m + o)]
  OBVIOUS
<1>2. (hi + m) + o \in 0 .. (L2Size - 1) /\ (hi + m) + o = hi + (m + o)
  BY <1>1, SizeAssumption
<1>3. (hi + m) + o \notin out .. (out + m - 1)
  <2>1. out <= hi => (hi + m) + o > out + m - 1
    BY <1>1
  <2>2. out >= hi + total => (hi + m) + o < out
    BY <1>1
  <2>3. (hi + m) + o \in Int /\ out + m - 1 \in Int
    BY <1>1
  <2> QED
    BY <1>1, <2>1, <2>2, <2>3
<1> QED
  BY <1>2, <1>3 DEF Unmoved

LEMMA OneMoreFrame ==
  ASSUME NEW d, NEW c, NEW b, NEW f, NEW n \in Nat, NEW hi \in Nat, NEW out \in Nat, NEW m \in Nat,
         NEW total, b.addr \in Anchors, Room(hi, out, m, n, total),
         Unmoved(c, b, f, hi, out, m), Framed(d, c, f, n, hi + m, out + m),
         \A x \in 0 .. (L1Size - 1) :
           \/ x \in b.addr.r .. (b.addr.r + n - 1) \/ x \in b.addr.a .. (b.addr.a + n - 1)
           \/ c.l1[x] = b.l1[x]
  PROVE  Unmoved(d, b, f, hi, out, m + n) /\ LastFrame(d, b, f, n, hi + m)
<1>1. c.addr = b.addr /\ d.addr = b.addr
  BY DEF Unmoved, Framed
<1>2. \A o \in 0 .. (n - 1) : c.l2[(hi + m) + o] = b.l2[hi + (m + o)]
  BY NextRowUnmoved
<1>3. ASSUME NEW x \in 0 .. (L2Size - 1)
      PROVE  d.l2[x] = IF x \in out .. (out + (m + n) - 1) THEN UnaryFn[f][b.l2[hi + (x - out)]] ELSE b.l2[x]
  <2>1. d.l2[x] = IF x \in (out + m) .. ((out + m) + n - 1)
                  THEN UnaryFn[f][c.l2[(hi + m) + (x - (out + m))]] ELSE c.l2[x]
    BY DEF Framed
  <2>2. c.l2[x] = IF x \in out .. (out + m - 1) THEN UnaryFn[f][b.l2[hi + (x - out)]] ELSE b.l2[x]
    BY DEF Unmoved
  <2>3. CASE x \in (out + m) .. ((out + m) + n - 1)
    <3>1. PICK o \in 0 .. (n - 1) : o = x - (out + m)
      BY <2>3
    <3>2. c.l2[(hi + m) + o] = b.l2[hi + (m + o)] /\ m + o = x - out /\ x \in out .. (out + (m + n) - 1)
      BY <1>2, <2>3, <3>1
    <3> QED
      BY <2>1, <2>3, <3>1, <3>2
  <2>4. CASE x \notin (out + m) .. ((out + m) + n - 1)
    <3>1. x \in out .. (out + m - 1) <=> x \in out .. (out + (m + n) - 1)
      BY <2>4
    <3> QED
      BY <2>1, <2>2, <2>4, <3>1
  <2> QED
    BY <2>3, <2>4
<1>4. ASSUME NEW x \in 0 .. (L1Size - 1)
      PROVE  d.l1[x] = IF x \in b.addr.r .. (b.addr.r + n - 1)
                       THEN UnaryFn[f][b.l2[(hi + m) + (x - b.addr.r)]]
                       ELSE IF x \in b.addr.a .. (b.addr.a + n - 1)
                       THEN b.l2[(hi + m) + (x - b.addr.a)] ELSE b.l1[x]
  <2>1. PICK a \in Nat, r \in Nat : a = b.addr.a /\ r = b.addr.r
    BY DEF Anchors
  <2>2. d.l1[x] = IF x \in r .. (r + n - 1)
                  THEN UnaryFn[f][c.l2[(hi + m) + (x - r)]]
                  ELSE IF x \in a .. (a + n - 1)
                  THEN c.l2[(hi + m) + (x - a)] ELSE c.l1[x]
    BY <1>1, <2>1 DEF Framed
  <2>3. CASE x \in r .. (r + n - 1)
    <3>1. PICK o \in 0 .. (n - 1) : o = x - r
      BY <2>3
    <3>2. c.l2[(hi + m) + o] = b.l2[hi + (m + o)] /\ hi + (m + o) = (hi + m) + o
      BY <1>2
    <3> QED
      BY <2>1, <2>2, <2>3, <3>1, <3>2
  <2>4. CASE x \notin r .. (r + n - 1) /\ x \in a .. (a + n - 1)
    <3>1. PICK o \in 0 .. (n - 1) : o = x - a
      BY <2>4
    <3>2. c.l2[(hi + m) + o] = b.l2[hi + (m + o)] /\ hi + (m + o) = (hi + m) + o
      BY <1>2
    <3> QED
      BY <2>1, <2>2, <2>4, <3>1, <3>2
  <2>5. CASE x \notin r .. (r + n - 1) /\ x \notin a .. (a + n - 1)
    BY <2>1, <2>2, <2>5
  <2> QED
    BY <2>3, <2>4, <2>5
<1> QED
  BY <1>1, <1>3, <1>4 DEF Unmoved, LastFrame

(* K frames, the k-th one offs[k - 1] elements behind the first in both windows. *)
InARow(G, K, f, n, hi, out, offs) ==
  /\ offs[0] = 0
  /\ \A k \in 1 .. K : /\ offs[k] = offs[k - 1] + n
                        /\ Room(hi, out, offs[k - 1], n, offs[K])
                        /\ Framed(G[k], G[k - 1], f, n, hi + offs[k - 1], out + offs[k - 1])

(* Outside the operands of the frames L1 is as before. *)
Elsewhere(c, b, n) ==
  \A x \in 0 .. (L1Size - 1) :
    \/ x \in b.addr.r .. (b.addr.r + n - 1) \/ x \in b.addr.a .. (b.addr.a + n - 1)
    \/ c.l1[x] = b.l1[x]

LEMMA FramesInARow ==
  ASSUME NEW K \in Nat \ {0}, NEW G, NEW offs, NEW f, NEW n, NEW hi, NEW out,
         G[0] \in Banks, InARow(G, K, f, n, hi, out, offs)
  PROVE  /\ Unmoved(G[K], G[0], f, hi, out, offs[K])
         /\ LastFrame(G[K], G[0], f, n, hi + offs[K - 1])
<1> DEFINE b == G[0]
           T == {k \in 0 .. K : Unmoved(G[k], b, f, hi, out, offs[k]) /\ Elsewhere(G[k], b, n)}
<1>1. /\ offs[0] = 0
      /\ \A k \in 1 .. K : /\ offs[k] = offs[k - 1] + n
                            /\ Room(hi, out, offs[k - 1], n, offs[K])
                            /\ Framed(G[k], G[k - 1], f, n, hi + offs[k - 1], out + offs[k - 1])
  BY DEF InARow
<1>2. n \in Nat /\ hi \in Nat /\ out \in Nat /\ b.addr \in Anchors
  <2>1. 1 \in 1 .. K
    OBVIOUS
  <2> QED
    BY <1>1, <2>1 DEF Room, Banks
<1>3. 0 \in T
  <2>1. \A x \in 0 .. (L2Size - 1) : x \notin out .. (out + 0 - 1)
    BY <1>2
  <2> QED
    BY <1>1, <2>1 DEF Unmoved, Elsewhere
<1>4. ASSUME NEW k \in 0 .. K - 1, k \in T
      PROVE  /\ Unmoved(G[k + 1], b, f, hi, out, offs[k + 1])
             /\ LastFrame(G[k + 1], b, f, n, hi + offs[k])
  <2>1. k + 1 \in 1 .. K /\ (k + 1) - 1 = k
    OBVIOUS
  <2>2. /\ offs[k + 1] = offs[k] + n /\ Room(hi, out, offs[k], n, offs[K])
        /\ Framed(G[k + 1], G[k], f, n, hi + offs[k], out + offs[k])
    BY <1>1, <2>1
  <2>3. PICK m \in Nat : m = offs[k]
    BY <2>2 DEF Room
  <2>4. PICK c, d, b0, total : c = G[k] /\ d = G[k + 1] /\ b0 = b /\ total = offs[K]
    OBVIOUS
  <2>5. Room(hi, out, m, n, total) /\ Framed(d, c, f, n, hi + m, out + m) /\ b0.addr \in Anchors
    BY <1>2, <2>2, <2>3, <2>4
  <2>6. Unmoved(c, b0, f, hi, out, m)
    BY <1>4, <2>3, <2>4
  <2>7. \A x \in 0 .. (L1Size - 1) :
           \/ x \in b0.addr.r .. (b0.addr.r + n - 1) \/ x \in b0.addr.a .. (b0.addr.a + n - 1)
           \/ c.l1[x] = b0.l1[x]
    BY <1>4, <2>4 DEF Elsewhere
  <2>8. Unmoved(d, b0, f, hi, out, m + n) /\ LastFrame(d, b0, f, n, hi + m)
    BY <1>2, <2>5, <2>6, <2>7, OneMoreFrame
  <2> QED
    BY <2>2, <2>3, <2>4, <2>8
<1>5. \A k \in 0 .. K - 1 : k \in T => k + 1 \in T
  <2> TAKE k \in 0 .. K - 1
  <2> HAVE k \in T
  <2>1. /\ Unmoved(G[k + 1], b, f, hi, out, offs[k + 1])
        /\ LastFrame(G[k + 1], b, f, n, hi + offs[k])
    BY <1>4
  <2>2. Elsewhere(G[k + 1], b, n)
    BY <2>1 DEF LastFrame, Elsewhere
  <2> QED
    BY <2>1, <2>2
<1>6. 0 .. K \subseteq T
  <2> HIDE DEF T
  <2> QED
    BY <1>3, <1>5, UpToInduction
<1>7. K - 1 \in 0 .. K - 1 /\ K - 1 \in T /\ (K - 1) + 1 = K
  <2>1. K - 1 \in 0 .. K - 1 /\ K - 1 \in 0 .. K /\ (K - 1) + 1 = K
    OBVIOUS
  <2> HIDE DEF T
  <2> QED
    BY <1>6, <2>1
<1>8. PICK k \in 0 .. K - 1 : k = K - 1 /\ k \in T
  BY <1>7
<1> QED
  BY <1>4, <1>7, <1>8

(* Bank c is what the frames of such a run make of bank b, one after the other. *)
FramesDone(c, b, buf, run, n, last) ==
  LET f == buf[run[1].vec].mnemonic
      hi == buf[run[1].load].arg.hi
      out == buf[run[1].store].arg.hi
  IN Unmoved(c, b, f, hi, out, last + n) /\ LastFrame(c, b, f, n, hi + last)

(* The bulk path makes of a bank what the frames, one after the other, make of it. *)
LEMMA BulkIsFrames ==
  ASSUME NEW buf, Captured(buf), NEW i \in 1 .. Len(buf), NEW f0, NEW run, IsRun(buf, run, i, f0),
         Len(run) # 0, NEW b \in Banks, Contiguous(buf, run, b), NEW c \in Banks,
         NEW n, NEW last \in Nat, Spans(buf, run, n, last), FramesDone(c, b, buf, run, n, last)
  PROVE  Bulk(buf, run, b) = c
<1> DEFINE load == buf[run[1].load].arg
           store == buf[run[1].store].arg
           vec == buf[run[1].vec]
           total == Len(run) * n
           out == [o \in 0 .. (total - 1) |-> UnaryFn[vec.mnemonic][b.l2[load.hi + o]]]
           withIn == PutRow(b.l1, b.l2, [d |-> load.lo, s |-> load.hi + (total - n), n |-> n])
           l2o == PutRow(b.l2, out, [d |-> store.hi, s |-> 0, n |-> total])
           l1o == PutRow(withIn, out, [d |-> store.lo, s |-> total - n, n |-> n])
<1>1. Bulk(buf, run, b) = [b EXCEPT !.l2 = l2o, !.l1 = l1o]
  BY DEF Bulk, Spans
<1> HIDE DEF load, store, vec, total, out, withIn, l2o, l1o
<1>2. total = last + n /\ n \in Nat
  BY DEF Spans, total
<1>3. PartsFit(buf, run[1])
  <2>1. 1 \in 1 .. Len(run)
    BY DEF IsRun
  <2> QED
    BY <2>1, RunParts
<1>4. load.hi \in Nat /\ load.lo \in Nat /\ store.hi \in Nat /\ store.lo \in Nat
  BY <1>3 DEF PartsFit, DmaArgs, load, store
<1>5. load.lo = b.addr.a /\ store.lo = b.addr.r
  BY DEF Contiguous, load, store
<1>6. /\ b.l1 \in [0 .. (L1Size - 1) -> Val] /\ b.l2 \in [0 .. (L2Size - 1) -> Val]
      /\ c.l1 \in [0 .. (L1Size - 1) -> Val] /\ c.l2 \in [0 .. (L2Size - 1) -> Val]
  BY DEF Banks, L1Mem, L2Mem
<1>7. PICK hi \in Nat, st \in Nat, a \in Nat, r \in Nat :
        hi = load.hi /\ st = store.hi /\ a = load.lo /\ r = store.lo
  BY <1>4
<1>8. PICK t \in Nat, m \in Nat, f \in {vec.mnemonic} : t = total /\ m = n /\ f = vec.mnemonic /\ t = last + m
  BY <1>2
<1>9. /\ c.addr = b.addr
      /\ \A x \in 0 .. (L2Size - 1) :
           c.l2[x] = IF x \in st .. (st + t - 1) THEN UnaryFn[f][b.l2[hi + (x - st)]] ELSE b.l2[x]
  <2>1. Unmoved(c, b, f, hi, st, t)
    BY <1>2, <1>7, <1>8 DEF FramesDone, load, store, vec
  <2> QED
    BY <2>1 DEF Unmoved
<1>10. \A x \in 0 .. (L1Size - 1) :
         c.l1[x] = IF x \in r .. (r + m - 1) THEN UnaryFn[f][b.l2[(hi + last) + (x - r)]]
                   ELSE IF x \in a .. (a + m - 1) THEN b.l2[(hi + last) + (x - a)] ELSE b.l1[x]
  <2>1. LastFrame(c, b, f, m, hi + last) /\ a = b.addr.a /\ r = b.addr.r
    BY <1>5, <1>7, <1>8 DEF FramesDone, load, store, vec
  <2> QED
    BY <2>1 DEF LastFrame
<1>11. \A o \in 0 .. (t - 1) : out[o] = UnaryFn[f][b.l2[hi + o]]
  BY <1>7, <1>8 DEF out
<1>12. /\ l2o = PutRow(b.l2, out, [d |-> st, s |-> 0, n |-> t])
       /\ withIn = PutRow(b.l1, b.l2, [d |-> a, s |-> hi + last, n |-> m])
       /\ l1o = PutRow(withIn, out, [d |-> r, s |-> last, n |-> m])
  <2>1. total - n = last
    BY <1>2
  <2> QED
    BY <1>7, <1>8, <2>1 DEF l2o, withIn, l1o
<1>13. l2o = c.l2
  <2>1. DOMAIN l2o = 0 .. (L2Size - 1) /\ l2o = [x \in DOMAIN l2o |-> l2o[x]]
    BY <1>6, <1>12 DEF PutRow
  <2>2. ASSUME NEW x \in 0 .. (L2Size - 1) PROVE l2o[x] = c.l2[x]
    <3>1. l2o[x] = IF x \in st .. (st + t - 1) THEN out[0 + (x - st)] ELSE b.l2[x]
      BY <1>6, <1>12 DEF PutRow
    <3>2. CASE x \in st .. (st + t - 1)
      <4>1. PICK o \in 0 .. (t - 1) : o = x - st /\ 0 + (x - st) = o
        BY <3>2
      <4> QED
        BY <1>9, <1>11, <3>1, <3>2, <4>1
    <3> QED
      BY <1>9, <3>1, <3>2
  <2> QED
    BY <1>6, <2>1, <2>2
<1>14. /\ DOMAIN withIn = 0 .. (L1Size - 1)
       /\ \A x \in 0 .. (L1Size - 1) :
            withIn[x] = IF x \in a .. (a + m - 1) THEN b.l2[(hi + last) + (x - a)] ELSE b.l1[x]
  BY <1>6, <1>12 DEF PutRow
<1>15. l1o = c.l1
  <2>1. DOMAIN l1o = 0 .. (L1Size - 1) /\ l1o = [x \in DOMAIN l1o |-> l1o[x]]
    BY <1>12, <1>14 DEF PutRow
  <2>2. ASSUME NEW x \in 0 .. (L1Size - 1) PROVE l1o[x] = c.l1[x]
    <3>1. l1o[x] = IF x \in r .. (r + m - 1) THEN out[last + (x - r)] ELSE withIn[x]
      BY <1>12, <1>14 DEF PutRow
    <3>2. CASE x \in r .. (r + m - 1)
      <4>1. PICK o \in 0 .. (t - 1) : o = last + (x - r) /\ hi + o = (hi + last) + (x - r)
        BY <1>8, <3>2
      <4> QED
        BY <1>10, <1>11, <3>1, <3>2, <4>1
    <3> QED
      BY <1>10, <1>14, <3>1, <3>2
  <2> QED
    BY <1>6, <2>1, <2>2
<1> QED
  BY <1>1, <1>9, <1>13, <1>15 DEF Banks

-----------------------------------------------------------------------------
(* The banks that replaying the buffer goes through, all under the anchors addr. *)
ReplayTable(R, buf, addr) ==
  /\ R \in [0 .. Len(buf) -> Banks]
  /\ \A k \in 1 .. Len(buf) : R[k] = Replay(buf[k], R[k - 1]) /\ buf[k].addr = addr
  /\ \A k \in 0 .. Len(buf) : R[k].addr = addr

LEMMA ReplayTableExists ==
  ASSUME NEW buf, Captured(buf), NEW b \in Banks, \A i \in 1 .. Len(buf) : buf[i].addr = b.addr
  PROVE  \E R : ReplayTable(R, buf, b.addr) /\ R[0] = b /\ ReplayAll(buf, b) = R[Len(buf)]
<1>1. PICK n \in Nat : n = Len(buf)
  BY DEF Captured
<1>2. PICK R \in [0 .. n -> Banks] : ReplaySteps(R, b, buf, n) /\ ReplayAll(buf, b) = R[n]
  <2>1. ReplayUnfolds(ReplayAll(buf, b), Banks, b, buf, n)
    BY <1>1, ReplayChain
  <2> QED
    BY <2>1 DEF ReplayUnfolds
<1> DEFINE T == {k \in 0 .. n : R[k].addr = b.addr}
<1>3. 0 \in T
  BY <1>2 DEF ReplaySteps
<1>4. \A k \in 0 .. n - 1 : k \in T => k + 1 \in T
  <2> TAKE k \in 0 .. n - 1
  <2> HAVE k \in T
  <2>1. k + 1 \in 1 .. n /\ (k + 1) - 1 = k /\ k \in 0 .. n
    BY <1>1
  <2>2. R[k + 1] = Replay(buf[k + 1], R[k]) /\ R[k] \in Banks
    BY <1>2, <2>1 DEF ReplaySteps
  <2>3. EntryFits(buf[k + 1]) /\ buf[k + 1].addr = b.addr
    BY <1>1, <2>1 DEF Captured
  <2>4. PICK e, c : e = buf[k + 1] /\ c = R[k]
    OBVIOUS
  <2>5. Replay(e, c).addr = c.addr
    BY <2>2, <2>3, <2>4, ReplayKeepsAnchors
  <2> QED
    BY <2>1, <2>2, <2>4, <2>5
<1>5. 0 .. n \subseteq T
  <2> HIDE DEF T
  <2> QED
    BY <1>3, <1>4, UpToInduction
<1> QED
  BY <1>1, <1>2, <1>5 DEF ReplayTable, ReplaySteps

(* A frame whose rows are as long as its vector and meet it at the anchors. *)
RowFrame(buf, g, addr, n) ==
  LET load == buf[g.load].arg
      store == buf[g.store].arg
  IN /\ load.h = 1 /\ load.len = n /\ load.lo = addr.a
     /\ store.h = 1 /\ store.len = n /\ store.lo = addr.r
     /\ buf[g.vec].arg.n = n

LEMMA FrameReplay ==
  ASSUME NEW buf, Captured(buf), NEW addr, NEW R, ReplayTable(R, buf, addr),
         NEW i \in 1 .. Len(buf), NEW g, FrameAt(buf, i, g), g.ok, NEW n, RowFrame(buf, g, addr, n)
  PROVE  /\ g.end - 1 \in i .. Len(buf)
         /\ Framed(R[g.end - 1], R[i - 1], buf[g.vec].mnemonic, n, buf[g.load].arg.hi, buf[g.store].arg.hi)
<1>1. PICK N \in Nat : N = Len(buf)
  BY DEF Captured
<1>2. /\ i \in 1 .. N /\ g.load = i /\ g.store = g.vec + 1
      /\ g.vec = i + 1 \/ (g.vec = i + 2 /\ PartAt(buf, i + 1, {"credit.ld"}))
      /\ g.end = g.store + 1 \/ (g.end = g.store + 2 /\ PartAt(buf, g.store + 1, {"credit.st"}))
      /\ PartAt(buf, i, {"load"}) /\ PartAt(buf, g.vec, UnaryOps) /\ PartAt(buf, g.store, {"store"})
      /\ g.end \in i + 1 .. N + 1
  BY <1>1 DEF FrameAt
<1>3. PICK v \in 1 .. N, s \in 1 .. N, e \in i .. N : v = g.vec /\ s = g.store /\ e = g.end - 1 /\ s = v + 1
  BY <1>1, <1>2 DEF PartAt
<1>4. PICK z \in i + 1 .. N + 1 : z = g.end /\ e = z - 1
  BY <1>2, <1>3
<1>5. z \in Int /\ s \in Int
  BY <1>1, <1>2, <1>3, <1>4
<1>6. ASSUME NEW k \in 1 .. N
      PROVE  /\ k - 1 \in 0 .. N /\ R[k - 1] \in Banks /\ R[k] \in Banks /\ R[k] = Replay(buf[k], R[k - 1])
             /\ EntryFits(buf[k]) /\ buf[k].addr = R[k - 1].addr
  <2>1. k - 1 \in 0 .. N /\ k \in 0 .. N
    BY <1>1
  <2> QED
    BY <1>1, <2>1 DEF ReplayTable, Captured
<1>7. ASSUME NEW k \in 1 .. N, PartAt(buf, k, {"credit.ld", "credit.st"}) PROVE R[k] = R[k - 1]
  <2>1. PICK x, c : x = buf[k] /\ c = R[k - 1]
    OBVIOUS
  <2>2. Replay(x, c) = c
    BY <1>6, <1>7, <2>1, CreditIsNothing DEF PartAt
  <2> QED
    BY <1>6, <2>1, <2>2
<1>8. PICK b0, b1, b2, b3 : b0 = R[i - 1] /\ b1 = R[i] /\ b2 = R[v] /\ b3 = R[s]
  OBVIOUS
<1>9. b0 \in Banks /\ b1 \in Banks /\ b2 \in Banks /\ b0.addr = addr /\ b1.addr = addr /\ b2.addr = addr
  <2>1. i - 1 \in 0 .. N /\ i \in 0 .. N /\ v \in 0 .. N
    BY <1>2, <1>3
  <2> QED
    BY <1>1, <1>8, <2>1 DEF ReplayTable
<1>10. Loaded(b1, b0, addr.a, buf[i].arg.hi, n)
  <2>1. PICK x : x = buf[i]
    OBVIOUS
  <2>2. x.mnemonic = "load" /\ x.arg.h = 1 /\ x.arg.lo = addr.a /\ x.arg.len = n
    BY <1>2, <2>1 DEF PartAt, RowFrame
  <2>3. EntryFits(x) /\ x.addr = b0.addr /\ b1 = Replay(x, b0)
    BY <1>2, <1>6, <1>8, <2>1
  <2>4. Loaded(Replay(x, b0), b0, x.arg.lo, x.arg.hi, x.arg.len)
    BY <1>9, <2>2, <2>3, LoadIsRow
  <2> QED
    BY <2>1, <2>2, <2>3, <2>4
<1>11. R[v - 1] = b1
  <2>1. CASE v = i + 1
    BY <1>2, <1>8, <2>1
  <2>2. CASE v = i + 2 /\ PartAt(buf, i + 1, {"credit.ld"})
    <3>1. i + 1 \in 1 .. N /\ (i + 1) - 1 = i /\ v - 1 = i + 1
      BY <1>1, <1>2, <2>2 DEF PartAt
    <3>2. PartAt(buf, i + 1, {"credit.ld", "credit.st"})
      BY <2>2 DEF PartAt
    <3>3. R[i + 1] = R[(i + 1) - 1]
      BY <1>7, <3>1, <3>2
    <3> QED
      BY <1>8, <3>1, <3>3
  <2> QED
    BY <1>2, <1>3, <2>1, <2>2
<1>12. Mapped(b2, b1, buf[v].mnemonic, n)
  <2>1. PICK x : x = buf[v]
    OBVIOUS
  <2>2. x.mnemonic \in UnaryOps /\ x.arg.n = n
    BY <1>2, <1>3, <2>1 DEF PartAt, RowFrame
  <2>3. EntryFits(x) /\ x.addr = b1.addr /\ b2 = Replay(x, b1)
    BY <1>3, <1>6, <1>8, <1>11, <2>1
  <2>4. Mapped(Replay(x, b1), b1, x.mnemonic, x.arg.n)
    BY <1>9, <2>2, <2>3, UnaryIsMap
  <2> QED
    BY <2>1, <2>2, <2>3, <2>4
<1>13. Stored(b3, b2, addr.r, buf[s].arg.hi, n)
  <2>1. PICK x : x = buf[s]
    OBVIOUS
  <2>2. x.mnemonic = "store" /\ x.arg.h = 1 /\ x.arg.lo = addr.r /\ x.arg.len = n
    BY <1>2, <1>3, <2>1 DEF PartAt, RowFrame
  <2>3. EntryFits(x) /\ x.addr = b2.addr /\ b3 = Replay(x, b2)
    <3>1. s - 1 = v
      BY <1>3
    <3> QED
      BY <1>3, <1>6, <1>8, <2>1, <3>1
  <2>4. Stored(Replay(x, b2), b2, x.arg.lo, x.arg.hi, x.arg.len)
    BY <1>9, <2>2, <2>3, StoreIsRow
  <2> QED
    BY <2>1, <2>2, <2>3, <2>4
<1>14. R[e] = b3
  <2>1. CASE g.end = g.store + 1
    <3>2. z = s + 1
      BY <1>3, <1>4, <2>1
    <3>1. e = s
      BY <1>4, <1>5, <3>2
    <3> QED
      BY <1>8, <3>1
  <2>2. CASE g.end = g.store + 2 /\ PartAt(buf, g.store + 1, {"credit.st"})
    <3>6. z = s + 2
      BY <1>3, <1>4, <2>2
    <3>4. e = s + 1
      BY <1>4, <1>5, <3>6
    <3>5. s + 1 \in 1 .. N
      BY <1>1, <1>3, <2>2 DEF PartAt
    <3>1. s + 1 \in 1 .. N /\ (s + 1) - 1 = s /\ e = s + 1
      BY <1>5, <3>4, <3>5
    <3>2. PartAt(buf, s + 1, {"credit.ld", "credit.st"})
      BY <1>3, <2>2 DEF PartAt
    <3>3. R[s + 1] = R[(s + 1) - 1]
      BY <1>7, <3>1, <3>2
    <3> QED
      BY <1>8, <3>1, <3>3
  <2> QED
    BY <1>2, <2>1, <2>2
<1>15. Framed(b3, b0, buf[v].mnemonic, n, buf[i].arg.hi, buf[s].arg.hi)
  <2>1. /\ buf[i].arg \in DmaArgs /\ TLoopWindow(buf[i].arg)
        /\ buf[s].arg \in DmaArgs /\ TLoopWindow(buf[s].arg)
    <3>1. ASSUME NEW k \in {i, s} PROVE buf[k].arg \in DmaArgs /\ TLoopWindow(buf[k].arg)
      <4>1. k \in 1 .. N /\ buf[k].mnemonic \in {"load", "store"}
        BY <1>2, <1>3, <3>1 DEF PartAt
      <4>2. EntryFits(buf[k])
        BY <1>6, <4>1
      <4> QED
        BY <4>1, <4>2, InsnOperands DEF EntryFits
    <3> QED
      BY <3>1
  <2>2. PICK hi \in Nat, out \in Nat : hi = buf[i].arg.hi /\ out = buf[s].arg.hi
    BY <2>1 DEF DmaArgs
  <2>3. n \in Nat /\ b0.addr.a + n <= L1Size /\ b0.addr.r + n <= L1Size
    <3>1. ASSUME NEW k \in {i, s} PROVE n \in Nat /\ buf[k].arg.lo + n <= L1Size
      <4>1. PICK d \in DmaArgs : d = buf[k].arg /\ TLoopWindow(d)
        BY <2>1, <3>1
      <4>2. d.h = 1 /\ d.len = n
        BY <1>2, <1>3, <3>1, <4>1 DEF RowFrame
      <4>3. d.len \in Nat /\ d.lo \in Nat
        BY DEF DmaArgs
      <4>4. d.lo + 1 * n <= L1Size
        BY <4>1, <4>2 DEF TLoopWindow
      <4> QED
        BY <4>1, <4>2, <4>3, <4>4
    <3>2. buf[i].arg.lo = addr.a /\ buf[s].arg.lo = addr.r
      BY <1>2, <1>3 DEF RowFrame
    <3> QED
      BY <1>9, <3>1, <3>2
  <2>4. Loaded(b1, b0, b0.addr.a, hi, n) /\ Stored(b3, b2, b0.addr.r, out, n)
    BY <1>9, <1>10, <1>13, <2>2
  <2>5. PICK f : f = buf[v].mnemonic
    OBVIOUS
  <2>6. Framed(b3, b0, f, n, hi, out)
    BY <1>9, <1>12, <2>2, <2>3, <2>4, <2>5, RowsMakeFrame
  <2> QED
    BY <2>2, <2>5, <2>6
<1> QED
  BY <1>1, <1>2, <1>3, <1>8, <1>14, <1>15

(* Where the k-th frame of a run starts. *)
StartOf(run, i, k) == IF k = 1 THEN i ELSE run[k - 1].end

LEMMA RunStarts ==
  ASSUME NEW buf, Captured(buf), NEW i \in 1 .. Len(buf), NEW f0, NEW run, IsRun(buf, run, i, f0)
  PROVE  \A k \in 1 .. Len(run) : /\ StartOf(run, i, k) \in i .. Len(buf)
                                   /\ FrameAt(buf, StartOf(run, i, k), run[k]) /\ run[k].ok
<1>1. PICK K \in Nat, N \in Nat : K = Len(run) /\ N = Len(buf)
  BY DEF IsRun, Captured
<1>2. ASSUME NEW k \in 1 .. K
      PROVE  /\ StartOf(run, i, k) \in 1 .. N
             /\ FrameAt(buf, StartOf(run, i, k), run[k]) /\ run[k].ok
             /\ run[k].end \in StartOf(run, i, k) + 1 .. N + 1
  <2>1. PICK j \in 1 .. N : j = StartOf(run, i, k) /\ FrameAt(buf, j, run[k]) /\ run[k].ok
    BY <1>1, RunFrame DEF StartOf
  <2> QED
    BY <1>1, <2>1 DEF FrameAt
<1> DEFINE T == {k \in 0 .. K : k # 0 => run[k].end >= i + 1}
<1>3. 0 \in T
  OBVIOUS
<1>4. \A k \in 0 .. K - 1 : k \in T => k + 1 \in T
  <2> TAKE k \in 0 .. K - 1
  <2> HAVE k \in T
  <2>1. k + 1 \in 1 .. K /\ (k + 1) - 1 = k
    BY <1>1
  <2>2. PICK s \in 1 .. N : s = StartOf(run, i, k + 1) /\ run[k + 1].end \in s + 1 .. N + 1
    BY <1>2, <2>1
  <2>3. s >= i
    <3>1. CASE k = 0
      BY <1>1, <2>2, <3>1 DEF StartOf
    <3>2. CASE k # 0
      <4>1. s = run[k].end
        BY <2>1, <2>2, <3>2 DEF StartOf
      <4> QED
        BY <1>1, <2>2, <3>2, <4>1
    <3> QED
      BY <3>1, <3>2
  <2> QED
    BY <1>1, <2>1, <2>2, <2>3
<1>5. 0 .. K \subseteq T
  <2> HIDE DEF T
  <2> QED
    BY <1>1, <1>3, <1>4, UpToInduction
<1>6. ASSUME NEW k \in 1 .. K PROVE StartOf(run, i, k) \in i .. N
  <2>1. CASE k = 1
    BY <1>1, <2>1 DEF StartOf
  <2>2. CASE k # 1
    <3>1. k - 1 \in 0 .. K /\ k - 1 # 0
      BY <1>1, <2>2
    <3>2. run[k - 1].end >= i + 1
      BY <1>5, <3>1
    <3>3. PICK s \in 1 .. N : s = StartOf(run, i, k)
      BY <1>2
    <3>4. s = run[k - 1].end
      BY <2>2, <3>3 DEF StartOf
    <3> QED
      BY <1>1, <3>2, <3>3, <3>4
  <2> QED
    BY <2>1, <2>2
<1> QED
  BY <1>1, <1>2, <1>6

(* The k-th frame of a run does what the first does, k - 1 rows further on. *)
KthRow(buf, run, k, n) ==
  /\ buf[run[k].vec].mnemonic = buf[run[1].vec].mnemonic
  /\ buf[run[k].load].arg.hi = buf[run[1].load].arg.hi + (k - 1) * n
  /\ buf[run[k].store].arg.hi = buf[run[1].store].arg.hi + (k - 1) * n

LEMMA RunOfRowFrames ==
  ASSUME NEW buf, Captured(buf), NEW i \in 1 .. Len(buf), NEW f0, NEW run, IsRun(buf, run, i, f0),
         NEW b, Contiguous(buf, run, b), RunApart(buf, run), NEW k \in 1 .. Len(run), NEW n,
         n = buf[run[1].vec].arg.n
  PROVE  RowFrame(buf, run[k], b.addr, n) /\ KthRow(buf, run, k, n)
<1>1. k \in DOMAIN run /\ 1 \in 1 .. Len(run)
  BY DEF IsRun
<1>2. PICK f, g : f = run[k] /\ g = run[1]
  OBVIOUS
<1>3. SameShape(buf, f, g)
  BY <1>2, RunParts
<1>4. PICK d, e : d = buf[f.load].arg /\ e = buf[g.load].arg
  OBVIOUS
<1>5. PICK s, t : s = buf[f.store].arg /\ t = buf[g.store].arg
  OBVIOUS
<1>6. /\ d.lo = e.lo /\ d.h = e.h /\ d.len = e.len /\ s.lo = t.lo /\ s.h = t.h /\ s.len = t.len
      /\ buf[f.vec].mnemonic = buf[g.vec].mnemonic /\ buf[f.vec].arg = buf[g.vec].arg
  BY <1>3, <1>4, <1>5 DEF SameShape
<1>7. /\ e.h = 1 /\ e.len = n /\ b.addr.a = e.lo /\ b.addr.r = t.lo /\ t.h = 1 /\ t.len = n
      /\ d.hi = e.hi + (k - 1) * n /\ s.hi = t.hi + (k - 1) * n
  BY <1>1, <1>2, <1>4, <1>5 DEF Contiguous, RunApart
<1> QED
  BY <1>2, <1>4, <1>5, <1>6, <1>7 DEF RowFrame, KthRow

-----------------------------------------------------------------------------
(* The multiples of n up to the K-th. *)
Multiples(offs, K, n) ==
  /\ offs \in [0 .. K -> Nat]
  /\ \A k \in 0 .. K : offs[k] = k * n /\ offs[k] <= offs[K]

LEMMA FewerTimes ==
  ASSUME NEW x \in Nat, NEW y \in Nat, NEW n \in Nat, x <= y
  PROVE  x * n <= y * n
<1>1. PICK d \in Nat : d = y - x
  OBVIOUS
<1>2. y * n = x * n + d * n
  BY <1>1
<1>3. \A u, v \in Nat : u * v \in Nat
  OBVIOUS
<1>4. PICK p \in Nat, q \in Nat : p = x * n /\ q = d * n
  BY <1>3
<1>5. y * n = p + q
  BY <1>2, <1>4
<1>6. p + q >= p
  OBVIOUS
<1> QED
  BY <1>4, <1>5, <1>6

LEMMA MultiplesExist ==
  ASSUME NEW K \in Nat \ {0}, NEW n \in Nat
  PROVE  \E offs : Multiples(offs, K, n)
<1> DEFINE offs == [k \in 0 .. K |-> k * n]
<1>1. \A k \in 0 .. K : k \in Nat /\ k <= K /\ K \in 0 .. K
  OBVIOUS
<1>2. \A k \in 0 .. K : k * n <= K * n
  BY <1>1, FewerTimes
<1>3. \A u, v \in Nat : u * v \in Nat
  OBVIOUS
<1>4. offs \in [0 .. K -> Nat] /\ \A k \in 0 .. K : offs[k] = k * n
  BY <1>1, <1>3
<1>5. Multiples(offs, K, n)
  <2> HIDE DEF offs
  <2> QED
    BY <1>1, <1>2, <1>4 DEF Multiples
<1> HIDE DEF offs
<1> QED
  BY <1>5

LEMMA MultiplesStep ==
  ASSUME NEW K \in Nat \ {0}, NEW n \in Nat, NEW offs, Multiples(offs, K, n), NEW k \in 1 .. K
  PROVE  /\ offs[0] = 0 /\ offs[k] = offs[k - 1] + n /\ offs[k] <= offs[K]
         /\ offs[k - 1] \in Nat /\ offs[k] \in Nat /\ offs[K] \in Nat
         /\ offs[k - 1] = (k - 1) * n
<1>1. k - 1 \in 0 .. K /\ k \in 0 .. K /\ K \in 0 .. K /\ 0 \in 0 .. K
  OBVIOUS
<1>2. offs[0] = 0 * n /\ offs[k - 1] = (k - 1) * n /\ offs[k] = k * n
  BY <1>1 DEF Multiples
<1>3. k * n = (k - 1) * n + n
  BY OneRowLess
<1>4. 0 * n = 0
  OBVIOUS
<1>5. offs[k] <= offs[K] /\ offs[k - 1] \in Nat /\ offs[k] \in Nat /\ offs[K] \in Nat
  BY <1>1 DEF Multiples
<1>6. offs[k] = offs[k - 1] + n
  BY <1>2, <1>3
<1>7. offs[0] = 0
  BY <1>2, <1>4
<1> QED
  BY <1>2, <1>5, <1>6, <1>7

(* The frames of a run, all of one shape, are frames in a row. *)
RowsAt(R, run, i, K) == [k \in 0 .. K |-> R[StartOf(run, i, k + 1) - 1]]

LEMMA RunInARow ==
  ASSUME NEW buf, Captured(buf), NEW i \in 1 .. Len(buf), NEW f0, NEW run, IsRun(buf, run, i, f0),
         NEW addr, NEW R, ReplayTable(R, buf, addr), NEW b, b.addr = addr,
         Contiguous(buf, run, b), RunApart(buf, run),
         NEW K \in Nat \ {0}, K = Len(run), NEW n, n = buf[run[1].vec].arg.n,
         NEW offs, Multiples(offs, K, n)
  PROVE  InARow(RowsAt(R, run, i, K), K, buf[run[1].vec].mnemonic, n,
                buf[run[1].load].arg.hi, buf[run[1].store].arg.hi, offs)
<1>1. PICK last \in Nat : Spans(buf, run, n, last)
  BY BulkWindow
<1>2. /\ last = (Len(run) - 1) * n /\ Len(run) * n = last + n /\ n \in Nat \ {0}
      /\ buf[run[1].load].arg.hi + last + n <= L2Size
  BY <1>1 DEF Spans
<1>3. PICK hi \in Nat, out \in Nat : hi = buf[run[1].load].arg.hi /\ out = buf[run[1].store].arg.hi
  <2>1. 1 \in 1 .. Len(run)
    OBVIOUS
  <2>2. PartsFit(buf, run[1])
    BY <2>1, RunParts
  <2> QED
    BY <2>2 DEF PartsFit, DmaArgs
<1>4. PICK m \in Nat : m = n
  BY <1>2
<1>5. /\ offs[0] = 0
      /\ \A k \in 1 .. K : /\ offs[k] = offs[k - 1] + m /\ offs[k] <= offs[K]
                            /\ offs[k - 1] \in Nat /\ offs[k] \in Nat /\ offs[K] \in Nat
  <2>1. Multiples(offs, K, m)
    BY <1>4
  <2>2. ASSUME NEW k \in 1 .. K
        PROVE  /\ offs[0] = 0 /\ offs[k] = offs[k - 1] + m /\ offs[k] <= offs[K]
               /\ offs[k - 1] \in Nat /\ offs[k] \in Nat /\ offs[K] \in Nat
    BY <2>1, MultiplesStep
  <2>3. 1 \in 1 .. K
    OBVIOUS
  <2>4. offs[0] = 0
    BY <2>2, <2>3
  <2> QED
    BY <2>2, <2>4
<1>6. \A k \in 1 .. K : offs[k - 1] = (k - 1) * n
  <2>1. ASSUME NEW k \in 1 .. K PROVE offs[k - 1] = (k - 1) * n
    <3>1. k - 1 \in 0 .. K
      OBVIOUS
    <3> QED
      BY <3>1 DEF Multiples
  <2> QED
    BY <2>1
<1>7. PICK total \in Nat : total = offs[K] /\ total = last + m
  <2>1. K \in 1 .. K
    OBVIOUS
  <2>2. offs[K] = offs[K - 1] + m /\ offs[K - 1] = last /\ offs[K] \in Nat
    <3>1. offs[K] = offs[K - 1] + m /\ offs[K] \in Nat
      BY <1>5, <2>1
    <3>2. offs[K - 1] = last
      BY <1>2, <1>6, <2>1
    <3> QED
      BY <3>1, <3>2
  <2> QED
    BY <2>2
<1>8. hi + total <= L2Size
  <2>1. buf[run[1].load].arg.hi + last + n <= L2Size
    BY <1>2
  <2>2. hi + last + m <= L2Size
    BY <1>3, <1>4, <2>1
  <2> QED
    BY <1>7, <2>2, SizeAssumption
<1>9. out <= hi \/ out >= hi + total
  <2>1. Len(run) * n = total
    BY <1>2, <1>4, <1>7
  <2> QED
    BY <1>3, <2>1 DEF RunApart
<1>10. PICK f : f = buf[run[1].vec].mnemonic
  OBVIOUS
<1>11. PICK G : G = RowsAt(R, run, i, K)
  OBVIOUS
<1>12. ASSUME NEW k \in 1 .. K
       PROVE  Framed(G[k], G[k - 1], f, m, hi + offs[k - 1], out + offs[k - 1])
  <2>1. PICK s \in 1 .. Len(buf), g \in {run[k]} : s = StartOf(run, i, k) /\ g = run[k] /\ FrameAt(buf, s, g) /\ g.ok
    <3>1. StartOf(run, i, k) \in i .. Len(buf) /\ FrameAt(buf, StartOf(run, i, k), run[k]) /\ run[k].ok
      BY RunStarts
    <3>2. Len(buf) \in Nat
      BY DEF Captured
    <3> QED
      BY <3>1, <3>2
  <2>2. /\ RowFrame(buf, g, addr, n) /\ buf[g.vec].mnemonic = f
        /\ buf[g.load].arg.hi = hi + (k - 1) * n /\ buf[g.store].arg.hi = out + (k - 1) * n
    <3>1. RowFrame(buf, run[k], b.addr, n) /\ KthRow(buf, run, k, n)
      BY RunOfRowFrames
    <3> QED
      BY <1>3, <1>10, <2>1, <3>1 DEF KthRow
  <2>3. Framed(R[g.end - 1], R[s - 1], buf[g.vec].mnemonic, n, buf[g.load].arg.hi, buf[g.store].arg.hi)
    BY <2>1, <2>2, FrameReplay
  <2>4. PICK o \in Nat : o = offs[k - 1] /\ o = (k - 1) * n
    BY <1>5, <1>6
  <2>5. Framed(R[g.end - 1], R[s - 1], f, m, hi + o, out + o)
    BY <1>4, <2>2, <2>3, <2>4
  <2>6. k \in 0 .. K /\ k - 1 \in 0 .. K /\ (k - 1) + 1 = k /\ k + 1 # 1 /\ (k + 1) - 1 = k
    OBVIOUS
  <2>7. G[k] = R[g.end - 1] /\ G[k - 1] = R[s - 1]
    BY <1>11, <2>1, <2>6 DEF RowsAt, StartOf
  <2> QED
    BY <2>4, <2>5, <2>7
<1>13. ASSUME NEW k \in 1 .. K
       PROVE  Room(hi, out, offs[k - 1], m, offs[K])
  <2>1. PICK o \in Nat : o = offs[k - 1] /\ o + m <= total
    BY <1>5, <1>7
  <2>2. Room(hi, out, o, m, total)
    BY <1>8, <1>9, <2>1 DEF Room
  <2> QED
    BY <1>7, <2>1, <2>2
<1>14. InARow(G, K, f, m, hi, out, offs)
  BY <1>5, <1>12, <1>13 DEF InARow
<1> QED
  BY <1>3, <1>4, <1>10, <1>11, <1>14

(* A bulk path that may be taken leaves what replaying its frames leaves. *)
LEMMA BulkReplays ==
  ASSUME NEW buf, Captured(buf), NEW i \in 1 .. Len(buf), NEW f0, NEW run, IsRun(buf, run, i, f0),
         Len(run) # 0, NEW addr, NEW R, ReplayTable(R, buf, addr), NEW b, b = R[i - 1],
         Contiguous(buf, run, b), RunApart(buf, run)
  PROVE  Bulk(buf, run, b) = R[run[Len(run)].end - 1]
<1>1. PICK K \in Nat \ {0} : K = Len(run)
  BY DEF IsRun
<1>2. PICK N \in Nat : N = Len(buf)
  BY DEF Captured
<1>3. b \in Banks /\ b.addr = addr
  <2>1. i - 1 \in 0 .. N
    BY <1>2
  <2> QED
    BY <1>2, <2>1 DEF ReplayTable
<1>4. PICK n, f, hi, out :
         /\ n = buf[run[1].vec].arg.n /\ f = buf[run[1].vec].mnemonic
         /\ hi = buf[run[1].load].arg.hi /\ out = buf[run[1].store].arg.hi
  OBVIOUS
<1>5. PICK last \in Nat : Spans(buf, run, n, last)
  BY <1>3, <1>4, BulkWindow
<1>6. last = (Len(run) - 1) * n /\ n \in Nat \ {0}
  BY <1>5 DEF Spans
<1>7. PICK offs : Multiples(offs, K, n)
  BY <1>6, MultiplesExist
<1>8. offs[K] = last + n /\ offs[K - 1] = last
  <2>1. K \in 1 .. K
    OBVIOUS
  <2>2. offs[K] = offs[K - 1] + n /\ offs[K - 1] = (K - 1) * n
    BY <1>6, <1>7, <2>1, MultiplesStep
  <2> QED
    BY <1>1, <1>6, <2>2
<1>9. PICK G : G = RowsAt(R, run, i, K)
  OBVIOUS
<1>10. InARow(G, K, f, n, hi, out, offs)
  <2>1. InARow(RowsAt(R, run, i, K), K, buf[run[1].vec].mnemonic, n,
                buf[run[1].load].arg.hi, buf[run[1].store].arg.hi, offs)
    BY <1>1, <1>3, <1>4, <1>7, RunInARow
  <2> QED
    BY <1>4, <1>9, <2>1
<1>11. G[0] = b
  <2>1. 0 \in 0 .. K /\ 0 + 1 = 1
    OBVIOUS
  <2> QED
    BY <1>9, <2>1 DEF RowsAt, StartOf
<1>12. PICK c : c = G[K]
  OBVIOUS
<1>13. c = R[run[K].end - 1]
  <2>1. K \in 0 .. K /\ K + 1 # 1 /\ (K + 1) - 1 = K
    OBVIOUS
  <2> QED
    BY <1>9, <1>12, <2>1 DEF RowsAt, StartOf
<1>14. c \in Banks
  <2>1. K \in 1 .. Len(run)
    BY <1>1
  <2>2. FrameAt(buf, StartOf(run, i, K), run[K]) /\ run[K].ok /\ StartOf(run, i, K) \in i .. Len(buf)
    BY <2>1, RunStarts
  <2>3. PICK s \in Nat : s = StartOf(run, i, K) /\ s >= 1
    BY <1>2, <2>2
  <2>4. PICK z \in s + 1 .. N + 1 : z = run[K].end
    BY <1>2, <2>2, <2>3 DEF FrameAt
  <2>5. z - 1 \in 0 .. N
    BY <2>3
  <2> QED
    BY <1>2, <1>13, <2>4, <2>5 DEF ReplayTable
<1>15. Unmoved(c, b, f, hi, out, last + n) /\ LastFrame(c, b, f, n, hi + last)
  <2>1. /\ Unmoved(G[K], G[0], f, hi, out, offs[K])
        /\ LastFrame(G[K], G[0], f, n, hi + offs[K - 1])
    BY <1>3, <1>10, <1>11, FramesInARow
  <2> QED
    BY <1>8, <1>11, <1>12, <2>1
<1>16. FramesDone(c, b, buf, run, n, last)
  BY <1>4, <1>15 DEF FramesDone
<1>17. Bulk(buf, run, b) = c
  BY <1>3, <1>14, <1>5, <1>16, BulkIsFrames
<1> QED
  BY <1>1, <1>13, <1>17

(* Replaying a part of the buffer. *)
LEMMA SliceReplays ==
  ASSUME NEW buf, Captured(buf), NEW addr, NEW R, ReplayTable(R, buf, addr),
         NEW i \in 1 .. Len(buf), NEW e \in i .. Len(buf)
  PROVE  ReplayAll(SubSeq(buf, i, e), R[i - 1]) = R[e]
<1>1. PICK N \in Nat : N = Len(buf)
  BY DEF Captured
<1>2. PICK m \in Nat : m = e - i + 1
  <2>1. e - i + 1 \in Nat
    BY <1>1
  <2> QED
    BY <2>1
<1>2a. PICK part : part = SubSeq(buf, i, e)
  OBVIOUS
<1>3. Captured(part) /\ Len(part) = m /\ \A k \in 1 .. m : part[k] = buf[i + k - 1]
  <2>1. i \in 1 .. Len(buf) + 1 /\ e \in i - 1 .. Len(buf)
    BY <1>1
  <2>2. /\ Captured(SubSeq(buf, i, e)) /\ Len(SubSeq(buf, i, e)) = e - i + 1
        /\ \A k \in 1 .. e - i + 1 : SubSeq(buf, i, e)[k] = buf[i + k - 1]
    BY <2>1, CapturedSlice
  <2> QED
    BY <1>2, <1>2a, <2>2
<1>4. PICK b \in Banks : b = R[i - 1]
  <2>1. i - 1 \in 0 .. N
    BY <1>1
  <2> QED
    BY <1>1, <2>1 DEF ReplayTable
<1>5. PICK acc \in [0 .. m -> Banks] : ReplaySteps(acc, b, part, m) /\ ReplayAll(part, b) = acc[m]
  <2>1. ReplayUnfolds(ReplayAll(part, b), Banks, b, part, m)
    BY <1>3, ReplayChain
  <2> QED
    BY <2>1 DEF ReplayUnfolds
<1> DEFINE T == {k \in 0 .. m : acc[k] = R[(i - 1) + k]}
<1>6. 0 \in T
  <2>1. (i - 1) + 0 = i - 1
    BY <1>1
  <2> QED
    BY <1>4, <1>5, <2>1 DEF ReplaySteps
<1>7. \A k \in 0 .. m - 1 : k \in T => k + 1 \in T
  <2> TAKE k \in 0 .. m - 1
  <2> HAVE k \in T
  <2>1. k + 1 \in 1 .. m /\ (k + 1) - 1 = k
    OBVIOUS
  <2>2. acc[k + 1] = Replay(part[k + 1], acc[k])
    BY <1>5, <2>1 DEF ReplaySteps
  <2>3. PICK j \in 1 .. N : j = i + k
    BY <1>1, <1>2
  <2>4. i + (k + 1) - 1 = j /\ (i - 1) + k = j - 1 /\ (i - 1) + (k + 1) = j
    BY <1>1, <2>3
  <2>5. part[k + 1] = buf[j] /\ acc[k] = R[j - 1]
    BY <1>3, <2>1, <2>4
  <2>6. R[j] = Replay(buf[j], R[j - 1])
    BY <1>1 DEF ReplayTable
  <2> QED
    BY <2>1, <2>2, <2>4, <2>5, <2>6
<1>8. m \in T
  <2>1. 0 .. m \subseteq T
    <3> HIDE DEF T
    <3> QED
      BY <1>6, <1>7, UpToInduction
  <2> HIDE DEF T
  <2> QED
    BY <2>1
<1>9. (i - 1) + m = e
  BY <1>1, <1>2
<1> QED
  BY <1>2, <1>2a, <1>4, <1>5, <1>8, <1>9

(* A run of frames, in bulk or one by one, leaves what replaying its entries leaves. *)
LEMMA FusedReplays ==
  ASSUME NEW buf, Captured(buf), NEW i \in 1 .. Len(buf), NEW f0, NEW run, IsRun(buf, run, i, f0),
         Len(run) # 0, NEW addr, NEW R, ReplayTable(R, buf, addr), NEW b, b = R[i - 1],
         Contiguous(buf, run, b) => RunApart(buf, run)
  PROVE  \E e \in i .. Len(buf) : run[Len(run)].end = e + 1 /\ ExecuteFused(buf, i, run, b) = R[e]
<1>1. PICK N \in Nat, K \in Nat \ {0} : N = Len(buf) /\ K = Len(run)
  BY DEF Captured, IsRun
<1>2. PICK e \in i .. N : run[Len(run)].end = e + 1 /\ run[Len(run)].end - 1 = e
  <2>1. K \in 1 .. Len(run)
    BY <1>1
  <2>2. FrameAt(buf, StartOf(run, i, K), run[K]) /\ run[K].ok /\ StartOf(run, i, K) \in i .. Len(buf)
    BY <2>1, RunStarts
  <2>3. PICK s \in Nat : s = StartOf(run, i, K) /\ s >= i
    BY <1>1, <2>2
  <2>4. PICK z \in s + 1 .. N + 1 : z = run[K].end
    BY <1>1, <2>2, <2>3 DEF FrameAt
  <2>5. z - 1 \in i .. N /\ z = (z - 1) + 1
    BY <1>1, <2>3
  <2> QED
    BY <1>1, <2>4, <2>5
<1>3. CASE Contiguous(buf, run, b)
  <2>1. Bulk(buf, run, b) = R[run[Len(run)].end - 1]
    BY <1>3, BulkReplays
  <2> QED
    BY <1>1, <1>2, <1>3, <2>1 DEF ExecuteFused
<1>4. CASE ~Contiguous(buf, run, b)
  <2>1. ReplayAll(SubSeq(buf, i, e), R[i - 1]) = R[e]
    BY <1>1, SliceReplays
  <2> QED
    BY <1>1, <1>2, <1>4, <2>1 DEF ExecuteFused
<1> QED
  BY <1>3, <1>4

LEMMA DrainReplays ==
  ASSUME NEW buf, Captured(buf), NEW b \in Banks, \A i \in 1 .. Len(buf) : buf[i].addr = b.addr,
         RunsApart(buf, b)
  PROVE  Drain(buf, b) = ReplayAll(buf, b)
<1>1. PICK n \in Nat : n = Len(buf)
  BY DEF Captured
<1>2. PICK R, addr : ReplayTable(R, buf, addr) /\ addr = b.addr /\ R[0] = b /\ ReplayAll(buf, b) = R[Len(buf)]
  BY ReplayTableExists
<1>3. PICK acc \in [0 .. n -> Walks] : DrainSteps(acc, b, buf, n) /\ Drain(buf, b) = acc[n].bank
  <2>1. DrainUnfolds(Drain(buf, b), Walks, b, buf, n)
    BY <1>1, DrainChain
  <2> QED
    BY <2>1 DEF DrainUnfolds
<1> DEFINE Good(w, k) == \E e \in k .. n : w.cursor = e + 1 /\ w.bank = R[e]
           T == {k \in 0 .. n : Good(acc[k], k)}
<1>4. 0 \in T
  <2>1. acc[0].cursor = 0 + 1 /\ acc[0].bank = b
    BY <1>3 DEF DrainSteps, Start
  <2>2. 0 \in 0 .. n
    OBVIOUS
  <2> QED
    BY <1>2, <2>1, <2>2
<1>5. ASSUME NEW i \in 1 .. n, NEW w, Good(w, i - 1) PROVE Good(DrainTurn(buf, w, i), i)
  <2>1. PICK e \in i - 1 .. n : w.cursor = e + 1 /\ w.bank = R[e]
    BY <1>5
  <2>2. CASE e >= i
    <3>1. i < w.cursor
      BY <2>1, <2>2
    <3> QED
      BY <2>1, <2>2, <3>1 DEF DrainTurn
  <2>3. CASE ~(e >= i)
    <3>1. e = i - 1 /\ ~(i < w.cursor) /\ i \in 1 .. Len(buf)
      BY <1>1, <2>1, <2>3
    <3>2. PICK c, run : c = w.bank /\ run = FrameRun(buf, i)
      OBVIOUS
    <3>3. c = R[i - 1] /\ c.addr = b.addr
      <4>1. i - 1 \in 0 .. Len(buf)
        BY <1>1
      <4> QED
        BY <1>2, <2>1, <3>1, <3>2, <4>1 DEF ReplayTable
    <3>4. CASE Len(run) >= 2
      <4>1. IsRun(buf, run, i, ParseFrame(buf, i)) /\ Len(run) # 0
        BY <3>1, <3>2, <3>4, FrameRunIsRun DEF Captured
      <4>2. Contiguous(buf, run, c) => RunApart(buf, run)
        <5>1. Contiguous(buf, run, c) => Contiguous(buf, run, b)
          BY <3>3 DEF Contiguous
        <5>2. i \in DOMAIN buf
          BY <3>1 DEF Captured
        <5> QED
          BY <3>2, <3>4, <5>1, <5>2 DEF RunsApart
      <4>3. PICK z \in i .. Len(buf) : run[Len(run)].end = z + 1 /\ ExecuteFused(buf, i, run, c) = R[z]
        BY <1>2, <3>1, <3>3, <4>1, <4>2, FusedReplays
      <4>4. DrainTurn(buf, w, i) = [cursor |-> run[Len(run)].end, bank |-> ExecuteFused(buf, i, run, c)]
        BY <3>1, <3>2, <3>4 DEF DrainTurn
      <4> QED
        BY <1>1, <4>3, <4>4
    <3>5. CASE ~(Len(run) >= 2)
      <4>1. DrainTurn(buf, w, i) = [cursor |-> i + 1, bank |-> Replay(buf[i], c)]
        BY <3>1, <3>2, <3>5 DEF DrainTurn
      <4>2. R[i] = Replay(buf[i], R[i - 1]) /\ i \in i .. n
        BY <1>2, <3>1 DEF ReplayTable
      <4> QED
        BY <3>3, <4>1, <4>2
    <3> QED
      BY <3>4, <3>5
  <2> QED
    BY <2>2, <2>3
<1>6. \A k \in 0 .. n - 1 : k \in T => k + 1 \in T
  <2> TAKE k \in 0 .. n - 1
  <2> HAVE k \in T
  <2>1. k + 1 \in 1 .. n /\ (k + 1) - 1 = k /\ k + 1 \in 0 .. n
    OBVIOUS
  <2>2. acc[k + 1] = DrainTurn(buf, acc[k], k + 1)
    BY <1>3, <2>1 DEF DrainSteps
  <2>3. PICK w : w = acc[k]
    OBVIOUS
  <2>4. Good(w, (k + 1) - 1)
    BY <2>1, <2>3
  <2> HIDE DEF Good
  <2>5. Good(DrainTurn(buf, w, k + 1), k + 1)
    BY <1>5, <2>1, <2>4
  <2> QED
    BY <2>1, <2>2, <2>3, <2>5
<1>7. Good(acc[n], n)
  <2>1. 0 .. n \subseteq T
    <3> HIDE DEF T
    <3> QED
      BY <1>4, <1>6, UpToInduction
  <2>2. n \in T
    <3> HIDE DEF T
    <3> QED
      BY <2>1
  <2> QED
    BY <2>2
<1>8. acc[n].bank = R[n]
  <2>1. PICK e \in n .. n : acc[n].bank = R[e]
    BY <1>7
  <2> QED
    BY <2>1
<1> QED
  BY <1>1, <1>2, <1>3, <1>8

-----------------------------------------------------------------------------
(* A drain, whatever it executes in bulk, leaves in L1 and L2 exactly what replaying the
   entries one by one leaves there, in every reachable state in which no run of frames
   stores where a later frame of it still loads: for every topology, memory size, vector
   operation and firmware.  That the windows are apart is the only thing the bulk path
   (tloop_buffer.py _execute_fused) has to be given; without it DrainIsReplay is false. *)
THEOREM DrainFaithful == Spec => [](BulkRunsApart => DrainIsReplay)
<1>1. MemoryInv /\ PendingFramesCoherent /\ BulkRunsApart => DrainIsReplay
  <2> SUFFICES ASSUME MemoryInv, PendingFramesCoherent, BulkRunsApart
               PROVE  DrainIsReplay
    OBVIOUS
  <2>1. Bank \in Banks /\ Captured(tloop_buf)
    BY DrainedTypes DEF MemoryInv
  <2>2. ASSUME NEW i \in 1 .. Len(tloop_buf) PROVE tloop_buf[i].addr = Bank.addr
    <3>1. tloop_buf # <<>> /\ i \in DOMAIN tloop_buf
      BY <2>1, <2>2 DEF Captured
    <3> QED
      BY <3>1 DEF PendingFramesCoherent, Bank
  <2>3. PICK buf, b : buf = tloop_buf /\ b = Bank
    OBVIOUS
  <2>4. Drain(buf, b) = ReplayAll(buf, b)
    BY <2>1, <2>2, <2>3, DrainReplays DEF BulkRunsApart
  <2> QED
    BY <2>3, <2>4 DEF DrainIsReplay
<1> QED
  BY <1>1, MemoryInvariant, BufferCoherent, PTL

(* The rows of a fusable firmware are apart in whatever run it can buffer. *)
LEMMA FusableRunsApart ==
  ASSUME Fusable(Fw), NEW buf, Captured(buf), NEW b
  PROVE  RunsApart(buf, b)
<1> SUFFICES ASSUME NEW i \in 1 .. Len(buf), NEW run, run = FrameRun(buf, i),
                    Len(run) >= 2, Contiguous(buf, run, b)
             PROVE  RunApart(buf, run)
  BY DEF RunsApart, Captured
<1>1. IsRun(buf, run, i, ParseFrame(buf, i)) /\ Len(run) \in Nat
  <2>1. IsRun(buf, FrameRun(buf, i), i, ParseFrame(buf, i))
    BY FrameRunIsRun DEF Captured
  <2>2. IsRun(buf, run, i, ParseFrame(buf, i))
    BY <2>1
  <2> QED
    BY <2>2 DEF IsRun
<1>2. ASSUME NEW k \in 1 .. Len(run)
      PROVE  /\ <<"load", buf[run[k].load].arg>> \in Fw.tdma /\ <<"store", buf[run[k].store].arg>> \in Fw.tdma
             /\ buf[run[k].load].arg \in DmaArgs /\ buf[run[k].store].arg \in DmaArgs
  <2>1. PartsFit(buf, run[k])
    BY <1>1, RunParts
  <2>2. PICK d, e : d = buf[run[k].load] /\ e = buf[run[k].store]
    OBVIOUS
  <2>3. /\ <<d.mnemonic, d.arg>> \in TLoopInsns /\ d.mnemonic = "load" /\ d.arg \in DmaArgs
        /\ <<e.mnemonic, e.arg>> \in TLoopInsns /\ e.mnemonic = "store" /\ e.arg \in DmaArgs
    BY <2>1, <2>2 DEF PartsFit, EntryFits
  <2>4. \A x \in Fw.vec : x[1] \notin {"load", "store"}
    BY FirmwareAssumption, ElementAssumption
  <2> QED
    BY <2>2, <2>3, <2>4 DEF TLoopInsns
<1>3. PICK K \in Nat : K = Len(run) /\ 1 \in 1 .. K /\ K \in 1 .. K
  BY <1>1
<1>4. PICK l, s : l = buf[run[1].load].arg /\ s = buf[run[1].store].arg
  OBVIOUS
<1>5. PICK z : z = buf[run[K].load].arg
  OBVIOUS
<1>6. /\ <<"load", l>> \in Fw.tdma /\ <<"store", s>> \in Fw.tdma /\ <<"load", z>> \in Fw.tdma
      /\ l.hi \in Nat /\ s.hi \in Nat /\ z.hi \in Nat
  BY <1>2, <1>3, <1>4, <1>5 DEF DmaArgs
<1>7. /\ s.h = 1 /\ s.len = l.len /\ s.len = z.len
      /\ s.hi <= l.hi \/ z.hi + z.len <= s.hi
  <2> DEFINE loads == {j[2] : j \in {x \in Fw.tdma : x[1] = "load"}}
             stores == {j[2] : j \in {x \in Fw.tdma : x[1] = "store"}}
  <2>1. /\ \A x \in loads, y \in stores : y.h = 1 /\ y.len = x.len
        /\ \/ \A x \in loads, y \in stores : y.hi <= x.hi
           \/ \A x \in loads, y \in stores : x.hi + x.len <= y.hi
    BY DEF Fusable
  <2>2. l \in loads /\ z \in loads /\ s \in stores
    BY <1>6
  <2> HIDE DEF loads, stores
  <2> QED
    BY <2>1, <2>2
<1>8. PICK n : n = buf[run[1].vec].arg.n
  OBVIOUS
<1>9. PICK last \in Nat : Spans(buf, run, n, last)
  BY <1>1, <1>3, <1>8, BulkWindow
<1>10. last = (Len(run) - 1) * n /\ Len(run) * n = last + n /\ n \in Nat \ {0}
  BY <1>9 DEF Spans
<1>11. l.len = n /\ z.hi = l.hi + last
  <2>1. K \in DOMAIN run /\ 1 \in DOMAIN run
    BY <1>1, <1>3 DEF IsRun
  <2>2. l.len = n /\ z.hi = l.hi + (K - 1) * n
    BY <1>4, <1>5, <1>8, <2>1 DEF Contiguous
  <2>3. (K - 1) * n = last
    BY <1>3, <1>10
  <2> QED
    BY <2>2, <2>3
<1>12. PICK total \in Nat : total = Len(run) * n /\ total = last + n
  BY <1>10
<1>13. s.h = 1 /\ s.len = n /\ (s.hi <= l.hi \/ s.hi >= l.hi + total)
  <2>1. PICK m \in Nat : m = n
    BY <1>10
  <2>2. total = last + m /\ z.len = m /\ s.len = m
    BY <1>7, <1>11, <1>12, <2>1
  <2> QED
    BY <1>6, <1>7, <1>11, <2>1, <2>2
<1> QED
  BY <1>4, <1>8, <1>12, <1>13 DEF RunApart

(* For a fusable firmware DrainIsReplay holds in every reachable state: whatever it issues
   and however often, the bulk path is only a shortcut (tloop_buffer.py _execute_fused). *)
THEOREM FusableDrainFaithful == Fusable(Fw) => (Spec => []DrainIsReplay)
<1> SUFFICES ASSUME Fusable(Fw) PROVE Spec => []DrainIsReplay
  OBVIOUS
<1>1. MemoryInv => BulkRunsApart
  <2> SUFFICES ASSUME MemoryInv PROVE BulkRunsApart
    OBVIOUS
  <2>1. PICK buf, b : buf = tloop_buf /\ b = Bank
    OBVIOUS
  <2>2. Captured(buf)
    BY <2>1 DEF MemoryInv
  <2>3. RunsApart(buf, b)
    BY <2>2, FusableRunsApart
  <2> QED
    BY <2>1, <2>3 DEF BulkRunsApart
<1> QED
  BY <1>1, MemoryInvariant, DrainFaithful, PTL

-----------------------------------------------------------------------------
(* The balances the ledger sees (the substitution of Ledger). *)
LoadBalance  == DrainedLd
StoreBalance == [m \in Nests |-> [s \in Spus |-> DrainedSt[m][s] - credit_st_deferred[m][s]]]

Counters == [Nests -> [Spus -> Nat]]

(* Counting the entries of a buffer: an empty one holds none, a captured one counts once. *)
LEMMA PendingOfEmpty ==
  ASSUME NEW m
  PROVE  Pending(<<>>, m) = 0
BY FS_EmptySet DEF Pending

LEMMA PendingOfAppend ==
  ASSUME NEW S, NEW buf \in Seq(S), NEW e \in S, NEW m
  PROVE  Pending(Append(buf, e), m) = Pending(buf, m) + (IF e.mnemonic = m THEN 1 ELSE 0)
<1> DEFINE n == Len(buf)
           waiting == {i \in DOMAIN buf : buf[i].mnemonic = m}
           later == {i \in DOMAIN Append(buf, e) : Append(buf, e)[i].mnemonic = m}
<1>1. n \in Nat /\ DOMAIN buf = 1 .. n /\ DOMAIN Append(buf, e) = 1 .. n + 1
  OBVIOUS
<1>2. Append(buf, e)[n + 1] = e /\ \A i \in 1 .. n : Append(buf, e)[i] = buf[i]
  OBVIOUS
<1>3. IsFiniteSet(waiting)
  <2>1. IsFiniteSet(1 .. n) /\ waiting \subseteq 1 .. n
    BY <1>1, FS_Interval
  <2> QED
    BY <2>1, FS_Subset
<1>4. n + 1 \notin waiting
  BY <1>1
<1>5. Pending(buf, m) = Cardinality(waiting) /\ Pending(Append(buf, e), m) = Cardinality(later)
  BY DEF Pending
<1>6. Cardinality(waiting) \in Nat
  BY <1>3, FS_CardinalityType
<1>7. CASE e.mnemonic = m
  <2>1. later = waiting \cup {n + 1}
    BY <1>1, <1>2, <1>7
  <2>2. Cardinality(waiting \cup {n + 1}) = Cardinality(waiting) + 1
    BY <1>3, <1>4, FS_AddElement
  <2> HIDE DEF waiting, later
  <2> QED
    BY <1>5, <1>7, <2>1, <2>2
<1>8. CASE e.mnemonic # m
  <2>1. later = waiting
    BY <1>1, <1>2, <1>8
  <2> HIDE DEF waiting, later
  <2> QED
    BY <1>5, <1>6, <1>8, <2>1
<1> QED
  BY <1>7, <1>8

(* A thread's counter after n of its operations. *)
Consumed(c, m, s, n) == [c EXCEPT ![m][s] = Monus(@, n)]
Produced(c, m, s, n) == [c EXCEPT ![m][s] = @ + n]

LEMMA DrainIsCount ==
  /\ DrainedLd = Consumed(credit_ld, nest, spu, Pending(tloop_buf, "credit.ld"))
  /\ DrainedSt = Produced(credit_st, nest, spu, Pending(tloop_buf, "credit.st"))
BY DEF DrainedLd, DrainedSt, Consumed, Produced

(* Draining nothing changes no counter. *)
LEMMA DrainOfNothing ==
  ASSUME NEW c \in Counters, NEW m, NEW s
  PROVE  Consumed(c, m, s, 0) = c /\ Produced(c, m, s, 0) = c
<1>1. CASE m \in Nests /\ s \in Spus
  <2>1. c[m][s] \in Nat
    BY <1>1 DEF Counters
  <2>2. Monus(c[m][s], 0) = c[m][s] /\ c[m][s] + 0 = c[m][s]
    BY <2>1 DEF Monus
  <2> QED
    BY <1>1, <2>2 DEF Counters, Consumed, Produced
<1>2. CASE m \notin Nests
  BY <1>2 DEF Counters, Consumed, Produced
<1>3. CASE m \in Nests /\ s \notin Spus
  BY <1>3 DEF Counters, Consumed, Produced
<1> QED
  BY <1>1, <1>2, <1>3

LEMMA NothingWaits ==
  ASSUME CreditTypeOK, tloop_buf = <<>>
  PROVE  DrainedLd = credit_ld /\ DrainedSt = credit_st
<1>1. credit_ld \in Counters /\ credit_st \in Counters
  BY DEF CreditTypeOK, Counters
<1> QED
  BY <1>1, DrainIsCount, DrainOfNothing, PendingOfEmpty

LEMMA NothingWaitsAfterwards ==
  ASSUME CreditTypeOK', tloop_buf' = <<>>
  PROVE  DrainedLd' = credit_ld' /\ DrainedSt' = credit_st'
<1>1. credit_ld' \in Counters /\ credit_st' \in Counters
  BY DEF CreditTypeOK, Counters
<1>2. /\ DrainedLd' = Consumed(credit_ld', nest', spu', Pending(tloop_buf', "credit.ld"))
      /\ DrainedSt' = Produced(credit_st', nest', spu', Pending(tloop_buf', "credit.st"))
  BY DEF DrainedLd, DrainedSt, Consumed, Produced
<1> QED
  BY <1>1, <1>2, DrainOfNothing, PendingOfEmpty

-----------------------------------------------------------------------------
(* Neither balance moves. *)
Balanced == LoadBalance' = LoadBalance /\ StoreBalance' = StoreBalance

(* A marker drains the buffer: what was counted as waiting is now in the counters. *)
LEMMA MarkerBalances ==
  ASSUME CreditTypeOK', Marker, credit_st' = DrainedSt, UNCHANGED credit_st_deferred
  PROVE  Balanced
<1>1. DrainedLd' = credit_ld' /\ DrainedSt' = credit_st' /\ credit_ld' = DrainedLd
  BY NothingWaitsAfterwards DEF Marker
<1> QED
  BY <1>1 DEF Balanced, LoadBalance, StoreBalance

(* The markers that end a plan, or join, settle what the S-loop still owes. *)
LEMMA MarkerSettles ==
  ASSUME CreditTypeOK', Marker, Settle(DrainedSt),
         DrainedSt \in Counters, credit_st_deferred \in Counters
  PROVE  Ledger!Settled
<1>1. DrainedLd' = credit_ld' /\ DrainedSt' = credit_st' /\ credit_ld' = DrainedLd
  BY NothingWaitsAfterwards DEF Marker
<1>2. ASSUME NEW m \in Nests, NEW s \in Spus
      PROVE  DrainedSt'[m][s] - credit_st_deferred'[m][s]
               = IF StoreBalance[m][s] < 0 THEN 0 ELSE StoreBalance[m][s]
  <2>1. DrainedSt[m][s] \in Nat /\ credit_st_deferred[m][s] \in Nat
    BY DEF Counters
  <2>2. /\ DrainedSt'[m][s] = Monus(DrainedSt[m][s], credit_st_deferred[m][s])
        /\ credit_st_deferred'[m][s] = 0
    BY <1>1 DEF Settle, PerSpu
  <2>3. StoreBalance[m][s] = DrainedSt[m][s] - credit_st_deferred[m][s]
    BY DEF StoreBalance
  <2> QED
    BY <2>1, <2>2, <2>3 DEF Monus
<1>3. StoreBalance' = [m \in Nests |-> [s \in Spus |->
                         IF StoreBalance[m][s] < 0 THEN 0 ELSE StoreBalance[m][s]]]
  BY <1>2 DEF StoreBalance
<1> QED
  BY <1>1, <1>3 DEF Ledger!Settled, StoreBalance

(* A hard boundary drains the buffer if anything can be in it. *)
LEMMA BoundaryBalances ==
  ASSUME CreditTypeOK, CreditTypeOK', PendingFramesCoherent, HardBoundary
  PROVE  Balanced
<1>1. CASE Buffering
  <2>1. tloop_buf' = <<>> /\ credit_ld' = DrainedLd /\ credit_st' = DrainedSt
        /\ credit_st_deferred' = credit_st_deferred
    BY <1>1 DEF HardBoundary, AtBoundary
  <2>2. DrainedLd' = credit_ld' /\ DrainedSt' = credit_st'
    BY <2>1, NothingWaitsAfterwards
  <2> QED
    BY <2>1, <2>2 DEF Balanced, LoadBalance, StoreBalance
<1>2. CASE ~Buffering
  <2>1. tloop_buf = <<>>
    BY <1>2, NotBuffering
  <2>2. tloop_buf' = <<>> /\ credit_ld' = credit_ld /\ credit_st' = credit_st
        /\ credit_st_deferred' = credit_st_deferred
    BY <1>2, <2>1 DEF HardBoundary, AtBoundary
  <2>3. DrainedLd = credit_ld /\ DrainedSt = credit_st
    BY <2>1, NothingWaits
  <2>4. DrainedLd' = credit_ld' /\ DrainedSt' = credit_st'
    BY <2>2, NothingWaitsAfterwards
  <2> QED
    BY <2>2, <2>3, <2>4 DEF Balanced, LoadBalance, StoreBalance
<1> QED
  BY <1>1, <1>2

(* An instruction that touches neither buffer nor counters. *)
LEMMA UntouchedBalances ==
  ASSUME UNCHANGED <<warp, tloop_buf, credits>>
  PROVE  Balanced
<1>1. nest' = nest /\ spu' = spu
  BY DEF warp, nest, spu, is_ploop, is_tloop
<1> QED
  BY <1>1 DEF credits, Balanced, LoadBalance, StoreBalance, DrainedLd, DrainedSt

(* Credit instructions that are executed at once find an empty buffer. *)
LEMMA EagerFindsNothing ==
  ASSUME CreditTypeOK, CreditTypeOK', PendingFramesCoherent, Eager
  PROVE  /\ DrainedLd = credit_ld /\ DrainedSt = credit_st
         /\ DrainedLd' = credit_ld' /\ DrainedSt' = credit_st'
<1>1. tloop_buf = <<>> /\ tloop_buf' = <<>>
  BY NotBuffering DEF Eager
<1> QED
  BY <1>1, NothingWaits, NothingWaitsAfterwards

LEMMA CreditLdMoves ==
  ASSUME WarpTypeOK, CreditTypeOK, CreditTypeOK', PendingFramesCoherent, credit_ld_op
  PROVE  Ledger!Next \/ Balanced
<1>1. /\ DrainedLd = credit_ld /\ DrainedSt = credit_st
      /\ DrainedLd' = credit_ld' /\ DrainedSt' = credit_st'
  BY EagerFindsNothing DEF credit_ld_op
<1>2. nest \in Nests /\ spu \in Spus /\ (is_tloop => spu = current_spu)
  BY RoutedUnit DEF spu
<1>3. StoreBalance' = StoreBalance
  BY <1>1 DEF credit_ld_op, StoreBalance
<1>4. CASE is_sloop
  <2>1. PICK m \in Nests : m = nest
    BY <1>2
  <2>2. Ledger!LoadArrived(m)
    BY <1>1, <1>3, <1>4, <2>1 DEF credit_ld_op, Ledger!LoadArrived, StoreBalance
  <2> QED
    BY <2>2 DEF Ledger!Next
<1>5. CASE ~is_sloop /\ is_tloop
  <2>1. credit_ld' = [credit_ld EXCEPT ![nest][spu] = Monus(@, 1)]
    BY <1>2, <1>5 DEF credit_ld_op
  <2>2. credit_ld[nest][spu] \in Nat
    BY <1>2 DEF CreditTypeOK
  <2>3. Monus(credit_ld[nest][spu], 1)
          = IF credit_ld[nest][spu] > 0 THEN credit_ld[nest][spu] - 1 ELSE 0
    BY <2>2 DEF Monus
  <2>4. PICK m \in Nests, s \in Spus : m = nest /\ s = spu
    BY <1>2
  <2>5. Ledger!LoadConsumed(m, s)
    BY <1>1, <1>3, <2>1, <2>3, <2>4 DEF Ledger!LoadConsumed, StoreBalance
  <2> QED
    BY <2>5 DEF Ledger!Next
<1>6. CASE ~is_sloop /\ ~is_tloop
  BY <1>1, <1>3, <1>6 DEF credit_ld_op, Balanced, LoadBalance
<1> QED
  BY <1>4, <1>5, <1>6

LEMMA CreditStMoves ==
  ASSUME WarpTypeOK, CreditTypeOK, CreditTypeOK', PendingFramesCoherent,
         NEW mask \in Fw.masks, credit_st_op(mask)
  PROVE  Ledger!Next \/ Balanced
<1>1. /\ DrainedLd = credit_ld /\ DrainedSt = credit_st
      /\ DrainedLd' = credit_ld' /\ DrainedSt' = credit_st'
  BY EagerFindsNothing DEF credit_st_op
<1>2. nest \in Nests /\ spu \in Spus /\ (is_tloop => spu = current_spu) /\ mask \subseteq Spus
  BY RoutedUnit, FirmwareAssumption DEF spu
<1>3. DrainedLd' = DrainedLd
  BY <1>1 DEF credit_st_op
<1>4. /\ StoreBalance = [m \in Nests |-> [s \in Spus |-> credit_st[m][s] - credit_st_deferred[m][s]]]
      /\ StoreBalance' = [m \in Nests |-> [s \in Spus |-> credit_st'[m][s] - credit_st_deferred'[m][s]]]
  BY <1>1 DEF StoreBalance
<1>5. \A m \in Nests, s \in Spus : credit_st[m][s] \in Nat /\ credit_st_deferred[m][s] \in Nat
  BY DEF CreditTypeOK
<1>6. CASE is_sloop
  <2>1. credit_st' = credit_st /\ ~is_tloop
    BY <1>6 DEF credit_st_op, is_sloop, is_tloop
  <2>2. credit_st_deferred' = [credit_st_deferred EXCEPT ![nest] =
                                 [s \in Spus |-> IF s \in mask THEN @[s] + 1 ELSE @[s]]]
    BY <1>6 DEF credit_st_op
  <2>3. \A m \in Nests, s \in Spus :
          credit_st'[m][s] - credit_st_deferred'[m][s]
            = IF m = nest /\ s \in mask THEN StoreBalance[m][s] - 1 ELSE StoreBalance[m][s]
    BY <1>2, <1>4, <1>5, <2>1, <2>2, SMTT(30) DEF CreditTypeOK
  <2>4. StoreBalance' = [StoreBalance EXCEPT ![nest] =
                           [s \in Spus |-> IF s \in mask THEN @[s] - 1 ELSE @[s]]]
    BY <1>2, <1>4, <2>3, SMTT(30)
  <2>5. PICK m \in Nests : m = nest
    BY <1>2
  <2>6. Ledger!StoreTaken(m, mask)
    BY <1>3, <2>4, <2>5 DEF Ledger!StoreTaken, StoreBalance
  <2> QED
    BY <1>2, <2>6 DEF Ledger!Next
<1>7. CASE ~is_sloop /\ is_tloop
  <2>1. /\ credit_st' = [credit_st EXCEPT ![nest][spu] = @ + 1]
        /\ credit_st_deferred' = credit_st_deferred
    BY <1>2, <1>7 DEF credit_st_op
  <2>2. \A m \in Nests, s \in Spus :
          credit_st'[m][s] - credit_st_deferred'[m][s]
            = IF m = nest /\ s = spu THEN StoreBalance[m][s] + 1 ELSE StoreBalance[m][s]
    BY <1>2, <1>4, <1>5, <2>1, SMTT(30) DEF CreditTypeOK
  <2>3. StoreBalance' = [StoreBalance EXCEPT ![nest][spu] = @ + 1]
    BY <1>2, <1>4, <2>2, SMTT(30)
  <2>4. PICK m \in Nests, s \in Spus : m = nest /\ s = spu
    BY <1>2
  <2>5. Ledger!StoreProduced(m, s)
    BY <1>3, <2>3, <2>4 DEF Ledger!StoreProduced, StoreBalance
  <2> QED
    BY <2>5 DEF Ledger!Next
<1>8. CASE ~is_sloop /\ ~is_tloop
  BY <1>1, <1>8 DEF credit_st_op, Balanced, LoadBalance, StoreBalance
<1> QED
  BY <1>6, <1>7, <1>8

(* A captured credit instruction counts at once, and nothing else does. *)
LEMMA CaptureCounts ==
  ASSUME WarpTypeOK, BufferTypeOK, CreditTypeOK, NEW i \in TLoopInsns, try_buffer(i[1], i[2])
  PROVE  /\ DrainedLd' = IF i[1] = "credit.ld" THEN [DrainedLd EXCEPT ![nest][spu] = Monus(@, 1)] ELSE DrainedLd
         /\ DrainedSt' = IF i[1] = "credit.st" THEN [DrainedSt EXCEPT ![nest][spu] = @ + 1] ELSE DrainedSt
<1> DEFINE e == Entry(i[1], i[2])
           ld == Pending(tloop_buf, "credit.ld")
           st == Pending(tloop_buf, "credit.st")
           dl == IF i[1] = "credit.ld" THEN 1 ELSE 0
           ds == IF i[1] = "credit.st" THEN 1 ELSE 0
<1>1. nest \in Nests /\ spu \in Spus /\ nest' = nest /\ spu' = spu /\ UNCHANGED credits
  BY RoutedUnit DEF try_buffer, warp, nest, spu, is_ploop, is_tloop
<1>2. tloop_buf' = Append(tloop_buf, e) /\ e \in TLoopEntries /\ e.mnemonic = i[1]
  BY EntryType DEF try_buffer, Entry
<1>3. ld \in Nat /\ st \in Nat
  BY PendingIsNat DEF BufferTypeOK
<1>4. Pending(tloop_buf', "credit.ld") = ld + dl /\ Pending(tloop_buf', "credit.st") = st + ds
  BY <1>2, PendingOfAppend DEF BufferTypeOK
<1>5. /\ DrainedLd = Consumed(credit_ld, nest, spu, ld)
      /\ DrainedSt = Produced(credit_st, nest, spu, st)
  BY DrainIsCount
<1>6. /\ DrainedLd' = Consumed(credit_ld, nest, spu, ld + dl)
      /\ DrainedSt' = Produced(credit_st, nest, spu, st + ds)
  BY <1>1, <1>4 DEF DrainedLd, DrainedSt, Consumed, Produced, credits
<1>7. credit_ld[nest][spu] \in Nat /\ credit_st[nest][spu] \in Nat
  BY <1>1 DEF CreditTypeOK
<1> HIDE DEF ld, st
<1>8. Monus(credit_ld[nest][spu], ld + 1) = Monus(Monus(credit_ld[nest][spu], ld), 1)
  BY <1>3, <1>7 DEF Monus
<1>9. i[1] = "credit.ld" => DrainedLd' = [DrainedLd EXCEPT ![nest][spu] = Monus(@, 1)]
  BY <1>1, <1>5, <1>6, <1>8 DEF Consumed, CreditTypeOK
<1>10. i[1] = "credit.st" => DrainedSt' = [DrainedSt EXCEPT ![nest][spu] = @ + 1]
  BY <1>1, <1>3, <1>5, <1>6, <1>7 DEF Produced, CreditTypeOK
<1>11. (i[1] # "credit.ld" => DrainedLd' = DrainedLd) /\ (i[1] # "credit.st" => DrainedSt' = DrainedSt)
  BY <1>3, <1>5, <1>6
<1> QED
  BY <1>9, <1>10, <1>11

(* So the ledger moves when the thread issues, not when the buffer drains. *)
LEMMA CaptureMoves ==
  ASSUME WarpTypeOK, BufferTypeOK, CreditTypeOK, NEW i \in TLoopInsns, try_buffer(i[1], i[2])
  PROVE  Ledger!Next \/ Balanced
<1>1. /\ DrainedLd' = IF i[1] = "credit.ld" THEN [DrainedLd EXCEPT ![nest][spu] = Monus(@, 1)] ELSE DrainedLd
      /\ DrainedSt' = IF i[1] = "credit.st" THEN [DrainedSt EXCEPT ![nest][spu] = @ + 1] ELSE DrainedSt
      /\ credit_st_deferred' = credit_st_deferred
  BY CaptureCounts DEF try_buffer, credits
<1>2. /\ nest \in Nests /\ spu \in Spus
      /\ DrainedLd \in Counters /\ DrainedSt \in Counters /\ credit_st_deferred \in Counters
  BY RoutedUnit, DrainedCreditTypes DEF CreditTypeOK, Counters
<1>3. CASE i[1] = "credit.ld"
  <2>1. StoreBalance' = StoreBalance
    BY <1>1, <1>3 DEF StoreBalance
  <2>2. Monus(DrainedLd[nest][spu], 1) = IF DrainedLd[nest][spu] > 0 THEN DrainedLd[nest][spu] - 1 ELSE 0
    BY <1>2 DEF Monus, Counters
  <2>3. PICK m \in Nests, s \in Spus : m = nest /\ s = spu
    BY <1>2
  <2>4. Ledger!LoadConsumed(m, s)
    BY <1>1, <1>3, <2>1, <2>2, <2>3 DEF Ledger!LoadConsumed, StoreBalance
  <2> QED
    BY <2>4 DEF Ledger!Next
<1>4. CASE i[1] = "credit.st"
  <2>1. DrainedLd' = DrainedLd
    BY <1>1, <1>4
  <2>2. \A m \in Nests, s \in Spus :
          DrainedSt'[m][s] - credit_st_deferred'[m][s]
            = IF m = nest /\ s = spu THEN StoreBalance[m][s] + 1 ELSE StoreBalance[m][s]
    <3>1. \A m \in Nests, s \in Spus :
            DrainedSt'[m][s] = IF m = nest /\ s = spu THEN DrainedSt[m][s] + 1 ELSE DrainedSt[m][s]
      BY <1>1, <1>2, <1>4 DEF Counters
    <3>2. \A m \in Nests, s \in Spus : DrainedSt[m][s] \in Nat /\ credit_st_deferred[m][s] \in Nat
      BY <1>2 DEF Counters
    <3> QED
      BY <1>1, <3>1, <3>2 DEF StoreBalance
  <2>3. /\ StoreBalance = [m \in Nests |-> [s \in Spus |-> DrainedSt[m][s] - credit_st_deferred[m][s]]]
        /\ StoreBalance' = [m \in Nests |-> [s \in Spus |-> DrainedSt'[m][s] - credit_st_deferred'[m][s]]]
    BY DEF StoreBalance
  <2>4. StoreBalance' = [StoreBalance EXCEPT ![nest][spu] = @ + 1]
    <3>1. nest \in Nests /\ spu \in Spus
      BY <1>2
    <3> QED
      BY <2>2, <2>3, <3>1, SMTT(30)
  <2>5. PICK m \in Nests, s \in Spus : m = nest /\ s = spu
    BY <1>2
  <2>6. Ledger!StoreProduced(m, s)
    BY <2>1, <2>4, <2>5 DEF Ledger!StoreProduced, StoreBalance
  <2> QED
    BY <2>6 DEF Ledger!Next
<1>5. CASE i[1] \notin {"credit.ld", "credit.st"}
  BY <1>1, <1>5 DEF Balanced, LoadBalance, StoreBalance
<1> QED
  BY <1>3, <1>4, <1>5

-----------------------------------------------------------------------------
(* Every step of the NPU is a step of the ledger, or leaves it alone. *)
LEMMA LedgerStep ==
  ASSUME ControlTypeOK, ControlTypeOK', PendingFramesCoherent, Next
  PROVE  Ledger!Next \/ Balanced
<1> USE DEF ControlTypeOK
<1>1. ASSUME NEW id, startp(id) \/ starts(id) \/ startt(id) PROVE Balanced
  BY <1>1, MarkerBalances DEF startp, starts, startt
<1>2. ASSUME NEW id, NEW Units, badid(id, Units) PROVE Balanced
  BY <1>2, MarkerBalances DEF badid
<1>3. ASSUME ends \/ endt \/ split PROVE Balanced
  BY <1>3, MarkerBalances DEF ends, endt, split
<1>4. ASSUME endp \/ join PROVE Ledger!Settled
  <2>1. DrainedSt \in Counters /\ credit_st_deferred \in Counters
    BY DrainedCreditTypes DEF CreditTypeOK, Counters
  <2> QED
    BY <1>4, <2>1, MarkerSettles DEF endp, join
<1>5. ASSUME SharedLoopOps PROVE Balanced
  <2>1. ASSUME NEW d, sloop_load(d) PROVE Balanced
    BY <2>1, UntouchedBalances DEF sloop_load, Eager
  <2>2. ASSUME NEW d, sloop_store(d) PROVE Balanced
    BY <2>2, UntouchedBalances DEF sloop_store, Eager
  <2>3. ASSUME NEW d, sloop_copy(d) PROVE Balanced
    BY <2>3, UntouchedBalances DEF sloop_copy, Eager
  <2>4. ASSUME idle_dma PROVE Balanced
    BY <2>4, UntouchedBalances DEF idle_dma, Eager
  <2> QED
    BY <1>5, <2>1, <2>2, <2>3, <2>4 DEF SharedLoopOps
<1>6. ASSUME NEW i \in TLoopInsns, try_buffer(i[1], i[2]) PROVE Ledger!Next \/ Balanced
  BY <1>6, CaptureMoves
<1>7. ASSUME NEW m, NEW arg, ExecuteOnBank(m, arg) PROVE Balanced
  BY <1>7, UntouchedBalances DEF ExecuteOnBank, Eager
<1>8. ASSUME NEW slot, NEW word, opset(slot, word) PROVE Balanced
  BY <1>8, UntouchedBalances DEF opset
<1>9. ASSUME NEW anchor, NEW value, wrspr(anchor, value) PROVE Balanced
  BY <1>9, BoundaryBalances DEF wrspr
<1>10. ASSUME rdspr PROVE Balanced
  BY <1>10, BoundaryBalances DEF rdspr
<1>11. ASSUME credit_ld_op PROVE Ledger!Next \/ Balanced
  BY <1>11, CreditLdMoves
<1>12. ASSUME NEW mask \in Fw.masks, credit_st_op(mask) PROVE Ledger!Next \/ Balanced
  BY <1>12, CreditStMoves
<1>13. ASSUME credit_chk PROVE Balanced
  BY <1>13, UntouchedBalances DEF credit_chk
<1>14. ASSUME MoverOps PROVE Balanced
  <2>1. ASSUME NEW d, mcast_s2l(d) PROVE Balanced
    BY <2>1, BoundaryBalances DEF mcast_s2l
  <2>2. ASSUME NEW d, mcast_g2s(d) PROVE Balanced
    BY <2>2, BoundaryBalances DEF mcast_g2s
  <2>3. ASSUME NEW d, mcast_s2s(d) PROVE Balanced
    BY <2>3, BoundaryBalances DEF mcast_s2s
  <2>4. ASSUME NEW d, copy_mem(d) PROVE Balanced
    BY <2>4, BoundaryBalances DEF copy_mem
  <2> QED
    BY <1>14, <2>1, <2>2, <2>3, <2>4 DEF MoverOps
<1>15. ASSUME SvrOps PROVE Balanced
  <2>1. ASSUME NEW r, NEW i, NEW value, wrspr_svr(r, i, value) PROVE Balanced
    BY <2>1, BoundaryBalances DEF wrspr_svr
  <2>2. ASSUME NEW d, load_svr(d) PROVE Balanced
    BY <2>2, BoundaryBalances DEF load_svr
  <2>3. ASSUME NEW d, store_svr(d) PROVE Balanced
    BY <2>3, BoundaryBalances DEF store_svr
  <2> QED
    BY <1>15, <2>1, <2>2, <2>3 DEF SvrOps
<1>16. ASSUME Markers PROVE Ledger!Next \/ Balanced
  BY <1>1, <1>2, <1>3, <1>4, <1>16 DEF Markers, Ledger!Next
<1>17. ASSUME ThreadLoopOps PROVE Ledger!Next \/ Balanced
  BY <1>6, <1>7, <1>17 DEF ThreadLoopOps, dma_tloop, vector_op
<1>18. ASSUME ControlOps PROVE Ledger!Next \/ Balanced
  BY <1>8, <1>9, <1>10, <1>11, <1>12, <1>13, <1>18 DEF ControlOps
<1> QED
  BY <1>5, <1>14, <1>15, <1>16, <1>17, <1>18 DEF Next

(* A step that changes nothing leaves both balances. *)
LEMMA LedgerStutter ==
  ASSUME UNCHANGED vars
  PROVE  Balanced
BY UntouchedBalances DEF vars, credits

(* At reset both balances are zero. *)
LEMMA LedgerInit ==
  ASSUME Init
  PROVE  Ledger!Init
<1>1. CreditTypeOK
  BY InitTypes DEF ControlTypeOK
<1>2. DrainedLd = PerSpu(0) /\ DrainedSt = PerSpu(0) /\ credit_st_deferred = PerSpu(0)
  BY <1>1, NothingWaits DEF Init
<1>3. StoreBalance = PerSpu(0)
  BY <1>2 DEF StoreBalance, PerSpu
<1> QED
  BY <1>2, <1>3 DEF Ledger!Init, StoreBalance, PerSpu

(* The NPU implements the ledger, for every topology and firmware: neither deferring the
   S-loop's decrements to the plan boundary nor buffering the T-loop's operations loses,
   repeats or misattributes a credit (credit.py, tloop_buffer.py). *)
THEOREM CreditsImplementLedger == Spec => LedgerRefinement
<1>1. Init => Ledger!Init
  BY LedgerInit
<1>2. ControlTypeOK /\ ControlTypeOK' /\ PendingFramesCoherent /\ [Next]_vars
        => Ledger!Next \/ (LoadBalance' = LoadBalance /\ StoreBalance' = StoreBalance)
  BY LedgerStep, LedgerStutter DEF Balanced
<1>3. Ledger!Next \/ (LoadBalance' = LoadBalance /\ StoreBalance' = StoreBalance)
        => [Ledger!Next]_<<DrainedLd, [m \in Nests |-> [s \in Spus |-> DrainedSt[m][s] - credit_st_deferred[m][s]]]>>
  BY DEF LoadBalance, StoreBalance
<1>4. Spec => []ControlTypeOK /\ []PendingFramesCoherent
  BY ControlTypeCorrect, BufferCoherent
<1> QED
  BY <1>1, <1>2, <1>3, <1>4, PTL DEF Spec, LedgerRefinement, Ledger!Spec

-----------------------------------------------------------------------------
(* The NPU without a buffer (GTX_NO_FUSION=1) is the instance Eagerly.  What does not depend on
   a substituted variable or constant is the same in both machines; first the encodings and
   the row transfers. *)
LEMMA SameUnits ==
  /\ Eagerly!Nests = Nests /\ Eagerly!Spus = Spus /\ Eagerly!NoStaging = NoStaging
  /\ Eagerly!is_ploop = is_ploop /\ Eagerly!is_sloop = is_sloop /\ Eagerly!is_tloop = is_tloop
  /\ Eagerly!nest = nest /\ Eagerly!spu = spu /\ Eagerly!Svrs = Svrs
BY Zenon DEF Eagerly!Svrs, Svrs, Eagerly!Nests, Nests, Eagerly!Spus, Spus, Eagerly!NoStaging, NoStaging,
  Eagerly!is_ploop, is_ploop, Eagerly!is_sloop, is_sloop, Eagerly!is_tloop, is_tloop,
  Eagerly!nest, nest, Eagerly!spu, spu

LEMMA SameCounting ==
  /\ \A a, b : Eagerly!Monus(a, b) = Monus(a, b)
  /\ \A buf, m : Eagerly!Pending(buf, m) = Pending(buf, m)
  /\ \A x : Eagerly!PerSpu(x) = PerSpu(x)
BY Zenon DEF Eagerly!Monus, Monus, Eagerly!Pending, Pending, Eagerly!Cardinality, Cardinality,
  Eagerly!PerSpu, PerSpu, Eagerly!Nests, Nests, Eagerly!Spus, Spus

LEMMA SameReplay ==
  ASSUME NEW e, NEW b
  PROVE  Eagerly!Replay(e, b) = Replay(e, b)
BY ZenonT(60) DEF Eagerly!Replay, Replay, Eagerly!TLoad, TLoad, Eagerly!TStore, TStore, Eagerly!TCopy, TCopy,
  Eagerly!UnaryV, UnaryV, Eagerly!ArithVV, ArithVV, Eagerly!ArithVS, ArithVS, Eagerly!Vector, Vector,
  Eagerly!ScalarOperand, ScalarOperand, Eagerly!MoveWrapped, MoveWrapped, Eagerly!Cardinality, Cardinality,
  Eagerly!Grid, Grid, Eagerly!CopyRows, CopyRows, Eagerly!PutRow, PutRow, Eagerly!FoldLeft, FoldLeft,
  Eagerly!MapThenFoldSet, MapThenFoldSet, Eagerly!Max, Max

LEMMA SameFlushed ==
  ASSUME NEW mem2
  PROVE  Eagerly!Flushed(mem2) = Flushed(mem2)
BY Zenon DEF Eagerly!Flushed, Flushed, Eagerly!SelectInSeq, SelectInSeq, Eagerly!Uncommittable, Uncommittable,
  Eagerly!Overruns, Overruns, Eagerly!StoreRows, StoreRows, Eagerly!CopyRows, CopyRows, Eagerly!PutRow, PutRow,
  Eagerly!FoldLeft, FoldLeft, Eagerly!MapThenFoldSet, MapThenFoldSet, Eagerly!Max, Max, Eagerly!Min, Min

LEMMA SameQueue ==
  /\ Eagerly!FlushFails = FlushFails
  /\ Eagerly!KeepQueue <=> KeepQueue
  /\ Eagerly!ClearStaging <=> ClearStaging
BY Zenon DEF Eagerly!FlushFails, FlushFails, Eagerly!Uncommittable, Uncommittable, Eagerly!Overruns, Overruns,
  Eagerly!KeepQueue, KeepQueue, Eagerly!ClearStaging, ClearStaging, Eagerly!NoStaging, NoStaging

LEMMA SameFlush ==
  ASSUME NEW mem2
  PROVE  Eagerly!FlushQueue(mem2) <=> FlushQueue(mem2)
BY SameFlushed, SameQueue, Zenon DEF Eagerly!FlushQueue, FlushQueue

-----------------------------------------------------------------------------
(* What the eager NPU holds: the memories as if the buffer had been replayed. *)
EagerInv == MemoryInv /\ PendingFramesCoherent /\ DrainIsReplay

LEMMA NothingToReplay ==
  ASSUME tloop_buf = <<>>
  PROVE  ReplayedL1 = l1 /\ ReplayedL2 = l2
BY DEF ReplayedL1, ReplayedL2

LEMMA NothingToReplayAfterwards ==
  ASSUME tloop_buf' = <<>>
  PROVE  ReplayedL1' = l1' /\ ReplayedL2' = l2'
BY DEF ReplayedL1, ReplayedL2

(* A drain leaves what the eager NPU already holds. *)
LEMMA ReplayedIsDrained ==
  ASSUME EagerInv
  PROVE  ReplayedL1 = DrainedL1 /\ ReplayedL2 = DrainedL2
<1>1. CASE tloop_buf = <<>>
  <2>1. nest \in Nests /\ spu \in Spus /\ l1 \in L1s /\ l2 \in L2s
    BY RoutedUnit DEF EagerInv, MemoryInv, ControlTypeOK, MemoryTypeOK, L1s, L2s
  <2>2. Drained.l1 = l1[nest][spu] /\ Drained.l2 = l2[nest]
    BY <1>1 DEF Drained, Bank
  <2>3. DrainedL1 = l1 /\ DrainedL2 = l2
    BY <2>1, <2>2 DEF DrainedL1, DrainedL2, L1s, L2s
  <2> QED
    BY <1>1, <2>3, NothingToReplay
<1>2. CASE tloop_buf # <<>>
  <2>1. Drained = Replayed
    BY <1>2 DEF EagerInv, DrainIsReplay, Drained, Replayed
  <2> QED
    BY <1>2, <2>1 DEF ReplayedL1, ReplayedL2, DrainedL1, DrainedL2
<1> QED
  BY <1>1, <1>2

(* The eager NPU has nothing to drain: its memories, its banks and its counters are live. *)
LEMMA EagerHasDrained ==
  ASSUME EagerInv
  PROVE  /\ Eagerly!Drained = Eagerly!Bank
         /\ Eagerly!Bank = [l1 |-> ReplayedL1[nest][spu], l2 |-> ReplayedL2[nest], addr |-> lspr[nest][spu]]
         /\ Eagerly!DrainedL1 = ReplayedL1 /\ Eagerly!DrainedL2 = ReplayedL2
         /\ Eagerly!DrainedLd = DrainedLd /\ Eagerly!DrainedSt = DrainedSt
<1>1. nest \in Nests /\ spu \in Spus
  BY RoutedUnit DEF EagerInv, MemoryInv, ControlTypeOK
<1>2. ReplayedL1 \in L1s /\ ReplayedL2 \in L2s
  BY ReplayedIsDrained, DrainedTypes DEF EagerInv
<1>3. Eagerly!Bank = [l1 |-> ReplayedL1[nest][spu], l2 |-> ReplayedL2[nest], addr |-> lspr[nest][spu]]
  BY SameUnits DEF Eagerly!Bank
<1>4. Eagerly!Drained = Eagerly!Bank
  BY DEF Eagerly!Drained
<1>5. Eagerly!DrainedL1 = ReplayedL1 /\ Eagerly!DrainedL2 = ReplayedL2
  BY <1>1, <1>2, <1>3, <1>4, SameUnits DEF Eagerly!DrainedL1, Eagerly!DrainedL2, L1s, L2s
<1>6. DrainedLd \in Counters /\ DrainedSt \in Counters
  BY DrainedCreditTypes DEF EagerInv, MemoryInv, ControlTypeOK, Counters
<1>7. /\ Eagerly!DrainedLd = Consumed(DrainedLd, nest, spu, 0)
      /\ Eagerly!DrainedSt = Produced(DrainedSt, nest, spu, 0)
  BY SameUnits, SameCounting, PendingOfEmpty DEF Eagerly!DrainedLd, Eagerly!DrainedSt, Consumed, Produced
<1>8. Eagerly!DrainedLd = DrainedLd /\ Eagerly!DrainedSt = DrainedSt
  BY <1>6, <1>7, DrainOfNothing
<1> QED
  BY <1>3, <1>4, <1>5, <1>8

(* The counters of the eager NPU, once nothing waits. *)
LEMMA EagerSettled ==
  ASSUME CreditTypeOK', tloop_buf' = <<>>
  PROVE  DrainedLd' = credit_ld' /\ DrainedSt' = credit_st'
BY NothingWaitsAfterwards

-----------------------------------------------------------------------------
(* Markers. *)
LEMMA EagerMarker ==
  ASSUME EagerInv, CreditTypeOK', Marker
  PROVE  /\ Eagerly!Marker
         /\ ReplayedL1' = l1' /\ ReplayedL2' = l2'
         /\ DrainedLd' = credit_ld' /\ DrainedSt' = credit_st'
<1>1. tloop_buf' = <<>> /\ credit_ld' = DrainedLd /\ l1' = DrainedL1 /\ l2' = DrainedL2
  BY DEF Marker, WriteBank, DrainedL1, DrainedL2
<1>2. ReplayedL1' = l1' /\ ReplayedL2' = l2' /\ DrainedLd' = credit_ld' /\ DrainedSt' = credit_st'
  BY <1>1, NothingToReplayAfterwards, EagerSettled
<1>3. ReplayedL1' = Eagerly!DrainedL1 /\ ReplayedL2' = Eagerly!DrainedL2 /\ DrainedLd' = Eagerly!DrainedLd
  BY <1>1, <1>2, ReplayedIsDrained, EagerHasDrained
<1>4. Eagerly!Marker
  BY <1>3 DEF Marker, Eagerly!Marker, Eagerly!WriteBank, Eagerly!DrainedL1, Eagerly!DrainedL2
<1> QED
  BY <1>2, <1>4

(* A marker that settles nothing but its own thread's credits. *)
LEMMA PlainMarker ==
  ASSUME EagerInv, CreditTypeOK', Marker, credit_st' = DrainedSt
  PROVE  Eagerly!Marker /\ DrainedSt' = Eagerly!DrainedSt
BY EagerMarker, EagerHasDrained

(* A marker that settles the plan. *)
LEMMA SettlingMarker ==
  ASSUME EagerInv, CreditTypeOK', Marker, Settle(DrainedSt)
  PROVE  Eagerly!Marker /\ Eagerly!Settle(Eagerly!DrainedSt)
<1>1. Eagerly!Marker /\ DrainedSt' = credit_st' /\ Eagerly!DrainedSt = DrainedSt
  BY EagerMarker, EagerHasDrained
<1>2. \A st : Eagerly!Settle(st) <=>
        /\ DrainedSt' = [m \in Nests |-> [s \in Spus |-> Monus(st[m][s], credit_st_deferred[m][s])]]
        /\ credit_st_deferred' = PerSpu(0)
  BY Zenon DEF Eagerly!Settle, Eagerly!Nests, Nests, Eagerly!Spus, Spus, Eagerly!Monus, Monus, Eagerly!PerSpu, PerSpu
<1> QED
  BY <1>1, <1>2 DEF Settle

(* Every marker of the NPU is the same marker of the eager one. *)
LEMMA MarkersMap ==
  ASSUME EagerInv, CreditTypeOK', Markers
  PROVE  Eagerly!Markers
<1>1. ASSUME NEW id, startp(id) PROVE Eagerly!startp(id)
  <2>1. Eagerly!Marker /\ DrainedSt' = Eagerly!DrainedSt
    BY <1>1, PlainMarker DEF startp
  <2> QED
    BY <1>1, <2>1, SameUnits, SameQueue DEF startp, Eagerly!startp
<1>2. ASSUME NEW id, starts(id) PROVE Eagerly!starts(id)
  <2>1. Eagerly!Marker /\ DrainedSt' = Eagerly!DrainedSt
    BY <1>2, PlainMarker DEF starts
  <2> QED
    BY <1>2, <2>1, SameUnits, SameQueue DEF starts, Eagerly!starts
<1>3. ASSUME NEW id, startt(id) PROVE Eagerly!startt(id)
  <2>1. Eagerly!Marker /\ DrainedSt' = Eagerly!DrainedSt
    BY <1>3, PlainMarker DEF startt
  <2> QED
    BY <1>3, <2>1, SameUnits, SameQueue DEF startt, Eagerly!startt
<1>4. ASSUME ends PROVE Eagerly!ends
  <2>1. Eagerly!Marker /\ DrainedSt' = Eagerly!DrainedSt
    BY <1>4, PlainMarker DEF ends
  <2> QED
    BY <1>4, <2>1, SameQueue DEF ends, Eagerly!ends
<1>5. ASSUME endt PROVE Eagerly!endt
  <2>1. Eagerly!Marker /\ DrainedSt' = Eagerly!DrainedSt
    BY <1>5, PlainMarker DEF endt
  <2> QED
    BY <1>5, <2>1, SameQueue DEF endt, Eagerly!endt
<1>6. ASSUME split PROVE Eagerly!split
  <2>1. Eagerly!Marker /\ DrainedSt' = Eagerly!DrainedSt
    BY <1>6, PlainMarker DEF split
  <2> QED
    BY <1>6, <2>1, SameQueue DEF split, Eagerly!split
<1>7. ASSUME NEW id, NEW Units, badid(id, Units) PROVE Eagerly!badid(id, Units)
  <2>1. Eagerly!Marker /\ DrainedSt' = Eagerly!DrainedSt
    BY <1>7, PlainMarker DEF badid
  <2> QED
    BY <1>7, <2>1 DEF badid, Eagerly!badid, warp, Eagerly!warp
<1>8. ASSUME endp \/ join
      PROVE  Eagerly!Marker /\ Eagerly!Settle(Eagerly!DrainedSt) /\ ReplayedL2' = l2'
  BY <1>8, SettlingMarker, EagerMarker DEF endp, join
<1>9. Eagerly!FlushQueue(l2') <=> FlushQueue(l2')
  BY SameFlush
<1>10. ASSUME endp PROVE Eagerly!endp
  BY <1>8, <1>9, <1>10, SameQueue DEF endp, Eagerly!endp
<1>11. ASSUME join PROVE Eagerly!join
  BY <1>8, <1>9, <1>11, SameQueue DEF join, Eagerly!join, warp, Eagerly!warp
<1> QED
  BY <1>1, <1>2, <1>3, <1>4, <1>5, <1>6, <1>7, <1>10, <1>11, SameUnits DEF Markers, Eagerly!Markers

-----------------------------------------------------------------------------
(* Hard boundaries. *)
LEMMA NeverBuffers ==
  /\ ~Eagerly!Buffering
  /\ \A x, y : Eagerly!AtBoundary(x, y) = x
BY DEF Eagerly!Buffering, Eagerly!AtBoundary

LEMMA BoundaryMaps ==
  ASSUME EagerInv, CreditTypeOK', HardBoundary
  PROVE  /\ Eagerly!HardBoundary
         /\ ReplayedL1 = AtBoundary(l1, DrainedL1) /\ ReplayedL2 = AtBoundary(l2, DrainedL2)
         /\ ReplayedL1' = l1' /\ ReplayedL2' = l2'
<1>1. tloop_buf' = <<>> /\ credit_ld' = DrainedLd /\ credit_st' = DrainedSt
      /\ ReplayedL1 = AtBoundary(l1, DrainedL1) /\ ReplayedL2 = AtBoundary(l2, DrainedL2)
  <2>1. CASE Buffering
    BY <2>1, ReplayedIsDrained DEF HardBoundary, AtBoundary
  <2>2. CASE ~Buffering
    <3>1. tloop_buf = <<>>
      BY <2>2, NotBuffering DEF EagerInv
    <3>2. DrainedLd = credit_ld /\ DrainedSt = credit_st
      BY <3>1, NothingWaits DEF EagerInv, MemoryInv, ControlTypeOK
    <3> QED
      BY <2>2, <3>1, <3>2, NothingToReplay DEF HardBoundary, AtBoundary
  <2> QED
    BY <2>1, <2>2
<1>2. ReplayedL1' = l1' /\ ReplayedL2' = l2' /\ DrainedLd' = credit_ld' /\ DrainedSt' = credit_st'
  BY <1>1, NothingToReplayAfterwards, EagerSettled
<1>3. Eagerly!HardBoundary
  BY <1>1, <1>2, NeverBuffers DEF HardBoundary, Eagerly!HardBoundary, warp, Eagerly!warp
<1> QED
  BY <1>1, <1>2, <1>3

(* The anchors of the threads, and what only reads them. *)
LEMMA SprMaps ==
  ASSUME EagerInv, CreditTypeOK'
  PROVE  /\ \A a, v : wrspr(a, v) => Eagerly!wrspr(a, v)
         /\ \A r, i, v : wrspr_svr(r, i, v) => Eagerly!wrspr_svr(r, i, v)
         /\ rdspr => Eagerly!rdspr
<1>1. ASSUME HardBoundary, l1' = AtBoundary(l1, DrainedL1), l2' = AtBoundary(l2, DrainedL2)
      PROVE  /\ Eagerly!HardBoundary
             /\ ReplayedL1' = Eagerly!AtBoundary(ReplayedL1, Eagerly!DrainedL1)
             /\ ReplayedL2' = Eagerly!AtBoundary(ReplayedL2, Eagerly!DrainedL2)
  BY <1>1, BoundaryMaps, NeverBuffers
<1>2. ASSUME NEW a, NEW v, wrspr(a, v) PROVE Eagerly!wrspr(a, v)
  BY <1>1, <1>2, SameUnits, SameQueue, Zenon DEF wrspr, Eagerly!wrspr, Eagerly!SetAnchor, SetAnchor
<1>3. ASSUME rdspr PROVE Eagerly!rdspr
  BY <1>1, <1>3, SameQueue DEF rdspr, Eagerly!rdspr
<1>4. ASSUME NEW r, NEW i, NEW v, wrspr_svr(r, i, v) PROVE Eagerly!wrspr_svr(r, i, v)
  BY <1>1, <1>4, SameUnits, SameQueue, Zenon DEF wrspr_svr, Eagerly!wrspr_svr
<1> QED
  BY <1>2, <1>3, <1>4

-----------------------------------------------------------------------------
(* Instructions that leave what the eager NPU holds. *)
LEMMA Untouched ==
  ASSUME UNCHANGED <<warp, tloop_buf, lspr, l1, l2>>
  PROVE  /\ ReplayedL1' = ReplayedL1 /\ ReplayedL2' = ReplayedL2
         /\ UNCHANGED <<credit_ld, credit_st>> => DrainedLd' = DrainedLd /\ DrainedSt' = DrainedSt
<1>1. nest' = nest /\ spu' = spu
  BY DEF warp, nest, spu, is_ploop, is_tloop
<1> QED
  BY <1>1 DEF ReplayedL1, ReplayedL2, Replayed, Bank, DrainedLd, DrainedSt

LEMMA OpsetMaps ==
  ASSUME NEW slot, NEW word, opset(slot, word)
  PROVE  Eagerly!opset(slot, word)
<1>1. /\ ReplayedL1' = ReplayedL1 /\ ReplayedL2' = ReplayedL2
      /\ DrainedLd' = DrainedLd /\ DrainedSt' = DrainedSt
  BY Untouched DEF opset, credits, memory
<1> QED
  BY <1>1 DEF opset, Eagerly!opset, warp, Eagerly!warp, credits, Eagerly!credits, memory, Eagerly!memory

LEMMA CreditChkMaps ==
  ASSUME EagerInv, credit_chk
  PROVE  Eagerly!credit_chk
<1>1. /\ ReplayedL1' = ReplayedL1 /\ ReplayedL2' = ReplayedL2
      /\ DrainedLd' = DrainedLd /\ DrainedSt' = DrainedSt
  BY Untouched DEF credit_chk, credits
<1>2. is_sloop => ReplayedL2 = l2
  BY NothingToReplay DEF EagerInv, PendingFramesCoherent, is_sloop, is_tloop
<1>3. Eagerly!FlushQueue(l2) <=> FlushQueue(l2)
  BY SameFlush
<1> QED
  BY <1>1, <1>2, <1>3, SameUnits, SameQueue
     DEF credit_chk, Eagerly!credit_chk, warp, Eagerly!warp, credits, Eagerly!credits

(* Instructions executed at once find nothing to replay, and leave nothing. *)
LEMMA EagerMaps ==
  ASSUME EagerInv, CreditTypeOK', Eager
  PROVE  /\ Eagerly!Eager
         /\ ReplayedL1 = l1 /\ ReplayedL2 = l2 /\ DrainedLd = credit_ld /\ DrainedSt = credit_st
         /\ ReplayedL1' = l1' /\ ReplayedL2' = l2' /\ DrainedLd' = credit_ld' /\ DrainedSt' = credit_st'
<1>1. tloop_buf = <<>> /\ tloop_buf' = <<>>
  BY NotBuffering DEF Eager, EagerInv
<1>2. Eagerly!Eager
  BY NeverBuffers DEF Eager, Eagerly!Eager, warp, Eagerly!warp
<1> QED
  BY <1>1, <1>2, NothingToReplay, NothingToReplayAfterwards, NothingWaits, EagerSettled
     DEF EagerInv, MemoryInv, ControlTypeOK

LEMMA CreditOpsMap ==
  ASSUME EagerInv, CreditTypeOK'
  PROVE  /\ credit_ld_op => Eagerly!credit_ld_op
         /\ \A mask : credit_st_op(mask) => Eagerly!credit_st_op(mask)
<1>1. ASSUME credit_ld_op PROVE Eagerly!credit_ld_op
  <2>1. /\ Eagerly!Eager
        /\ ReplayedL1 = l1 /\ ReplayedL2 = l2 /\ DrainedLd = credit_ld /\ DrainedSt = credit_st
        /\ ReplayedL1' = l1' /\ ReplayedL2' = l2' /\ DrainedLd' = credit_ld' /\ DrainedSt' = credit_st'
    BY <1>1, EagerMaps DEF credit_ld_op
  <2> QED
    BY <1>1, <2>1, SameUnits, SameQueue, Zenon
       DEF credit_ld_op, Eagerly!credit_ld_op, Eagerly!Monus, Monus
<1>2. ASSUME NEW mask, credit_st_op(mask) PROVE Eagerly!credit_st_op(mask)
  <2>1. /\ Eagerly!Eager
        /\ ReplayedL1 = l1 /\ ReplayedL2 = l2 /\ DrainedLd = credit_ld /\ DrainedSt = credit_st
        /\ ReplayedL1' = l1' /\ ReplayedL2' = l2' /\ DrainedLd' = credit_ld' /\ DrainedSt' = credit_st'
    BY <1>2, EagerMaps DEF credit_st_op
  <2> QED
    BY <1>2, <2>1, SameUnits, SameQueue, Zenon DEF credit_st_op, Eagerly!credit_st_op
<1> QED
  BY <1>1, <1>2

(* The bufferable handlers outside the buffer. *)
LEMMA ExecuteMaps ==
  ASSUME EagerInv, CreditTypeOK', NEW m, NEW arg, ExecuteOnBank(m, arg)
  PROVE  Eagerly!ExecuteOnBank(m, arg)
<1>1. /\ Eagerly!Eager
      /\ ReplayedL1 = l1 /\ ReplayedL2 = l2 /\ DrainedLd = credit_ld /\ DrainedSt = credit_st
      /\ ReplayedL1' = l1' /\ ReplayedL2' = l2' /\ DrainedLd' = credit_ld' /\ DrainedSt' = credit_st'
  BY EagerMaps DEF ExecuteOnBank
<1>2. Eagerly!Bank = Bank
  BY <1>1, EagerHasDrained DEF Bank
<1>3. Eagerly!Entry(m, arg) = Entry(m, arg)
  BY SameUnits DEF Entry, Eagerly!Entry
<1>4. Eagerly!Replay(Eagerly!Entry(m, arg), Eagerly!Bank) = Replay(Entry(m, arg), Bank)
  BY <1>2, <1>3, SameReplay
<1>5. WriteBank(Replay(Entry(m, arg), Bank)) <=> Eagerly!WriteBank(Replay(Entry(m, arg), Bank))
  BY <1>1, SameUnits, Zenon DEF WriteBank, Eagerly!WriteBank
<1> QED
  BY <1>1, <1>4, <1>5, SameQueue DEF ExecuteOnBank, Eagerly!ExecuteOnBank, credits, Eagerly!credits

LEMMA SharedStepsMap ==
  ASSUME EagerInv, CreditTypeOK'
  PROVE  /\ \A d : sloop_store(d) => Eagerly!sloop_store(d)
         /\ idle_dma => Eagerly!idle_dma
<1>1. ASSUME NEW d, sloop_store(d) PROVE Eagerly!sloop_store(d)
  <2>1. /\ Eagerly!Eager
        /\ ReplayedL1 = l1 /\ ReplayedL2 = l2 /\ DrainedLd = credit_ld /\ DrainedSt = credit_st
        /\ ReplayedL1' = l1' /\ ReplayedL2' = l2' /\ DrainedLd' = credit_ld' /\ DrainedSt' = credit_st'
    BY <1>1, EagerMaps DEF sloop_store
  <2> QED
    BY <1>1, <2>1, SameUnits, SameQueue, Zenon
       DEF sloop_store, Eagerly!sloop_store, credits, Eagerly!credits, memory, Eagerly!memory, DdrOff, Eagerly!DdrOff
<1>2. ASSUME idle_dma PROVE Eagerly!idle_dma
  <2>1. /\ Eagerly!Eager
        /\ ReplayedL1 = l1 /\ ReplayedL2 = l2 /\ DrainedLd = credit_ld /\ DrainedSt = credit_st
        /\ ReplayedL1' = l1' /\ ReplayedL2' = l2' /\ DrainedLd' = credit_ld' /\ DrainedSt' = credit_st'
    BY <1>2, EagerMaps DEF idle_dma
  <2> QED
    BY <1>2, <2>1, SameUnits, SameQueue DEF idle_dma, Eagerly!idle_dma, credits, Eagerly!credits, memory, Eagerly!memory
<1> QED
  BY <1>1, <1>2

-----------------------------------------------------------------------------
(* An S-loop load, given the L2 it finds and the DDR it copies from. *)
LoadFlushes(d) ==
  LET wr == staging.op3.lo
      width == IF wr = 0 THEN d.len ELSE wr
  IN HitsPendingSource(Extent(d.lo, width, d.h, d.len))

LoadRejected(d) ==
  LET wr == staging.op3.lo
  IN \/ d.st < d.len \/ wr < d.len
     \/ d.lo + d.h * wr > L2Size
     \/ Overruns(DdrOff(d.hi), d.st, d.h, d.len)

LoadInto(d, mem2, mem0) ==
  [mem2 EXCEPT ![nest] = CopyRows(@, mem0, Grid(d.lo, staging.op3.lo, DdrOff(d.hi), d.st, d.h, d.len))]

LEMMA LoadIs ==
  ASSUME NEW d
  PROVE  sloop_load(d) <=>
           /\ is_sloop /\ Eager
           /\ ddr' = IF LoadFlushes(d) THEN Flushed(l2) ELSE ddr
           /\ deferred_ddr_stores' = IF LoadFlushes(d) /\ ~FlushFails THEN <<>> ELSE deferred_ddr_stores
           /\ halted' = ((LoadFlushes(d) /\ FlushFails) \/ LoadRejected(d))
           /\ l2' = IF halted' THEN l2 ELSE LoadInto(d, l2, ddr')
           /\ UNCHANGED <<credits, l1>>
           /\ ClearStaging
BY Zenon DEF sloop_load, LoadFlushes, LoadRejected, LoadInto

LEMMA SameLoad ==
  ASSUME NEW d
  PROVE  Eagerly!sloop_load(d) <=>
           /\ is_sloop /\ Eagerly!Eager
           /\ ddr' = IF LoadFlushes(d) THEN Flushed(ReplayedL2) ELSE ddr
           /\ deferred_ddr_stores' = IF LoadFlushes(d) /\ ~FlushFails THEN <<>> ELSE deferred_ddr_stores
           /\ halted' = ((LoadFlushes(d) /\ FlushFails) \/ LoadRejected(d))
           /\ ReplayedL2' = IF halted' THEN ReplayedL2 ELSE LoadInto(d, ReplayedL2, ddr')
           /\ UNCHANGED <<DrainedLd, DrainedSt, credit_st_deferred, ReplayedL1>>
           /\ ClearStaging
<1> DEFINE wr == staging.op3.lo
           width == IF wr = 0 THEN d.len ELSE wr
<1>1. Eagerly!HitsPendingSource(Eagerly!Extent(d.lo, width, d.h, d.len)) <=> LoadFlushes(d)
  BY SameUnits, Zenon DEF LoadFlushes, HitsPendingSource, Eagerly!HitsPendingSource, Extent, Eagerly!Extent
<1>2. Eagerly!Overruns(Eagerly!DdrOff(d.hi), d.st, d.h, d.len) <=> Overruns(DdrOff(d.hi), d.st, d.h, d.len)
  BY Zenon DEF Overruns, Eagerly!Overruns, DdrOff, Eagerly!DdrOff
<1>3. ASSUME NEW mem2, NEW mem0
      PROVE  [mem2 EXCEPT ![nest] = Eagerly!CopyRows(@, mem0, Eagerly!Grid(d.lo, wr, Eagerly!DdrOff(d.hi), d.st, d.h, d.len))]
               = LoadInto(d, mem2, mem0)
  BY Zenon DEF LoadInto, DdrOff, Eagerly!DdrOff, Grid, Eagerly!Grid, CopyRows, Eagerly!CopyRows,
     PutRow, Eagerly!PutRow, FoldLeft, Eagerly!FoldLeft, MapThenFoldSet, Eagerly!MapThenFoldSet, Max, Eagerly!Max
<1>4. Eagerly!Flushed(ReplayedL2) = Flushed(ReplayedL2)
  BY SameFlushed
<1>5. [ReplayedL2 EXCEPT ![Eagerly!nest] = Eagerly!CopyRows(@, ddr', Eagerly!Grid(d.lo, wr, Eagerly!DdrOff(d.hi), d.st, d.h, d.len))]
               = LoadInto(d, ReplayedL2, ddr')
  BY <1>3, SameUnits
<1> QED
  BY <1>1, <1>2, <1>4, <1>5, SameUnits, SameQueue, Zenon DEF Eagerly!sloop_load, LoadRejected, Eagerly!credits

LEMMA LoadMaps ==
  ASSUME EagerInv, CreditTypeOK', NEW d, sloop_load(d)
  PROVE  Eagerly!sloop_load(d)
<1>1. /\ Eagerly!Eager
      /\ ReplayedL1 = l1 /\ ReplayedL2 = l2 /\ DrainedLd = credit_ld /\ DrainedSt = credit_st
      /\ ReplayedL1' = l1' /\ ReplayedL2' = l2' /\ DrainedLd' = credit_ld' /\ DrainedSt' = credit_st'
  BY EagerMaps DEF sloop_load
<1> QED
  BY <1>1, LoadIs, SameLoad, Zenon DEF credits

(* A COPY outside a T-loop, given the L2 it finds. *)
CopyRowsOf(d) ==
  LET rd == IF d.st = 0 THEN d.len ELSE d.st
      wr == IF staging.op3.lo = 0 THEN d.len ELSE staging.op3.lo
  IN IF rd = d.len /\ wr = d.len
     THEN <<[d |-> d.hi, s |-> d.lo, n |-> d.h * d.len]>>
     ELSE Grid(d.hi, wr, d.lo, rd, d.h, d.len)

CopyInto(d, mem2) == [mem2 EXCEPT ![nest] = MoveRows(@, BeforeWrap(CopyRowsOf(d)))]
CopyWraps(d) == \E i \in DOMAIN CopyRowsOf(d) : Wraps(CopyRowsOf(d)[i])

LEMMA CopyMaps ==
  ASSUME EagerInv, CreditTypeOK', NEW d, sloop_copy(d)
  PROVE  Eagerly!sloop_copy(d)
<1>1. /\ Eagerly!Eager
      /\ ReplayedL1 = l1 /\ ReplayedL2 = l2 /\ DrainedLd = credit_ld /\ DrainedSt = credit_st
      /\ ReplayedL1' = l1' /\ ReplayedL2' = l2' /\ DrainedLd' = credit_ld' /\ DrainedSt' = credit_st'
  BY EagerMaps DEF sloop_copy
<1>2. l2' = CopyInto(d, l2) /\ halted' = CopyWraps(d)
  BY Zenon DEF sloop_copy, CopyInto, CopyWraps, CopyRowsOf
<1> DEFINE rd == IF d.st = 0 THEN d.len ELSE d.st
           wr == IF staging.op3.lo = 0 THEN d.len ELSE staging.op3.lo
           rows == IF rd = d.len /\ wr = d.len
                   THEN <<[d |-> d.hi, s |-> d.lo, n |-> d.h * d.len]>>
                   ELSE Eagerly!Grid(d.hi, wr, d.lo, rd, d.h, d.len)
<1>3. rows = CopyRowsOf(d)
  BY Zenon DEF CopyRowsOf, Grid, Eagerly!Grid
<1>4. ASSUME NEW x, NEW r PROVE Eagerly!MoveRows(x, Eagerly!BeforeWrap(r)) = MoveRows(x, BeforeWrap(r))
  BY Zenon DEF Wraps, Eagerly!Wraps, BeforeWrap, Eagerly!BeforeWrap, SelectInSeq, Eagerly!SelectInSeq,
     MoveRows, Eagerly!MoveRows, PutRow, Eagerly!PutRow, FoldLeft, Eagerly!FoldLeft,
     MapThenFoldSet, Eagerly!MapThenFoldSet, Max, Eagerly!Max, Min, Eagerly!Min
<1>5. (\E i \in DOMAIN rows : Eagerly!Wraps(rows[i])) = CopyWraps(d)
  BY <1>3, Zenon DEF CopyWraps, Wraps, Eagerly!Wraps
<1>6. [ReplayedL2 EXCEPT ![Eagerly!nest] = Eagerly!MoveRows(@, Eagerly!BeforeWrap(rows))] = CopyInto(d, ReplayedL2)
  BY <1>3, <1>4, SameUnits, Zenon DEF CopyInto
<1>7. Eagerly!sloop_copy(d) <=>
        /\ ~Eagerly!is_tloop /\ Eagerly!Eager
        /\ ReplayedL2' = [ReplayedL2 EXCEPT ![Eagerly!nest] = Eagerly!MoveRows(@, Eagerly!BeforeWrap(rows))]
        /\ halted' = (\E i \in DOMAIN rows : Eagerly!Wraps(rows[i]))
        /\ UNCHANGED <<Eagerly!credits, ReplayedL1, ddr, deferred_ddr_stores>>
        /\ Eagerly!ClearStaging
  BY Zenon DEF Eagerly!sloop_copy
<1> HIDE DEF rows
<1>8. Eagerly!sloop_copy(d) <=>
        /\ ~is_tloop /\ Eagerly!Eager
        /\ ReplayedL2' = CopyInto(d, ReplayedL2)
        /\ halted' = CopyWraps(d)
        /\ UNCHANGED <<DrainedLd, DrainedSt, credit_st_deferred, ReplayedL1, ddr, deferred_ddr_stores>>
        /\ ClearStaging
  BY <1>5, <1>6, <1>7, SameUnits, SameQueue, Zenon DEF Eagerly!credits
<1> QED
  BY <1>1, <1>2, <1>8 DEF sloop_copy, credits

-----------------------------------------------------------------------------
(* The multicasts and copy.mem: what each puts where, given the memories it finds. *)
S2lRejected(d) ==
  \/ Stride(d) < d.len
  \/ d.hi + d.h * Stride(d) > L2Size
  \/ d.lo + d.h * d.len > L1Size

S2lInto(d, mem1, mem2) ==
  [mem1 EXCEPT ![nest] =
    [s \in Spus |-> IF s \in Selected(staging.op3.lo, Spus)
                    THEN CopyRows(@[s], mem2[nest], Grid(d.lo, d.len, d.hi, Stride(d), d.h, d.len))
                    ELSE @[s]]]

LEMMA S2lMaps ==
  ASSUME EagerInv, CreditTypeOK', NEW d, mcast_s2l(d)
  PROVE  Eagerly!mcast_s2l(d)
<1>1. HardBoundary
  BY DEF mcast_s2l
<1>2. /\ Eagerly!HardBoundary
      /\ ReplayedL1 = AtBoundary(l1, DrainedL1) /\ ReplayedL2 = AtBoundary(l2, DrainedL2)
      /\ ReplayedL1' = l1' /\ ReplayedL2' = l2'
  BY <1>1, BoundaryMaps
<1>3. /\ halted' = S2lRejected(d)
      /\ l2' = AtBoundary(l2, DrainedL2)
      /\ l1' = IF S2lRejected(d) THEN AtBoundary(l1, DrainedL1)
               ELSE S2lInto(d, AtBoundary(l1, DrainedL1), AtBoundary(l2, DrainedL2))
      /\ UNCHANGED <<lspr, l0, ddr, deferred_ddr_stores>> /\ ClearStaging
  BY Zenon DEF mcast_s2l, S2lRejected, S2lInto
<1> DEFINE mem1 == Eagerly!AtBoundary(ReplayedL1, Eagerly!DrainedL1)
           mem2 == Eagerly!AtBoundary(ReplayedL2, Eagerly!DrainedL2)
           rejected == \/ Eagerly!Stride(d) < d.len
                       \/ d.hi + d.h * Eagerly!Stride(d) > L2Size
                       \/ d.lo + d.h * d.len > L1Size
           into == [mem1 EXCEPT ![Eagerly!nest] =
                     [s \in Eagerly!Spus |->
                       IF s \in Eagerly!Selected(staging.op3.lo, Eagerly!Spus)
                       THEN Eagerly!CopyRows(@[s], mem2[Eagerly!nest],
                              Eagerly!Grid(d.lo, d.len, d.hi, Eagerly!Stride(d), d.h, d.len))
                       ELSE @[s]]]
<1>4. Eagerly!mcast_s2l(d) <=>
        /\ Eagerly!HardBoundary
        /\ halted' = rejected
        /\ ReplayedL2' = mem2
        /\ ReplayedL1' = IF rejected THEN mem1 ELSE into
        /\ UNCHANGED <<lspr, l0, ddr, deferred_ddr_stores>> /\ Eagerly!ClearStaging
  BY Zenon DEF Eagerly!mcast_s2l
<1>5. mem1 = ReplayedL1 /\ mem2 = ReplayedL2
  BY NeverBuffers
<1>6. rejected = S2lRejected(d)
  BY Zenon DEF S2lRejected, Stride, Eagerly!Stride
<1>7. into = S2lInto(d, mem1, mem2)
  BY Zenon DEF S2lInto, Stride, Eagerly!Stride, Selected, Eagerly!Selected, Eagerly!Spus, Spus,
     Eagerly!nest, nest, Eagerly!is_ploop, is_ploop, Grid, Eagerly!Grid, CopyRows, Eagerly!CopyRows,
     PutRow, Eagerly!PutRow, FoldLeft, Eagerly!FoldLeft, MapThenFoldSet, Eagerly!MapThenFoldSet, Max, Eagerly!Max
<1> HIDE DEF mem1, mem2, rejected, into
<1> QED
  BY <1>2, <1>3, <1>4, <1>5, <1>6, <1>7, SameQueue

G2sRejected(d) ==
  \/ Stride(d) # d.len
  \/ Overruns(DdrOff(d.hi), d.len, d.h, d.len)
  \/ d.lo + d.h * d.len > L2Size

G2sInto(d, mem2) ==
  [m \in Nests |-> IF m \in Selected(staging.op3.lo, Nests)
                   THEN CopyRows(mem2[m], ddr, Grid(d.lo, d.len, DdrOff(d.hi), d.len, d.h, d.len))
                   ELSE mem2[m]]

LEMMA G2sMaps ==
  ASSUME EagerInv, CreditTypeOK', NEW d, mcast_g2s(d)
  PROVE  Eagerly!mcast_g2s(d)
<1>1. HardBoundary
  BY DEF mcast_g2s
<1>2. /\ Eagerly!HardBoundary
      /\ ReplayedL1 = AtBoundary(l1, DrainedL1) /\ ReplayedL2 = AtBoundary(l2, DrainedL2)
      /\ ReplayedL1' = l1' /\ ReplayedL2' = l2'
  BY <1>1, BoundaryMaps
<1>3. /\ halted' = G2sRejected(d)
      /\ l1' = AtBoundary(l1, DrainedL1)
      /\ l2' = IF G2sRejected(d) THEN AtBoundary(l2, DrainedL2) ELSE G2sInto(d, AtBoundary(l2, DrainedL2))
      /\ UNCHANGED <<lspr, l0, ddr, deferred_ddr_stores>> /\ ClearStaging
  BY Zenon DEF mcast_g2s, G2sRejected, G2sInto
<1> DEFINE mem1 == Eagerly!AtBoundary(ReplayedL1, Eagerly!DrainedL1)
           mem2 == Eagerly!AtBoundary(ReplayedL2, Eagerly!DrainedL2)
           rejected == \/ Eagerly!Stride(d) # d.len
                       \/ Eagerly!Overruns(Eagerly!DdrOff(d.hi), d.len, d.h, d.len)
                       \/ d.lo + d.h * d.len > L2Size
           into == [m \in Eagerly!Nests |->
                     IF m \in Eagerly!Selected(staging.op3.lo, Eagerly!Nests)
                     THEN Eagerly!CopyRows(mem2[m], ddr,
                            Eagerly!Grid(d.lo, d.len, Eagerly!DdrOff(d.hi), d.len, d.h, d.len))
                     ELSE mem2[m]]
<1>4. Eagerly!mcast_g2s(d) <=>
        /\ Eagerly!HardBoundary
        /\ halted' = rejected
        /\ ReplayedL1' = mem1
        /\ ReplayedL2' = IF rejected THEN mem2 ELSE into
        /\ UNCHANGED <<lspr, l0, ddr, deferred_ddr_stores>> /\ Eagerly!ClearStaging
  BY Zenon DEF Eagerly!mcast_g2s
<1>5. mem1 = ReplayedL1 /\ mem2 = ReplayedL2
  BY NeverBuffers
<1>6. rejected = G2sRejected(d)
  BY Zenon DEF G2sRejected, Stride, Eagerly!Stride, Overruns, Eagerly!Overruns, DdrOff, Eagerly!DdrOff
<1>7. into = G2sInto(d, mem2)
  BY Zenon DEF G2sInto, Selected, Eagerly!Selected, Eagerly!Nests, Nests, DdrOff, Eagerly!DdrOff,
     Grid, Eagerly!Grid, CopyRows, Eagerly!CopyRows, PutRow, Eagerly!PutRow, FoldLeft, Eagerly!FoldLeft,
     MapThenFoldSet, Eagerly!MapThenFoldSet, Max, Eagerly!Max
<1> HIDE DEF mem1, mem2, rejected, into
<1> QED
  BY <1>2, <1>3, <1>4, <1>5, <1>6, <1>7, SameQueue

S2sInto(d, mem2) ==
  SpreadRows(mem2, IF d.tmu \in Nests THEN d.tmu ELSE 0, staging.op3.hi,
             [i \in 1 .. d.h |-> WrappedRow(d, d.dst, staging.op3.lo, i)])

LEMMA S2sMaps ==
  ASSUME EagerInv, CreditTypeOK', NEW d, mcast_s2s(d)
  PROVE  Eagerly!mcast_s2s(d)
<1>1. HardBoundary
  BY DEF mcast_s2s
<1>2. /\ Eagerly!HardBoundary
      /\ ReplayedL1 = AtBoundary(l1, DrainedL1) /\ ReplayedL2 = AtBoundary(l2, DrainedL2)
      /\ ReplayedL1' = l1' /\ ReplayedL2' = l2'
  BY <1>1, BoundaryMaps
<1>3. /\ halted' = (d.len = 0)
      /\ l1' = AtBoundary(l1, DrainedL1)
      /\ l2' = IF d.len = 0 THEN AtBoundary(l2, DrainedL2) ELSE S2sInto(d, AtBoundary(l2, DrainedL2))
      /\ UNCHANGED <<lspr, l0, ddr, deferred_ddr_stores>> /\ ClearStaging
  BY Zenon DEF mcast_s2s, S2sInto
<1> DEFINE mem1 == Eagerly!AtBoundary(ReplayedL1, Eagerly!DrainedL1)
           mem2 == Eagerly!AtBoundary(ReplayedL2, Eagerly!DrainedL2)
           into == Eagerly!SpreadRows(mem2, IF d.tmu \in Eagerly!Nests THEN d.tmu ELSE 0, staging.op3.hi,
                     [i \in 1 .. d.h |-> Eagerly!WrappedRow(d, d.dst, staging.op3.lo, i)])
<1>4. Eagerly!mcast_s2s(d) <=>
        /\ Eagerly!HardBoundary
        /\ halted' = (d.len = 0)
        /\ ReplayedL1' = mem1
        /\ ReplayedL2' = IF d.len = 0 THEN mem2 ELSE into
        /\ UNCHANGED <<lspr, l0, ddr, deferred_ddr_stores>> /\ Eagerly!ClearStaging
  BY Zenon DEF Eagerly!mcast_s2s
<1>5. mem1 = ReplayedL1 /\ mem2 = ReplayedL2
  BY NeverBuffers
<1>6. into = S2sInto(d, mem2)
  BY Zenon DEF S2sInto, Selected, Eagerly!Selected, Eagerly!Nests, Nests, WrappedRow, Eagerly!WrappedRow,
     SpreadRows, Eagerly!SpreadRows, SpreadRow, Eagerly!SpreadRow, PutRow, Eagerly!PutRow,
     FoldLeft, Eagerly!FoldLeft, MapThenFoldSet, Eagerly!MapThenFoldSet, Max, Eagerly!Max, Min, Eagerly!Min
<1> HIDE DEF mem1, mem2, into
<1> QED
  BY <1>2, <1>3, <1>4, <1>5, <1>6, SameQueue

(* copy.mem: its destination, and whether each of its sides is DDR. *)
CopyDst == staging.op3.lo
CopyDstStride(d) == d.dst_st + 65536 * staging.op3.hi
CopyTouches(d) == d.len > 0 /\ (d.src >= L2Size \/ CopyDst >= L2Size)

CopyMemRejected(d, dst_st) ==
  \/ d.len = 0
  \/ CopyTouches(d) /\ FlushFails
  \/ d.src >= L2Size /\ Overruns(DdrOff(d.src), d.st, d.h, d.len)
  \/ CopyDst >= L2Size /\ Overruns(DdrOff(CopyDst), dst_st, d.h, d.len)
  \/ CopyDst >= L2Size /\ ~(d.src >= L2Size)

CopyMemDdr(d, dst_st, mem0) ==
  MoveRows(mem0, Grid(DdrOff(CopyDst), dst_st, DdrOff(d.src), d.st, d.h, d.len))

CopyMemL2(d, dst_st, mem2, mem0) ==
  [mem2 EXCEPT ![nest] =
    IF d.src >= L2Size
    THEN CopyRows(@, mem0, [i \in 1 .. d.h |-> IncomingRow(d, CopyDst, dst_st, i)])
    ELSE MoveRows(@, [i \in 1 .. d.h |-> WrappedRow(d, CopyDst, dst_st, i)])]

LEMMA CopyMemMaps ==
  ASSUME EagerInv, CreditTypeOK', NEW d, copy_mem(d)
  PROVE  Eagerly!copy_mem(d)
<1> DEFINE Committing(mem2) == IF CopyTouches(d) THEN Flushed(mem2) ELSE ddr
<1>1. HardBoundary
  BY DEF copy_mem
<1>2. /\ Eagerly!HardBoundary
      /\ ReplayedL1 = AtBoundary(l1, DrainedL1) /\ ReplayedL2 = AtBoundary(l2, DrainedL2)
      /\ ReplayedL1' = l1' /\ ReplayedL2' = l2'
  BY <1>1, BoundaryMaps
<1>3. /\ l1' = AtBoundary(l1, DrainedL1)
      /\ halted' = CopyMemRejected(d, CopyDstStride(d))
      /\ deferred_ddr_stores' = IF CopyTouches(d) /\ ~FlushFails THEN <<>> ELSE deferred_ddr_stores
      /\ ddr' = IF CopyMemRejected(d, CopyDstStride(d)) \/ ~(CopyDst >= L2Size) THEN Committing(AtBoundary(l2, DrainedL2))
                ELSE CopyMemDdr(d, CopyDstStride(d), Committing(AtBoundary(l2, DrainedL2)))
      /\ l2' = IF CopyMemRejected(d, CopyDstStride(d)) \/ CopyDst >= L2Size THEN AtBoundary(l2, DrainedL2)
               ELSE CopyMemL2(d, CopyDstStride(d), AtBoundary(l2, DrainedL2), Committing(AtBoundary(l2, DrainedL2)))
      /\ UNCHANGED <<lspr, l0>> /\ ClearStaging
  BY DEF copy_mem, CopyMemRejected, CopyMemDdr, CopyMemL2, CopyTouches, CopyDst, CopyDstStride
<1> DEFINE mem1 == Eagerly!AtBoundary(ReplayedL1, Eagerly!DrainedL1)
           mem2 == Eagerly!AtBoundary(ReplayedL2, Eagerly!DrainedL2)
           dst == staging.op3.lo
           dst_st == d.dst_st + 65536 * staging.op3.hi
           touchesDdr == d.len > 0 /\ (d.src >= L2Size \/ dst >= L2Size)
           rejected == \/ d.len = 0
                       \/ touchesDdr /\ Eagerly!FlushFails
                       \/ d.src >= L2Size /\ Eagerly!Overruns(Eagerly!DdrOff(d.src), d.st, d.h, d.len)
                       \/ dst >= L2Size /\ Eagerly!Overruns(Eagerly!DdrOff(dst), dst_st, d.h, d.len)
                       \/ dst >= L2Size /\ ~(d.src >= L2Size)
           committed == IF touchesDdr THEN Eagerly!Flushed(mem2) ELSE ddr
           toDdr == Eagerly!MoveRows(committed,
                      Eagerly!Grid(Eagerly!DdrOff(dst), dst_st, Eagerly!DdrOff(d.src), d.st, d.h, d.len))
           toL2 == [mem2 EXCEPT ![Eagerly!nest] =
                     IF d.src >= L2Size
                     THEN Eagerly!CopyRows(@, committed, [i \in 1 .. d.h |-> Eagerly!IncomingRow(d, dst, dst_st, i)])
                     ELSE Eagerly!MoveRows(@, [i \in 1 .. d.h |-> Eagerly!WrappedRow(d, dst, dst_st, i)])]
<1>4. Eagerly!copy_mem(d) <=>
        /\ Eagerly!HardBoundary
        /\ ReplayedL1' = mem1
        /\ halted' = rejected
        /\ deferred_ddr_stores' = IF touchesDdr /\ ~Eagerly!FlushFails THEN <<>> ELSE deferred_ddr_stores
        /\ ddr' = IF rejected \/ ~(dst >= L2Size) THEN committed ELSE toDdr
        /\ ReplayedL2' = IF rejected \/ dst >= L2Size THEN mem2 ELSE toL2
        /\ UNCHANGED <<lspr, l0>> /\ Eagerly!ClearStaging
  BY DEF Eagerly!copy_mem
<1>5. dst_st = CopyDstStride(d) /\ dst = CopyDst
  BY DEF CopyDstStride, CopyDst
<1> HIDE DEF dst_st
<1>6. mem1 = ReplayedL1 /\ mem2 = ReplayedL2
  BY NeverBuffers
<1>7. touchesDdr = CopyTouches(d)
  BY DEF CopyTouches, CopyDst
<1>8. rejected = CopyMemRejected(d, dst_st)
  BY SameQueue, Zenon DEF CopyMemRejected, CopyTouches, CopyDst, Overruns, Eagerly!Overruns,
     DdrOff, Eagerly!DdrOff, FlushFails, Eagerly!FlushFails, Uncommittable, Eagerly!Uncommittable
<1>9. committed = Committing(mem2)
  BY SameFlushed, Zenon DEF CopyTouches, CopyDst
<1>10. ASSUME NEW mem0
       PROVE  Eagerly!MoveRows(mem0, Eagerly!Grid(Eagerly!DdrOff(dst), dst_st, Eagerly!DdrOff(d.src), d.st, d.h, d.len))
                = CopyMemDdr(d, dst_st, mem0)
  BY Zenon DEF CopyMemDdr, CopyDst, DdrOff, Eagerly!DdrOff, Grid, Eagerly!Grid,
     MoveRows, Eagerly!MoveRows, PutRow, Eagerly!PutRow, FoldLeft, Eagerly!FoldLeft,
     MapThenFoldSet, Eagerly!MapThenFoldSet, Max, Eagerly!Max
<1>11. ASSUME NEW x, NEW mem0
       PROVE  [x EXCEPT ![Eagerly!nest] =
                     IF d.src >= L2Size
                     THEN Eagerly!CopyRows(@, mem0, [i \in 1 .. d.h |-> Eagerly!IncomingRow(d, dst, dst_st, i)])
                     ELSE Eagerly!MoveRows(@, [i \in 1 .. d.h |-> Eagerly!WrappedRow(d, dst, dst_st, i)])]
                = CopyMemL2(d, dst_st, x, mem0)
  BY Zenon DEF CopyMemL2, CopyDst, Eagerly!nest, nest, Eagerly!is_ploop, is_ploop,
     IncomingRow, Eagerly!IncomingRow, WrappedRow, Eagerly!WrappedRow, Min, Eagerly!Min,
     DdrOff, Eagerly!DdrOff, CopyRows, Eagerly!CopyRows, MoveRows, Eagerly!MoveRows, PutRow, Eagerly!PutRow,
     FoldLeft, Eagerly!FoldLeft, MapThenFoldSet, Eagerly!MapThenFoldSet, Max, Eagerly!Max
<1>12. mem2 = AtBoundary(l2, DrainedL2) /\ committed = Committing(AtBoundary(l2, DrainedL2))
  BY <1>2, <1>6, <1>9, Zenon
<1> HIDE DEF mem2, committed
<1>13. toDdr = CopyMemDdr(d, dst_st, committed)
  BY <1>10
<1>14. toL2 = CopyMemL2(d, dst_st, mem2, committed)
  BY <1>11
<1> HIDE DEF mem1, rejected, toDdr, toL2, dst, touchesDdr, Committing
<1> QED
  BY <1>2, <1>3, <1>4, <1>5, <1>6, <1>7, <1>8, <1>12, <1>13, <1>14, SameQueue

(* The SVR transfers, given the L1 they find. *)
SvrLoaded(d, mem1) ==
  [l0 EXCEPT ![nest][current_spu][d.reg] =
    [x \in 0 .. (SvrLen - 1) |-> mem1[nest][current_spu][(d.addr % L1Size) + x]]]

SvrStored(d, mem1) ==
  [mem1 EXCEPT ![nest][current_spu] =
    PutRow(@, l0[nest][current_spu][d.reg], [d |-> d.addr % L1Size, s |-> 0, n |-> SvrLen])]

LEMMA LoadSvrMaps ==
  ASSUME EagerInv, CreditTypeOK', NEW d, load_svr(d)
  PROVE  Eagerly!load_svr(d)
<1>1. HardBoundary
  BY DEF load_svr
<1>2. /\ Eagerly!HardBoundary
      /\ ReplayedL1 = AtBoundary(l1, DrainedL1) /\ ReplayedL2 = AtBoundary(l2, DrainedL2)
      /\ ReplayedL1' = l1' /\ ReplayedL2' = l2'
  BY <1>1, BoundaryMaps
<1>3. /\ halted' = SvrRejected(d)
      /\ l0' = IF SvrRejected(d) THEN l0 ELSE SvrLoaded(d, AtBoundary(l1, DrainedL1))
      /\ l1' = AtBoundary(l1, DrainedL1) /\ l2' = AtBoundary(l2, DrainedL2)
      /\ UNCHANGED <<lspr, ddr, deferred_ddr_stores>> /\ ClearStaging
  BY Zenon DEF load_svr, SvrLoaded
<1> DEFINE mem1 == Eagerly!AtBoundary(ReplayedL1, Eagerly!DrainedL1)
           mem2 == Eagerly!AtBoundary(ReplayedL2, Eagerly!DrainedL2)
           loaded == [l0 EXCEPT ![Eagerly!nest][current_spu][d.reg] =
                       [x \in 0 .. (SvrLen - 1) |-> mem1[Eagerly!nest][current_spu][(d.addr % L1Size) + x]]]
<1>4. Eagerly!load_svr(d) <=>
        /\ Eagerly!HardBoundary
        /\ halted' = Eagerly!SvrRejected(d)
        /\ l0' = IF Eagerly!SvrRejected(d) THEN l0 ELSE loaded
        /\ ReplayedL1' = mem1 /\ ReplayedL2' = mem2
        /\ UNCHANGED <<lspr, ddr, deferred_ddr_stores>> /\ Eagerly!ClearStaging
  BY Zenon DEF Eagerly!load_svr
<1>5. mem1 = ReplayedL1 /\ mem2 = ReplayedL2
  BY NeverBuffers
<1>6. Eagerly!SvrRejected(d) = SvrRejected(d)
  BY Zenon DEF SvrRejected, Eagerly!SvrRejected, Spus, Eagerly!Spus
<1>7. loaded = SvrLoaded(d, mem1)
  BY Zenon DEF SvrLoaded, Eagerly!nest, nest, Eagerly!is_ploop, is_ploop
<1> HIDE DEF mem1, mem2, loaded
<1> QED
  BY <1>2, <1>3, <1>4, <1>5, <1>6, <1>7, SameQueue

LEMMA StoreSvrMaps ==
  ASSUME EagerInv, CreditTypeOK', NEW d, store_svr(d)
  PROVE  Eagerly!store_svr(d)
<1>1. HardBoundary
  BY DEF store_svr
<1>2. /\ Eagerly!HardBoundary
      /\ ReplayedL1 = AtBoundary(l1, DrainedL1) /\ ReplayedL2 = AtBoundary(l2, DrainedL2)
      /\ ReplayedL1' = l1' /\ ReplayedL2' = l2'
  BY <1>1, BoundaryMaps
<1>3. /\ halted' = SvrRejected(d)
      /\ l1' = IF SvrRejected(d) THEN AtBoundary(l1, DrainedL1)
               ELSE SvrStored(d, AtBoundary(l1, DrainedL1))
      /\ l2' = AtBoundary(l2, DrainedL2)
      /\ UNCHANGED <<lspr, l0, ddr, deferred_ddr_stores>> /\ ClearStaging
  BY Zenon DEF store_svr, SvrStored
<1> DEFINE mem1 == Eagerly!AtBoundary(ReplayedL1, Eagerly!DrainedL1)
           mem2 == Eagerly!AtBoundary(ReplayedL2, Eagerly!DrainedL2)
           stored == [mem1 EXCEPT ![Eagerly!nest][current_spu] =
                       Eagerly!PutRow(@, l0[Eagerly!nest][current_spu][d.reg],
                                      [d |-> d.addr % L1Size, s |-> 0, n |-> SvrLen])]
<1>4. Eagerly!store_svr(d) <=>
        /\ Eagerly!HardBoundary
        /\ halted' = Eagerly!SvrRejected(d)
        /\ ReplayedL1' = IF Eagerly!SvrRejected(d) THEN mem1 ELSE stored
        /\ ReplayedL2' = mem2
        /\ UNCHANGED <<lspr, l0, ddr, deferred_ddr_stores>> /\ Eagerly!ClearStaging
  BY Zenon DEF Eagerly!store_svr
<1>5. mem1 = ReplayedL1 /\ mem2 = ReplayedL2
  BY NeverBuffers
<1>6. Eagerly!SvrRejected(d) = SvrRejected(d)
  BY Zenon DEF SvrRejected, Eagerly!SvrRejected, Spus, Eagerly!Spus
<1>7. stored = SvrStored(d, mem1)
  BY Zenon DEF SvrStored, Eagerly!nest, nest, Eagerly!is_ploop, is_ploop, PutRow, Eagerly!PutRow
<1> HIDE DEF mem1, mem2, stored
<1> QED
  BY <1>2, <1>3, <1>4, <1>5, <1>6, <1>7, SameQueue

-----------------------------------------------------------------------------
(* Captures: what the buffer holds afterwards replays to what the instruction would have
   left had it been executed at once. *)

(* What an entry does depends on the memories and on its own anchors only. *)
LEMMA OwnAnchors ==
  ASSUME NEW e, NEW b \in Banks, NEW c \in Banks, b.l1 = c.l1, b.l2 = c.l2
  PROVE  Replay(e, b) = Replay(e, c)
<1>1. [b EXCEPT !.addr = e.addr] = [c EXCEPT !.addr = e.addr]
  BY DEF Banks
<1> QED
  BY <1>1, Zenon DEF Replay

LEMMA OneMoreEntry ==
  ASSUME NEW buf, NEW e, NEW b \in Banks, Captured(buf), Captured(Append(buf, e))
  PROVE  ReplayAll(Append(buf, e), b) = Replay(e, ReplayAll(buf, b))
<1> DEFINE n == Len(buf)
           more == Append(buf, e)
<1>1. n \in Nat /\ Len(more) = n + 1 /\ more[n + 1] = e /\ \A i \in 1 .. n : more[i] = buf[i]
  BY DEF Captured
<1>2. PICK acc \in [0 .. n -> Banks] : ReplaySteps(acc, b, buf, n) /\ ReplayAll(buf, b) = acc[n]
  BY <1>1, ReplayChain DEF ReplayUnfolds
<1>3. PICK later \in [0 .. n + 1 -> Banks] :
        ReplaySteps(later, b, more, n + 1) /\ ReplayAll(more, b) = later[n + 1]
  BY <1>1, ReplayChain DEF ReplayUnfolds
<1> HIDE DEF n, more
<1>4. later[0] = acc[0]
  BY <1>2, <1>3 DEF ReplaySteps
<1>5. ASSUME NEW k \in 0 .. n, k + 1 \in 0 .. n, later[k] = acc[k] PROVE later[k + 1] = acc[k + 1]
  <2>1. k + 1 \in 1 .. n /\ k + 1 \in 1 .. n + 1 /\ (k + 1) - 1 = k
    BY <1>1, <1>5
  <2>2. acc[k + 1] = Replay(buf[k + 1], acc[k]) /\ later[k + 1] = Replay(more[k + 1], later[k])
    BY <1>2, <1>3, <2>1 DEF ReplaySteps
  <2> QED
    BY <1>1, <1>5, <2>1, <2>2
<1>6. \A k \in 0 .. n : later[k] = acc[k]
  <2> DEFINE T == {k \in 0 .. n : later[k] = acc[k]}
  <2>1. 0 \in T
    BY <1>1, <1>4
  <2>2. \A k \in T : k + 1 \in 0 .. n => k + 1 \in T
    BY <1>5
  <2>3. 0 .. n \subseteq T
    <3>1. n \in Nat /\ \A k \in 0 .. n - 1 : k \in T => k + 1 \in T
      BY <1>1, <2>2
    <3> HIDE DEF T
    <3> QED
      BY <2>1, <3>1, UpToInduction
  <2> QED
    BY <2>3
<1>7. n + 1 \in 1 .. n + 1 /\ (n + 1) - 1 = n /\ n \in 0 .. n
  BY <1>1
<1>8. later[n + 1] = Replay(more[n + 1], later[n])
  BY <1>3, <1>7 DEF ReplaySteps
<1> QED
  BY <1>1, <1>2, <1>3, <1>6, <1>7, <1>8 DEF more

(* With nothing in the buffer a replay leaves the bank. *)
LEMMA ReplayOfNothing ==
  ASSUME NEW b \in Banks
  PROVE  ReplayAll(<<>>, b) = b
<1>1. Captured(<<>>) /\ Len(<<>>) = 0
  BY DEF Captured
<1>2. PICK acc \in [0 .. 0 -> Banks] : ReplaySteps(acc, b, <<>>, 0) /\ ReplayAll(<<>>, b) = acc[0]
  BY <1>1, ReplayChain DEF ReplayUnfolds
<1> QED
  BY <1>2 DEF ReplaySteps

(* What the eager NPU holds is the replayed bank, put where it belongs. *)
LEMMA ReplayedBank ==
  ASSUME MemoryInv
  PROVE  /\ Replayed \in Banks
         /\ ReplayedL1 = [l1 EXCEPT ![nest][spu] = Replayed.l1]
         /\ ReplayedL2 = [l2 EXCEPT ![nest] = Replayed.l2]
<1>1. nest \in Nests /\ spu \in Spus /\ l1 \in L1s /\ l2 \in L2s
  BY RoutedUnit DEF MemoryInv, ControlTypeOK, MemoryTypeOK, L1s, L2s
<1>2. Bank \in Banks /\ Captured(tloop_buf)
  BY DrainedTypes DEF MemoryInv
<1>3. PICK b \in Banks : b = Bank
  BY <1>2
<1>4. PICK buf : buf = tloop_buf
  OBVIOUS
<1>5. Replayed \in Banks
  <2>1. ReplayAll(buf, b) \in Banks
    BY <1>2, <1>4, ReplayAllType
  <2> QED
    BY <1>3, <1>4, <2>1 DEF Replayed
<1>6. CASE tloop_buf = <<>>
  <2>1. Replayed = Bank
    BY <1>3, <1>6, ReplayOfNothing DEF Replayed
  <2>2. Replayed.l1 = l1[nest][spu] /\ Replayed.l2 = l2[nest]
    BY <2>1 DEF Bank
  <2> QED
    BY <1>1, <1>5, <1>6, <2>2, NothingToReplay DEF L1s, L2s
<1>7. CASE tloop_buf # <<>>
  BY <1>5, <1>7 DEF ReplayedL1, ReplayedL2
<1> QED
  BY <1>6, <1>7

LEMMA CaptureReplays ==
  ASSUME EagerInv, MemoryInv', NEW m, NEW arg, try_buffer(m, arg)
  PROVE  /\ Replayed' = Replay(Entry(m, arg), Replayed)
         /\ Replay(Entry(m, arg), Replayed) = Replay(Entry(m, arg), Eagerly!Bank)
         /\ ReplayedL1' = [ReplayedL1 EXCEPT ![nest][spu] = Replayed'.l1]
         /\ ReplayedL2' = [ReplayedL2 EXCEPT ![nest] = Replayed'.l2]
<1>1. nest \in Nests /\ spu \in Spus /\ l1 \in L1s /\ l2 \in L2s /\ nest' = nest /\ spu' = spu
  <2>1. nest' = nest /\ spu' = spu
    BY DEF try_buffer, warp, nest, spu, is_ploop, is_tloop
  <2> QED
    BY <2>1, RoutedUnit DEF EagerInv, MemoryInv, ControlTypeOK, MemoryTypeOK, L1s, L2s
<1>2. Bank' = Bank /\ l1' = l1 /\ l2' = l2
  BY <1>1 DEF Bank, try_buffer, memory
<1>3. PICK e : e = Entry(m, arg)
  OBVIOUS
<1>4. PICK b \in Banks : b = Bank
  BY DrainedTypes DEF EagerInv
<1>5. PICK buf : buf = tloop_buf
  OBVIOUS
<1>6. tloop_buf' = Append(buf, e) /\ Captured(buf) /\ Captured(Append(buf, e))
  BY <1>3, <1>5 DEF try_buffer, EagerInv, MemoryInv
<1>7. Replayed' = Replay(e, Replayed)
  <2>1. ReplayAll(Append(buf, e), b) = Replay(e, ReplayAll(buf, b))
    BY <1>6, OneMoreEntry
  <2> QED
    BY <1>2, <1>3, <1>4, <1>5, <1>6, <2>1 DEF Replayed
<1>8. Replay(e, Replayed) = Replay(e, Eagerly!Bank)
  <2>1. /\ Replayed \in Banks
        /\ ReplayedL1 = [l1 EXCEPT ![nest][spu] = Replayed.l1]
        /\ ReplayedL2 = [l2 EXCEPT ![nest] = Replayed.l2]
    BY ReplayedBank DEF EagerInv
  <2>2. Eagerly!Bank = [l1 |-> ReplayedL1[nest][spu], l2 |-> ReplayedL2[nest], addr |-> lspr[nest][spu]]
    BY EagerHasDrained
  <2>3. ReplayedL1[nest][spu] = Replayed.l1 /\ ReplayedL2[nest] = Replayed.l2
    BY <1>1, <2>1 DEF L1s, L2s
  <2>4. lspr[nest][spu] \in Anchors
    BY <1>1 DEF EagerInv, MemoryInv, ControlTypeOK, BufferTypeOK
  <2>5. PICK c \in Banks : c = Eagerly!Bank /\ c.l1 = Replayed.l1 /\ c.l2 = Replayed.l2
    BY <2>1, <2>2, <2>3, <2>4 DEF Banks
  <2>6. PICK r \in Banks : r = Replayed
    BY <2>1
  <2> QED
    BY <2>5, <2>6, OwnAnchors
<1>9. tloop_buf' # <<>>
  BY <1>6 DEF Captured
<1>10. ReplayedL1' = [l1 EXCEPT ![nest][spu] = Replayed'.l1] /\ ReplayedL2' = [l2 EXCEPT ![nest] = Replayed'.l2]
  BY <1>1, <1>2, <1>9 DEF ReplayedL1, ReplayedL2
<1>11. /\ ReplayedL1 = [l1 EXCEPT ![nest][spu] = Replayed.l1]
      /\ ReplayedL2 = [l2 EXCEPT ![nest] = Replayed.l2]
  BY ReplayedBank DEF EagerInv
<1>12. /\ ReplayedL1' = [ReplayedL1 EXCEPT ![nest][spu] = Replayed'.l1]
       /\ ReplayedL2' = [ReplayedL2 EXCEPT ![nest] = Replayed'.l2]
  BY <1>1, <1>10, <1>11 DEF L1s, L2s
<1> QED
  BY <1>3, <1>7, <1>8, <1>12

LEMMA CaptureMaps ==
  ASSUME EagerInv, MemoryInv', NEW i \in TLoopInsns, try_buffer(i[1], i[2])
  PROVE  Eagerly!ThreadLoopOps \/ Eagerly!ControlOps
<1> DEFINE m == i[1]
           arg == i[2]
           after == Replay(Entry(m, arg), Eagerly!Bank)
<1>1. /\ Replayed' = after
      /\ ReplayedL1' = [ReplayedL1 EXCEPT ![nest][spu] = after.l1]
      /\ ReplayedL2' = [ReplayedL2 EXCEPT ![nest] = after.l2]
  BY CaptureReplays
<1>2. /\ DrainedLd' = IF m = "credit.ld" THEN [DrainedLd EXCEPT ![nest][spu] = Monus(@, 1)] ELSE DrainedLd
      /\ DrainedSt' = IF m = "credit.st" THEN [DrainedSt EXCEPT ![nest][spu] = @ + 1] ELSE DrainedSt
  BY CaptureCounts DEF EagerInv, MemoryInv, ControlTypeOK
<1>3. /\ is_tloop /\ ~is_sloop /\ spu = current_spu /\ Eagerly!Eager /\ KeepQueue /\ ClearStaging
      /\ UNCHANGED credit_st_deferred
  BY NeverBuffers
     DEF try_buffer, Buffering, is_tloop, is_sloop, spu, Eagerly!Eager, warp, Eagerly!warp, credits, memory, KeepQueue, ClearStaging
<1>4. CASE m \notin {"credit.ld", "credit.st"}
  <2>1. i \in Fw.tdma \cup Fw.vec
    BY <1>4 DEF TLoopInsns
  <2>2. Eagerly!Replay(Eagerly!Entry(m, arg), Eagerly!Bank) = after
    BY SameReplay, SameUnits DEF Entry, Eagerly!Entry
  <2>3. Eagerly!WriteBank(after)
    BY <1>1, SameUnits DEF Eagerly!WriteBank
  <2>4. Eagerly!ExecuteOnBank(m, arg)
    BY <1>2, <1>3, <1>4, <2>2, <2>3, SameQueue DEF Eagerly!ExecuteOnBank, Eagerly!credits
  <2>5. Eagerly!dma_tloop(m, arg) /\ Eagerly!vector_op(m, arg)
    BY <1>3, <2>4, SameUnits DEF Eagerly!dma_tloop, Eagerly!vector_op
  <2> QED
    BY <2>1, <2>5 DEF Eagerly!ThreadLoopOps
<1>5. ASSUME m \in {"credit.ld", "credit.st"}
      PROVE  ReplayedL1' = ReplayedL1 /\ ReplayedL2' = ReplayedL2 /\ m \in Fw.ops
  <2>1. m \in Fw.ops
    BY <1>5, FirmwareAssumption, ElementAssumption DEF TLoopInsns
  <2>2. Eagerly!Bank = [l1 |-> ReplayedL1[nest][spu], l2 |-> ReplayedL2[nest], addr |-> lspr[nest][spu]]
    BY EagerHasDrained
  <2>3. PICK e, b : e = Entry(m, arg) /\ b = Eagerly!Bank
    OBVIOUS
  <2>4. e.mnemonic = m
    BY <2>3 DEF Entry
  <2>5. Replay(e, b) = [b EXCEPT !.addr = e.addr]
    BY <1>5, <2>4, ElementAssumption DEF Replay
  <2>6. after.l1 = ReplayedL1[nest][spu] /\ after.l2 = ReplayedL2[nest]
    BY <2>2, <2>3, <2>5
  <2>7. nest \in Nests /\ spu \in Spus /\ ReplayedL1 \in L1s /\ ReplayedL2 \in L2s
    BY RoutedUnit, ReplayedIsDrained, DrainedTypes DEF EagerInv, MemoryInv, ControlTypeOK
  <2> HIDE DEF after
  <2> QED
    BY <1>1, <2>1, <2>6, <2>7 DEF L1s, L2s
<1>6. CASE m = "credit.ld"
  <2>1. Eagerly!credit_ld_op
    BY <1>2, <1>3, <1>5, <1>6, SameUnits, SameQueue, Zenon DEF Eagerly!credit_ld_op, Eagerly!Monus, Monus
  <2> QED
    BY <2>1 DEF Eagerly!ControlOps
<1>7. CASE m = "credit.st"
  <2>1. PICK mask \in Fw.masks : TRUE
    BY <1>5, <1>7, MaskAssumption
  <2>2. DrainedSt[nest][spu] < MaxCredit
    <3>1. nest \in Nests /\ spu \in Spus /\ CreditTypeOK
      BY RoutedUnit DEF EagerInv, MemoryInv, ControlTypeOK
    <3> QED
      BY <1>7, <3>1 DEF try_buffer, DrainedSt, CreditTypeOK
  <2>3. Eagerly!credit_st_op(mask)
    BY <1>2, <1>3, <1>5, <1>7, <2>2, SameUnits, SameQueue DEF Eagerly!credit_st_op
  <2> QED
    BY <1>5, <1>7, <2>1, <2>3 DEF Eagerly!ControlOps
<1> QED
  BY <1>4, <1>6, <1>7

-----------------------------------------------------------------------------
(* Every step of the NPU is a step of the eager one. *)
LEMMA EagerStep ==
  ASSUME EagerInv, MemoryInv', Next
  PROVE  Eagerly!Next
<1>1. CreditTypeOK'
  BY DEF MemoryInv, ControlTypeOK
<1>2. ASSUME Markers PROVE Eagerly!Markers
  BY <1>1, <1>2, MarkersMap
<1>3. ASSUME SharedLoopOps PROVE Eagerly!SharedLoopOps
  <2>1. /\ \A d : sloop_load(d) => Eagerly!sloop_load(d)
        /\ \A d : sloop_store(d) => Eagerly!sloop_store(d)
        /\ \A d : sloop_copy(d) => Eagerly!sloop_copy(d)
        /\ idle_dma => Eagerly!idle_dma
    BY <1>1, LoadMaps, SharedStepsMap, CopyMaps
  <2> QED
    BY <1>3, <2>1 DEF SharedLoopOps, Eagerly!SharedLoopOps
<1>4. ASSUME ThreadLoopOps PROVE Eagerly!ThreadLoopOps \/ Eagerly!ControlOps
  <2>1. ASSUME NEW i \in TLoopInsns, try_buffer(i[1], i[2]) PROVE Eagerly!ThreadLoopOps \/ Eagerly!ControlOps
    BY <2>1, CaptureMaps
  <2>2. ASSUME NEW i \in Fw.tdma, dma_tloop(i[1], i[2]) PROVE Eagerly!ThreadLoopOps
    <3>1. Eagerly!ExecuteOnBank(i[1], i[2])
      BY <1>1, <2>2, ExecuteMaps DEF dma_tloop
    <3> QED
      BY <2>2, <3>1, SameUnits DEF dma_tloop, Eagerly!dma_tloop, Eagerly!ThreadLoopOps
  <2>3. ASSUME NEW i \in Fw.vec, vector_op(i[1], i[2]) PROVE Eagerly!ThreadLoopOps
    <3>1. Eagerly!ExecuteOnBank(i[1], i[2])
      BY <1>1, <2>3, ExecuteMaps DEF vector_op
    <3> QED
      BY <3>1 DEF Eagerly!vector_op, Eagerly!ThreadLoopOps
  <2> QED
    BY <1>4, <2>1, <2>2, <2>3 DEF ThreadLoopOps
<1>5. ASSUME ControlOps PROVE Eagerly!ControlOps
  <2>1. /\ \A slot, word : opset(slot, word) => Eagerly!opset(slot, word)
        /\ \A a, v : wrspr(a, v) => Eagerly!wrspr(a, v)
        /\ rdspr => Eagerly!rdspr
        /\ credit_ld_op => Eagerly!credit_ld_op
        /\ \A mask : credit_st_op(mask) => Eagerly!credit_st_op(mask)
        /\ credit_chk => Eagerly!credit_chk
    BY <1>1, OpsetMaps, SprMaps, CreditOpsMap, CreditChkMaps
  <2> QED
    BY <1>5, <2>1 DEF ControlOps, Eagerly!ControlOps
<1>6. ASSUME MoverOps PROVE Eagerly!MoverOps
  <2>1. /\ \A d : mcast_s2l(d) => Eagerly!mcast_s2l(d)
        /\ \A d : mcast_g2s(d) => Eagerly!mcast_g2s(d)
        /\ \A d : mcast_s2s(d) => Eagerly!mcast_s2s(d)
        /\ \A d : copy_mem(d) => Eagerly!copy_mem(d)
    BY <1>1, S2lMaps, G2sMaps, S2sMaps, CopyMemMaps
  <2> QED
    BY <1>6, <2>1 DEF MoverOps, Eagerly!MoverOps
<1>7. ASSUME SvrOps PROVE Eagerly!SvrOps
  <2>1. /\ \A r, i, v : wrspr_svr(r, i, v) => Eagerly!wrspr_svr(r, i, v)
        /\ \A d : load_svr(d) => Eagerly!load_svr(d)
        /\ \A d : store_svr(d) => Eagerly!store_svr(d)
    BY <1>1, SprMaps, LoadSvrMaps, StoreSvrMaps
  <2> QED
    BY <1>7, <2>1 DEF SvrOps, Eagerly!SvrOps
<1> QED
  BY <1>2, <1>3, <1>4, <1>5, <1>6, <1>7 DEF Next, Eagerly!Next

(* A step that changes nothing changes nothing the eager NPU holds. *)
LEMMA EagerStutter ==
  ASSUME UNCHANGED vars
  PROVE  UNCHANGED Eagerly!vars
<1>1. /\ ReplayedL1' = ReplayedL1 /\ ReplayedL2' = ReplayedL2
      /\ DrainedLd' = DrainedLd /\ DrainedSt' = DrainedSt
  BY Untouched DEF vars, credits, memory
<1> QED
  BY <1>1 DEF vars, warp, credits, memory, Eagerly!vars, Eagerly!warp, Eagerly!credits, Eagerly!memory

LEMMA EagerInit ==
  ASSUME Init
  PROVE  Eagerly!Init
<1>1. CreditTypeOK /\ tloop_buf = <<>>
  BY InitTypes DEF ControlTypeOK, Init
<1>2. ReplayedL1 = l1 /\ ReplayedL2 = l2 /\ DrainedLd = credit_ld /\ DrainedSt = credit_st
  BY <1>1, NothingToReplay, NothingWaits
<1> QED
  BY <1>2, SameUnits, SameCounting DEF Init, Eagerly!Init

(* The buffered and fused NPU implements the NPU without a buffer (GTX_NO_FUSION=1), for
   every topology, memory size, vector operation and firmware, along every behaviour in
   which no run of frames stores where a later frame of it still loads: an instruction has
   the effect it would have had if executed at once, whatever is captured, drained early
   or executed in bulk in between (tloop_buffer.py, npu.py custom0 and custom1). *)
THEOREM FusionImplementsEager == Spec /\ []BulkRunsApart => FusedEqualsEager
<1>1. Init => Eagerly!Init
  BY EagerInit
<1>2. MemoryInv /\ MemoryInv' /\ PendingFramesCoherent /\ DrainIsReplay /\ [Next]_vars
        => [Eagerly!Next]_(Eagerly!vars)
  BY EagerStep, EagerStutter DEF EagerInv
<1>3. Spec => []MemoryInv /\ []PendingFramesCoherent /\ [](BulkRunsApart => DrainIsReplay)
  BY MemoryInvariant, BufferCoherent, DrainFaithful
<1> QED
  BY <1>1, <1>2, <1>3, PTL DEF Spec, FusedEqualsEager, Eagerly!Spec

(* For a fusable firmware that is every behaviour. *)
THEOREM FusableImplementsEager == Fusable(Fw) => (Spec => FusedEqualsEager)
<1> SUFFICES ASSUME Fusable(Fw) PROVE Spec => FusedEqualsEager
  OBVIOUS
<1>1. MemoryInv => BulkRunsApart
  <2> SUFFICES ASSUME MemoryInv PROVE BulkRunsApart
    OBVIOUS
  <2>1. PICK buf : buf = tloop_buf
    OBVIOUS
  <2>2. PICK b : b = Bank
    OBVIOUS
  <2>3. Captured(buf)
    BY <2>1 DEF MemoryInv
  <2>4. RunsApart(buf, b)
    BY <2>3, FusableRunsApart
  <2> QED
    BY <2>1, <2>2, <2>4 DEF BulkRunsApart
<1> QED
  BY <1>1, MemoryInvariant, FusionImplementsEager, PTL
=============================================================================
