----------------------------- MODULE TLoopBuffer -----------------------------
(***************************************************************************)
(* The T-loop instruction buffer of the GTX NPU, as pure operators:        *)
(* context/custom1/tloop_buffer.py and the handlers it replays.            *)
(*                                                                         *)
(* Inside start.t .. end.t the load, vector and store instructions of the  *)
(* firmware's inner loop are not executed: their operands are snapshotted  *)
(* into a TLoopEntry each.  A flush replays them in order, or, where two   *)
(* or more consecutive (load, unary, store) frames have the same shape,    *)
(* executes the whole run of frames as one bulk operation.                 *)
(*                                                                         *)
(* A bank is what a T-loop instruction can touch: [l1, l2, addr], the L1   *)
(* of the current SPU, the L2 of the current NEST and the operand anchors  *)
(* SPM_ADDRA, SPM_ADDRB, SPM_ADDRR of that SPU (a record [a, b, r]).       *)
(* OPERAND2 staging and SPM_ADDRC are left out; no buffered instruction    *)
(* that is modelled touches the L0 registers.                              *)
(***************************************************************************)
EXTENDS DmaRows

CONSTANTS
  Zero,      \* the element a cleared memory holds
  UnaryOps,  \* the element-wise unary mnemonics ("abs.v", "neg.v", ...)
  UnaryFn,   \* what each unary mnemonic does to one element
  ArithFn    \* what the vector arithmetic does to a pair of elements

BUFFERABLE_MNEMONICS ==
  {"load", "store", "copy", "add.vv", "add.vs", "credit.ld", "credit.st"} \cup UnaryOps

(* rs4 staging word (OPERAND5): bits 8:7 equal to 2 force the scalar operand to zero. *)
ScalarOperand(rs2, op5) == IF (op5 \div 128) % 4 = 2 THEN Zero ELSE rs2

-----------------------------------------------------------------------------
(* The C3 branch of the bufferable handlers, on a bank. *)

TLoad(d, b) ==
  [b EXCEPT !.l1 = CopyRows(@, b.l2, Grid(d.lo, d.len, d.hi, d.st, d.h, d.len))]

TStore(d, b) ==
  [b EXCEPT !.l2 = CopyRows(@, b.l1, Grid(d.hi, d.st, d.lo, d.len, d.h, d.len))]

TCopy(d, b) == [b EXCEPT !.l1 = MoveWrapped(@, d.hi, d.lo, d.h * d.len)]

(* A vector handler reads its whole operands, then writes n elements at SPM_ADDRR. *)
Vector(b, n, Elem(_)) ==
  LET r == b.addr.r
  IN [b EXCEPT !.l1 = [x \in DOMAIN @ |->
        IF x \in r .. (r + n - 1) THEN Elem(x - r) ELSE @[x]]]

UnaryV(f, v, b) == Vector(b, v.n, LAMBDA i : UnaryFn[f][b.l1[b.addr.a + i]])

ArithVV(v, b) ==
  Vector(b, v.n, LAMBDA i : ArithFn[<<b.l1[b.addr.a + i], b.l1[b.addr.b + i]>>])

ArithVS(v, op5, b) ==
  Vector(b, v.n, LAMBDA i : ArithFn[<<b.l1[b.addr.a + i], ScalarOperand(v.rs2, op5)>>])

(* One entry through its handler, with its snapshotted anchors and staging words.
   The two credit handlers touch no memory: Credits in GtxNpu counts them. *)
Replay(e, bank) ==
  LET b == [bank EXCEPT !.addr = e.addr]
      m == e.mnemonic
  IN CASE m = "load"     -> TLoad(e.arg, b)
       [] m = "store"    -> TStore(e.arg, b)
       [] m = "copy"     -> TCopy(e.arg, b)
       [] m = "add.vv"   -> ArithVV(e.arg, b)
       [] m = "add.vs"   -> ArithVS(e.arg, e.op5, b)
       [] m \in UnaryOps -> UnaryV(m, e.arg, b)
       [] OTHER          -> b

ReplayAll(buf, b) == FoldLeft(LAMBDA x, e : Replay(e, x), b, buf)

-----------------------------------------------------------------------------
(* Frame fusion. *)

(* The (load, [credit.ld], unary, store, [credit.st]) frame that starts at entry i:
   the positions of its parts and the position after it. *)
ParseFrame(buf, i) ==
  LET At(j, M) == j \in DOMAIN buf /\ buf[j].mnemonic \in M
      vec == IF At(i + 1, {"credit.ld"}) THEN i + 2 ELSE i + 1
  IN [ok   |-> At(i, {"load"}) /\ At(vec, UnaryOps) /\ At(vec + 1, {"store"}),
      load |-> i, vec |-> vec, store |-> vec + 1,
      end  |-> IF At(vec + 2, {"credit.st"}) THEN vec + 3 ELSE vec + 2]

(* What must agree between the frames of a run: everything but the two L2 offsets; of
   OPERAND3 only the stride in its low half. *)
FrameSignature(buf, f) ==
  LET Shape(e) == <<e.arg.lo, e.arg.h, e.arg.len, e.arg.st, e.op3.lo>>
  IN <<Shape(buf[f.load]), Shape(buf[f.store]), buf[f.vec].mnemonic, buf[f.vec].arg>>

(* The longest run of frames from entry i on that have the signature of the first. *)
FrameRun(buf, i) ==
  LET f0 == ParseFrame(buf, i)
      Matches(f) == f.ok /\ FrameSignature(buf, f) = FrameSignature(buf, f0)
      run[c \in 1 .. (Len(buf) + 1)] ==
        LET f == ParseFrame(buf, c)
        IN IF Matches(f) THEN <<f>> \o run[f.end] ELSE <<>>
  IN IF f0.ok THEN run[i] ELSE <<>>

(* Mutant: the bulk path without the check of the L1 anchors. *)
ContiguousAnyAnchor(buf, run, b) ==
  LET load(k)  == buf[run[k].load].arg
      store(k) == buf[run[k].store].arg
      n == buf[run[1].vec].arg.n
  IN /\ load(1).h = 1
     /\ load(1).len = n
     /\ \A k \in DOMAIN run : /\ load(k).hi = load(1).hi + (k - 1) * n
                              /\ store(k).hi = store(1).hi + (k - 1) * n

(* The guard of the bulk path: height-1 rows as long as the vector, both L2 windows
   advancing by exactly one row per frame, and the vector's live L1 anchors at the
   load's destination and the store's source.  The store's own length and height and
   the distance between the two L2 windows are not looked at. *)
Contiguous(buf, run, b) ==
  LET load(k)  == buf[run[k].load].arg
      store(k) == buf[run[k].store].arg
      n == buf[run[1].vec].arg.n
  IN /\ load(1).h = 1
     /\ load(1).len = n
     /\ b.addr.a = load(1).lo
     /\ b.addr.r = store(1).lo
     /\ \A k \in DOMAIN run : /\ load(k).hi = load(1).hi + (k - 1) * n
                              /\ store(k).hi = store(1).hi + (k - 1) * n

(* The bulk path: read every source row, apply the unary once, write every result row;
   the last input and the last output are what the frames leave in L1. *)
Bulk(buf, run, b) ==
  LET load  == buf[run[1].load].arg
      store == buf[run[1].store].arg
      vec   == buf[run[1].vec]
      n     == vec.arg.n
      total == Len(run) * n
      last  == total - n
      out   == [o \in 0 .. (total - 1) |-> UnaryFn[vec.mnemonic][b.l2[load.hi + o]]]
      withIn == PutRow(b.l1, b.l2, [d |-> load.lo, s |-> load.hi + last, n |-> n])
  IN [b EXCEPT !.l2 = PutRow(@, out, [d |-> store.hi, s |-> 0, n |-> total]),
               !.l1 = PutRow(withIn, out, [d |-> store.lo, s |-> last, n |-> n])]

ExecuteFused(buf, i, run, b) ==
  IF Contiguous(buf, run, b)
  THEN Bulk(buf, run, b)
  ELSE ReplayAll(SubSeq(buf, i, run[Len(run)].end - 1), b)

(* One turn of the drain loop: nothing before the cursor, a whole run of two or more
   frames at it, else one entry. *)
DrainTurn(buf, acc, i) ==
  LET run == FrameRun(buf, i)
  IN IF i < acc.cursor
     THEN acc
     ELSE IF Len(run) >= 2
     THEN [cursor |-> run[Len(run)].end, bank |-> ExecuteFused(buf, i, run, acc.bank)]
     ELSE [cursor |-> i + 1, bank |-> Replay(buf[i], acc.bank)]

(* The drain loop: a cursor walks the buffer. *)
Drain(buf, b) ==
  FoldLeftDomain(LAMBDA acc, i : DrainTurn(buf, acc, i), [cursor |-> 1, bank |-> b], buf).bank

(* How many entries of a mnemonic wait in the buffer. *)
Pending(buf, m) == Cardinality({i \in DOMAIN buf : buf[i].mnemonic = m})
=============================================================================
