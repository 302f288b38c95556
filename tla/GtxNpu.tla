------------------------------- MODULE GtxNpu --------------------------------
(***************************************************************************)
(* The GTX NPU functional model (src/main/python/riscv/gtx): warp control  *)
(* (custom1 markers), the DMA, credit and SPR instructions (custom0), the  *)
(* T-loop instruction buffer and the queue of deferred L2 -> DDR stores.   *)
(*                                                                         *)
(* The simulator is one sequential process: a step is one RoCC instruction *)
(* issued by the firmware, with everything its handler does.  The firmware *)
(* is the environment: it may issue any instruction of the set Fw in any   *)
(* context, which covers every program over those instructions.            *)
(*                                                                         *)
(* CONTEXT: C1 outside a plan, C4 in a plan, C2 in an S-loop (shared, DMA  *)
(* between DDR and L2), C3 in a T-loop (thread, DMA between L2 and L1).    *)
(***************************************************************************)
EXTENDS TLoopBuffer

CONSTANTS
  NestNum, SpuNum,          \* topology: NESTs, and SPUs per NEST
  L1Size, L2Size, DdrSize,  \* elements per SPU, per NEST, and of the system memory
  DdrBase,                  \* DDR_BASE: an address from here on is a DDR offset plus this
  SvrNum, SvrLen,           \* the SVR registers in the L0 of an SPU, and elements in each
  Val,                      \* what one element can hold
  InitL2, InitDdr,          \* the L2 image (same for every NEST) and the DDR image
  FusionEnabled,            \* FALSE models GTX_NO_FUSION=1
  ChkFlush,                 \* TRUE models GTX_CHK_FLUSH=1
  Fw,                       \* the instructions and operands the firmware may issue
  MaxBuf, MaxDeferred, MaxCredit   \* bounds on the buffer, the queue, the counters

Nests == 0 .. (NestNum - 1)
Spus  == 0 .. (SpuNum - 1)
Svrs  == 0 .. (SvrNum - 1)
L0Mem  == [Svrs -> [0 .. (SvrLen - 1) -> Val]]
L1Mem  == [0 .. (L1Size - 1) -> Val]
L2Mem  == [0 .. (L2Size - 1) -> Val]
DdrMem == [0 .. (DdrSize - 1) -> Val]

(* The 64-bit staging word OPERAND3, as its two halves. *)
Words == [lo : Nat, hi : Nat]
(* A decoded DMA operand: its two addresses, its rows, and the stride in rs2.  The
   other stride is the low half of OPERAND3. *)
DmaArgs == [hi : Nat, lo : Nat, len : Nat \ {0}, h : Nat \ {0}, st : Nat]
(* The operands of mcast.s2s and copy.mem: source NEST, source and destination, strides. *)
MoveArgs == [tmu : Nat, src : Nat, dst : Nat, len : Nat, h : Nat \ {0}, st : Nat, dst_st : Nat]
(* The operands of load.svr and store.svr: an L1 address and an SVR register. *)
SvrArgs == [addr : Nat, reg : Svrs]
(* A decoded vector operand: vec_size and the scalar in rs2. *)
VecArgs == [n : Nat, rs2 : Val]
NoArg   == [n |-> 0, rs2 |-> Zero]
Anchors == [a : Nat, b : Nat, r : Nat]

(* The L1 and L2 windows a T-loop DMA accepts without failing an assertion. *)
TLoopWindow(d) ==
  /\ d.lo + d.h * d.len <= L1Size
  /\ IF d.st < d.len THEN d.hi + (d.h - 1) * d.st + d.len <= L2Size
                     ELSE d.hi + d.h * d.st <= L2Size

ASSUME TopologyAssumption == NestNum \in Nat \ {0} /\ SpuNum \in Nat \ {0}

ASSUME SizeAssumption ==
  /\ L1Size \in Nat \ {0} /\ L2Size \in Nat \ {0} /\ DdrSize \in Nat \ {0}
  /\ DdrBase \in Nat /\ L2Size <= DdrBase
  /\ SvrNum \in Nat \ {0} /\ SvrLen \in Nat \ {0}

(* The mnemonics are distinct names, and an operation on elements yields an element. *)
ASSUME ElementAssumption ==
  /\ UnaryOps \cap {"load", "store", "copy", "add.vv", "add.vs", "credit.ld", "credit.st"} = {}
  /\ \A f \in UnaryOps, x \in Val : UnaryFn[f][x] \in Val
  /\ \A x, y \in Val : ArithFn[<<x, y>>] \in Val

ASSUME ImageAssumption == Zero \in Val /\ InitL2 \in L2Mem /\ InitDdr \in DdrMem

ASSUME ModeAssumption == FusionEnabled \in BOOLEAN /\ ChkFlush \in BOOLEAN

ASSUME BoundAssumption == MaxBuf \in Nat /\ MaxDeferred \in Nat /\ MaxCredit \in Nat

(* The firmware's alphabet: ids for the three start markers (also ids no unit has), OPSET
   writes, writes of one anchor or of one element of an SVR, operands per instruction and
   context, and in ops the names of the operand-free instructions it uses. *)
ASSUME FirmwareAssumption ==
  /\ Fw.nest_ids \subseteq Nat /\ Fw.gdmac_ids \subseteq Nat /\ Fw.spu_ids \subseteq Nat
  /\ Fw.op3 \subseteq Words /\ Fw.op5 \subseteq Nat
  /\ Fw.anchors \subseteq {"a", "b", "r"} \X Nat
  /\ Fw.tdma \subseteq {"load", "store", "copy"} \X DmaArgs
  /\ \A i \in Fw.tdma : i[1] # "copy" => TLoopWindow(i[2])
  /\ Fw.vec \subseteq (UnaryOps \cup {"add.vv", "add.vs"}) \X VecArgs
  /\ \A i \in Fw.vec : /\ i[2].n <= L1Size
                        /\ \A w \in Fw.anchors : w[2] + i[2].n <= L1Size
  /\ Fw.sload \subseteq DmaArgs /\ Fw.sstore \subseteq DmaArgs /\ Fw.scopy \subseteq DmaArgs
  /\ Fw.masks \subseteq SUBSET Spus
  /\ Fw.s2l \subseteq DmaArgs /\ Fw.g2s \subseteq DmaArgs
  /\ Fw.s2s \subseteq MoveArgs /\ Fw.copymem \subseteq MoveArgs
  /\ Fw.wsvr \subseteq Svrs \X (0 .. (SvrLen - 1)) \X Val
  /\ Fw.lsvr \subseteq SvrArgs /\ Fw.ssvr \subseteq SvrArgs

(* Every credit.st carries a mask, also the thread's, which ignores it. *)
ASSUME MaskAssumption == "credit.st" \in Fw.ops => Fw.masks # {}

-----------------------------------------------------------------------------
VARIABLES
  CONTEXT,              \* "C1", "C2", "C3" or "C4"
  current_nest,         \* set by start.p
  current_spu,          \* set by start.t (SPU id) or start.s (GDMAC id)
  wsplit_seen,          \* has a WSPLIT been issued in this process?
  armed,                \* _tloop_buf is a list, not None
  tloop_buf,            \* the entries of that list
  staging,              \* OPERAND3 / OPERAND5, the OPSET staging words
  lspr,                 \* the SPM_ADDR* anchors, per NEST and SPU
  deferred_ddr_stores,  \* FIFO of S-loop stores not yet committed
  credit_ld, credit_st, \* credit counters, per NEST and SPU
  credit_st_deferred,   \* credit.st decrements waiting for the plan boundary
  l0,                   \* the SVR register file, per NEST and SPU
  l1, l2, ddr,          \* the memories
  halted                \* an assertion or exception ended the simulation

memory  == <<l0, l1, l2, ddr>>
credits == <<credit_ld, credit_st, credit_st_deferred>>
warp    == <<CONTEXT, current_nest, current_spu, wsplit_seen>>
vars == <<warp, armed, tloop_buf, staging, lspr, deferred_ddr_stores, credits, memory, halted>>

is_ploop == CONTEXT # "C1"
is_sloop == CONTEXT = "C2"
is_tloop == CONTEXT = "C3"

(* Mutant: the SPU of the last start marker, whatever the context. *)
StaleSpu == current_spu

(* The NEST and SPU an instruction acts on in the current context. *)
nest == IF is_ploop THEN current_nest ELSE 0
spu  == IF is_tloop THEN current_spu ELSE 0

NoStaging == [op3 |-> [lo |-> 0, hi |-> 0], op5 |-> 0]
PerSpu(x) == [m \in Nests |-> [s \in Spus |-> x]]
(* Mutant: a counter that is not clamped at zero. *)
Unclamped(a, b) == a - b

Monus(a, b) == IF b > a THEN 0 ELSE a - b

TLoopEntries ==
  [mnemonic : BUFFERABLE_MNEMONICS, arg : DmaArgs \cup VecArgs,
   op3 : Words, op5 : Nat, addr : Anchors]

DeferredDdrStores ==
  [nest : Nests, l2_off : Nat, ddr_off : Nat, length : Nat \ {0}, height : Nat \ {0},
   l2_stride : Nat, ddr_stride : Nat]

Init ==
  /\ CONTEXT = "C1" /\ current_nest = 0 /\ current_spu = 0 /\ wsplit_seen = FALSE
  /\ armed = FALSE /\ tloop_buf = <<>>
  /\ staging = NoStaging
  /\ lspr = PerSpu([a |-> 0, b |-> 0, r |-> 0])
  /\ deferred_ddr_stores = <<>>
  /\ credit_ld = PerSpu(0) /\ credit_st = PerSpu(0) /\ credit_st_deferred = PerSpu(0)
  /\ l0 = PerSpu([v \in Svrs |-> [x \in 0 .. (SvrLen - 1) |-> Zero]])
  /\ l1 = PerSpu([x \in 0 .. (L1Size - 1) |-> Zero])
  /\ l2 = [m \in Nests |-> InitL2]
  /\ ddr = InitDdr
  /\ halted = FALSE

-----------------------------------------------------------------------------
(* The T-loop buffer: try_buffer captures, flush drains on the owner's memories. *)

Buffering == armed /\ is_tloop

Bank == [l1 |-> l1[nest][spu], l2 |-> l2[nest], addr |-> lspr[nest][spu]]

Drained == IF tloop_buf = <<>> THEN Bank ELSE Drain(tloop_buf, Bank)

(* Mutant: the result reaches every SPU of the NEST. *)
BroadcastBank(b) ==
  /\ l1' = [l1 EXCEPT ![nest] = [s \in Spus |-> b.l1]]
  /\ l2' = [l2 EXCEPT ![nest] = b.l2]

WriteBank(b) ==
  /\ l1' = [l1 EXCEPT ![nest][spu] = b.l1]
  /\ l2' = [l2 EXCEPT ![nest] = b.l2]

DrainedL1 == [l1 EXCEPT ![nest][spu] = Drained.l1]
DrainedL2 == [l2 EXCEPT ![nest] = Drained.l2]
DrainedLd == [credit_ld EXCEPT ![nest][spu] = Monus(@, Pending(tloop_buf, "credit.ld"))]
DrainedSt == [credit_st EXCEPT ![nest][spu] = @ + Pending(tloop_buf, "credit.st")]

(* Mutant: a marker discards the buffer. *)
DiscardingMarker ==
  /\ ~halted
  /\ tloop_buf' = <<>>
  /\ UNCHANGED <<credit_ld, lspr, l0, l1, l2>>

(* custom1: every marker drains the buffer first, still in the old context. *)
Marker ==
  /\ ~halted
  /\ tloop_buf' = <<>>
  /\ credit_ld' = DrainedLd
  /\ UNCHANGED <<lspr, l0>>
  /\ WriteBank(Drained)

(* custom0: what an instruction that is neither bufferable nor transparent finds. *)
AtBoundary(live, drained) == IF Buffering THEN drained ELSE live

(* Mutant: the instruction runs with the buffer still pending. *)
SoftBoundary ==
  /\ ~halted
  /\ UNCHANGED <<tloop_buf, credit_ld, credit_st, warp, armed, credit_st_deferred>>

HardBoundary ==
  /\ ~halted
  /\ tloop_buf' = AtBoundary(tloop_buf, <<>>)
  /\ credit_ld' = AtBoundary(credit_ld, DrainedLd)
  /\ credit_st' = AtBoundary(credit_st, DrainedSt)
  /\ UNCHANGED <<warp, armed, credit_st_deferred>>

(* The staging words last for one instruction; an exception skips the clearing. *)
ClearStaging == staging' = IF halted' THEN staging ELSE NoStaging

-----------------------------------------------------------------------------
(* The deferred-store queue. *)

(* Mutant: every address is taken to be above DDR_BASE. *)
DdrOffUnguarded(addr) == addr - DdrBase

DdrOff(addr) == IF addr >= DdrBase THEN addr - DdrBase ELSE addr

(* ensure_ddr: a window that ends beyond the DDR raises ValueError. *)
Overruns(off, stride, h, len) == off + (h - 1) * stride + len > DdrSize

Uncommittable(r) == Overruns(r.ddr_off, r.ddr_stride, r.height, r.length)

(* The rows of one queued store: the L2 address wraps, the row is cut at both ends. *)
StoreRows(r) ==
  [i \in 1 .. r.height |->
    LET d == r.ddr_off + (i - 1) * r.ddr_stride
        s == (r.l2_off + (i - 1) * r.l2_stride) % L2Size
    IN [d |-> d, s |-> s, n |-> Min({r.length, DdrSize - d, L2Size - s})]]

(* flush_deferred_ddr_stores in issue order, up to the first store that raises. *)
FlushFails == \E i \in DOMAIN deferred_ddr_stores : Uncommittable(deferred_ddr_stores[i])

(* Mutants: the queue is committed last store first, or without its last store. *)
FlushedLastFirst(mem2) ==
  FoldLeft(LAMBDA m, r : CopyRows(m, mem2[r.nest], StoreRows(r)),
           ddr, Reverse(deferred_ddr_stores))

FlushedButLast(mem2) ==
  FoldLeft(LAMBDA m, r : CopyRows(m, mem2[r.nest], StoreRows(r)),
           ddr, Front(deferred_ddr_stores))

Flushed(mem2) ==
  LET bad == SelectInSeq(deferred_ddr_stores, Uncommittable)
      upTo == IF bad = 0 THEN Len(deferred_ddr_stores) ELSE bad - 1
  IN FoldLeft(LAMBDA m, r : CopyRows(m, mem2[r.nest], StoreRows(r)),
              ddr, SubSeq(deferred_ddr_stores, 1, upTo))

(* Mutant: a flush that does not clear the queue. *)
FlushWithoutClear(mem2) ==
  /\ ddr' = Flushed(mem2)
  /\ halted' = FlushFails
  /\ UNCHANGED deferred_ddr_stores

(* A flush in the course of an instruction that leaves mem2 in L2; the queue is cleared
   only when every store went through. *)
FlushQueue(mem2) ==
  /\ ddr' = Flushed(mem2)
  /\ deferred_ddr_stores' = IF FlushFails THEN deferred_ddr_stores ELSE <<>>
  /\ halted' = FlushFails

KeepQueue == UNCHANGED <<ddr, deferred_ddr_stores, halted>>

(* The extent of a strided L2 window, as flush_deferred_if_l2_overlap bounds it. *)
Extent(off, stride, h, len) == off .. (off + (h - 1) * stride + len - 1)

(* Mutant: only the first row of the pending store is looked at. *)
HitsFirstRow(window) ==
  \E i \in DOMAIN deferred_ddr_stores :
    LET r == deferred_ddr_stores[i]
    IN r.nest = nest /\ Extent(r.l2_off, r.l2_stride, 1, r.length) \cap window # {}

(* Is the L2 source of a store this NEST still has to commit touched by the window? *)
HitsPendingSource(window) ==
  \E i \in DOMAIN deferred_ddr_stores :
    LET r == deferred_ddr_stores[i]
    IN /\ r.nest = nest
       /\ Extent(r.l2_off, r.l2_stride, r.height, r.length) \cap window # {}

-----------------------------------------------------------------------------
(* custom1: the warp markers. *)

startp(id) ==
  /\ id \in Nests
  /\ current_nest' = id /\ CONTEXT' = "C4"
  /\ Marker
  /\ credit_st' = DrainedSt
  /\ KeepQueue /\ ClearStaging
  /\ UNCHANGED <<current_spu, wsplit_seen, armed, credit_st_deferred>>

starts(id) ==
  /\ id \in Nests
  /\ current_spu' = id /\ CONTEXT' = "C2"
  /\ Marker
  /\ credit_st' = DrainedSt
  /\ KeepQueue /\ ClearStaging
  /\ UNCHANGED <<current_nest, wsplit_seen, armed, credit_st_deferred>>

ends ==
  /\ CONTEXT' = "C4"
  /\ Marker
  /\ credit_st' = DrainedSt
  /\ KeepQueue /\ ClearStaging
  /\ UNCHANGED <<current_nest, current_spu, wsplit_seen, armed, credit_st_deferred>>

startt(id) ==
  /\ id \in Spus
  /\ current_spu' = id /\ CONTEXT' = "C3"
  /\ armed' = FusionEnabled
  /\ Marker
  /\ credit_st' = DrainedSt
  /\ KeepQueue /\ ClearStaging
  /\ UNCHANGED <<current_nest, wsplit_seen, credit_st_deferred>>

endt ==
  /\ CONTEXT' = "C4" /\ armed' = FALSE
  /\ Marker
  /\ credit_st' = DrainedSt
  /\ KeepQueue /\ ClearStaging
  /\ UNCHANGED <<current_nest, current_spu, wsplit_seen, credit_st_deferred>>

(* The assertion in a start marker on an id that no NEST or no SPU has. *)
badid(id, Units) ==
  /\ id \notin Units
  /\ halted' = TRUE
  /\ Marker
  /\ credit_st' = DrainedSt
  /\ UNCHANGED <<warp, armed, staging, credit_st_deferred, ddr, deferred_ddr_stores>>

(* Mutants: the decrements stay deferred, or only those of the current NEST are applied. *)
SettleWithoutReset(st) ==
  /\ credit_st' = [m \in Nests |-> [s \in Spus |-> Monus(st[m][s], credit_st_deferred[m][s])]]
  /\ UNCHANGED credit_st_deferred

SettleOneNest(st) ==
  /\ credit_st' = [st EXCEPT ![nest] =
                     [s \in Spus |-> Monus(@[s], credit_st_deferred[nest][s])]]
  /\ credit_st_deferred' = PerSpu(0)

(* apply_deferred_st: settle the S-loop credit.st decrements of every NEST. *)
Settle(st) ==
  /\ credit_st' = [m \in Nests |-> [s \in Spus |-> Monus(st[m][s], credit_st_deferred[m][s])]]
  /\ credit_st_deferred' = PerSpu(0)

endp ==
  /\ CONTEXT' = "C1"
  /\ Marker
  /\ Settle(DrainedSt)
  /\ IF wsplit_seen THEN KeepQueue ELSE FlushQueue(l2')
  /\ ClearStaging
  /\ UNCHANGED <<current_nest, current_spu, wsplit_seen, armed>>

split ==
  /\ "split" \in Fw.ops
  /\ wsplit_seen' = TRUE
  /\ Marker
  /\ credit_st' = DrainedSt
  /\ KeepQueue /\ ClearStaging
  /\ UNCHANGED <<CONTEXT, current_nest, current_spu, armed, credit_st_deferred>>

join ==
  /\ "join" \in Fw.ops
  /\ Marker
  /\ Settle(DrainedSt)
  /\ FlushQueue(l2')
  /\ ClearStaging
  /\ UNCHANGED <<warp, armed>>

-----------------------------------------------------------------------------
(* custom0: OPSET, SPR access and credits. *)

(* opset is transparent: it neither drains the buffer nor clears the staging words. *)
opset(slot, word) ==
  /\ ~halted
  /\ staging' = [staging EXCEPT ![slot] = word]
  /\ UNCHANGED <<warp, armed, tloop_buf, lspr, deferred_ddr_stores, credits, memory, halted>>

SetAnchor(addr, anchor, value) == [addr EXCEPT ![anchor] = value]

(* wrspr of one SPM_ADDR* anchor, routed by context: to the thread's SPU, to every SPU
   of the plan's NEST, or to SPU 0 of NEST 0. *)
wrspr(anchor, value) ==
  /\ HardBoundary
  /\ lspr' =
       IF is_tloop
       THEN [lspr EXCEPT ![current_nest][current_spu] = SetAnchor(@, anchor, value)]
       ELSE IF is_ploop
       THEN [lspr EXCEPT ![current_nest] = [s \in Spus |-> SetAnchor(@[s], anchor, value)]]
       ELSE [lspr EXCEPT ![0][0] = SetAnchor(@, anchor, value)]
  /\ l1' = AtBoundary(l1, DrainedL1) /\ l2' = AtBoundary(l2, DrainedL2)
  /\ UNCHANGED l0
  /\ KeepQueue /\ ClearStaging

(* wrspr of element i of SVR reg, routed the same way and mirrored into L0. *)
wrspr_svr(reg, i, value) ==
  /\ HardBoundary
  /\ l0' =
       IF is_tloop
       THEN [l0 EXCEPT ![current_nest][current_spu][reg][i] = value]
       ELSE IF is_ploop
       THEN [l0 EXCEPT ![current_nest] = [s \in Spus |-> [@[s] EXCEPT ![reg][i] = value]]]
       ELSE [l0 EXCEPT ![0][0][reg][i] = value]
  /\ l1' = AtBoundary(l1, DrainedL1) /\ l2' = AtBoundary(l2, DrainedL2)
  /\ UNCHANGED lspr
  /\ KeepQueue /\ ClearStaging

(* rdspr: a hard boundary that writes none of this state.  For an MX instruction outside
   the buffer (mm, tpose, fill, the reductions) it stands for the boundary alone; what
   such an instruction writes is not modelled. *)
rdspr ==
  /\ "rdspr" \in Fw.ops
  /\ HardBoundary
  /\ l1' = AtBoundary(l1, DrainedL1) /\ l2' = AtBoundary(l2, DrainedL2)
  /\ UNCHANGED <<lspr, l0>>
  /\ KeepQueue /\ ClearStaging

(* What an instruction executed at once, outside the buffer, leaves alone. *)
Eager ==
  /\ ~halted /\ ~Buffering
  /\ UNCHANGED <<warp, armed, tloop_buf, lspr, l0>>

credit_ld_op ==
  /\ "credit.ld" \in Fw.ops
  /\ Eager
  /\ is_sloop => \A s \in Spus : credit_ld[nest][s] < MaxCredit
  /\ credit_ld' =
       IF is_sloop THEN [credit_ld EXCEPT ![nest] = [s \in Spus |-> @[s] + 1]]
       ELSE IF is_tloop THEN [credit_ld EXCEPT ![nest][current_spu] = Monus(@, 1)]
       ELSE credit_ld
  /\ UNCHANGED <<credit_st, credit_st_deferred, l1, l2>>
  /\ KeepQueue /\ ClearStaging

(* credit.st: the T-loop produces at once; the S-loop consume, for the SPUs of the
   mask, is deferred to the plan boundary. *)
credit_st_op(mask) ==
  /\ Eager
  /\ is_tloop => credit_st[nest][current_spu] < MaxCredit
  /\ is_sloop => \A s \in mask : credit_st_deferred[nest][s] < MaxCredit
  /\ credit_st' = IF is_tloop THEN [credit_st EXCEPT ![nest][current_spu] = @ + 1]
                  ELSE credit_st
  /\ credit_st_deferred' =
       IF is_sloop
       THEN [credit_st_deferred EXCEPT ![nest] =
               [s \in Spus |-> IF s \in mask THEN @[s] + 1 ELSE @[s]]]
       ELSE credit_st_deferred
  /\ UNCHANGED <<credit_ld, l1, l2>>
  /\ KeepQueue /\ ClearStaging

(* credit.chk is transparent too: a NOP, except with GTX_CHK_FLUSH=1 in an S-loop. *)
credit_chk ==
  /\ "credit.chk" \in Fw.ops
  /\ ~halted
  /\ IF is_sloop /\ ChkFlush THEN FlushQueue(l2) ELSE KeepQueue
  /\ ClearStaging
  /\ UNCHANGED <<warp, armed, tloop_buf, lspr, credits, l0, l1, l2>>

-----------------------------------------------------------------------------
(* custom0: bufferable instructions. *)

Entry(m, arg) ==
  [mnemonic |-> m, arg |-> arg, op3 |-> staging.op3, op5 |-> staging.op5,
   addr |-> lspr[nest][spu]]

(* The bufferable instructions the firmware issues in a T-loop, with their operands. *)
TLoopInsns ==
  Fw.tdma \cup Fw.vec \cup
  {<<m, NoArg>> : m \in Fw.ops \cap {"credit.ld", "credit.st"}}

(* try_buffer: snapshot instead of executing. *)
try_buffer(m, arg) ==
  /\ ~halted /\ Buffering
  /\ Len(tloop_buf) < MaxBuf
  /\ m = "credit.st" =>
       credit_st[nest][spu] + Pending(tloop_buf, "credit.st") < MaxCredit
  /\ tloop_buf' = Append(tloop_buf, Entry(m, arg))
  /\ staging' = NoStaging
  /\ UNCHANGED <<warp, armed, lspr, deferred_ddr_stores, credits, memory, halted>>

(* The same handlers run at once on the bank of the current context. *)
ExecuteOnBank(m, arg) ==
  /\ Eager
  /\ UNCHANGED credits
  /\ KeepQueue /\ ClearStaging
  /\ WriteBank(Replay(Entry(m, arg), Bank))

dma_tloop(m, d) == is_tloop /\ ExecuteOnBank(m, d)

(* A vector handler has no context guard: outside a T-loop it runs on SPU 0. *)
vector_op(m, v) == ExecuteOnBank(m, v)

(* S-loop LOAD, DDR -> L2: first commit the queue if a pending store's source is about
   to be overwritten, then check the window, then copy. *)
sloop_load(d) ==
  LET wr == staging.op3.lo
      width == IF wr = 0 THEN d.len ELSE wr
      off == DdrOff(d.hi)
      flush == HitsPendingSource(Extent(d.lo, width, d.h, d.len))
      rejected == \/ d.st < d.len \/ wr < d.len
                  \/ d.lo + d.h * wr > L2Size
                  \/ Overruns(off, d.st, d.h, d.len)
  IN /\ is_sloop /\ Eager
     /\ ddr' = IF flush THEN Flushed(l2) ELSE ddr
     /\ deferred_ddr_stores' = IF flush /\ ~FlushFails THEN <<>> ELSE deferred_ddr_stores
     /\ halted' = ((flush /\ FlushFails) \/ rejected)
     /\ l2' = IF halted' THEN l2
              ELSE [l2 EXCEPT ![nest] = CopyRows(@, ddr', Grid(d.lo, wr, off, d.st, d.h, d.len))]
     /\ UNCHANGED <<credits, l1>>
     /\ ClearStaging

(* S-loop STORE, L2 -> DDR: only queued; no window is checked yet. *)
sloop_store(d) ==
  /\ is_sloop /\ Eager
  /\ Len(deferred_ddr_stores) < MaxDeferred
  /\ deferred_ddr_stores' =
       Append(deferred_ddr_stores,
         [nest |-> nest, l2_off |-> d.lo, ddr_off |-> DdrOff(d.hi), length |-> d.len,
          height |-> d.h, l2_stride |-> staging.op3.lo, ddr_stride |-> d.st])
  /\ UNCHANGED <<credits, memory, halted>>
  /\ ClearStaging

(* The rows of a move within L2, up to the first that would wrap round its end. *)
Wraps(r) == r.s + r.n > L2Size \/ r.d + r.n > L2Size

BeforeWrap(rows) ==
  LET bad == SelectInSeq(rows, Wraps)
  IN IF bad = 0 THEN rows ELSE SubSeq(rows, 1, bad - 1)

(* COPY outside a T-loop, L2 -> L2: one block when both sides are contiguous, else row
   after row. *)
sloop_copy(d) ==
  LET rd == IF d.st = 0 THEN d.len ELSE d.st
      wr == IF staging.op3.lo = 0 THEN d.len ELSE staging.op3.lo
      rows == IF rd = d.len /\ wr = d.len
              THEN <<[d |-> d.hi, s |-> d.lo, n |-> d.h * d.len]>>
              ELSE Grid(d.hi, wr, d.lo, rd, d.h, d.len)
  IN /\ ~is_tloop /\ Eager
     /\ l2' = [l2 EXCEPT ![nest] = MoveRows(@, BeforeWrap(rows))]
     /\ halted' = (\E i \in DOMAIN rows : Wraps(rows[i]))
     /\ UNCHANGED <<credits, l1, ddr, deferred_ddr_stores>>
     /\ ClearStaging

(* LOAD and STORE between the loops move nothing. *)
idle_dma ==
  /\ ~is_sloop /\ ~is_tloop /\ Eager
  /\ UNCHANGED <<credits, memory, deferred_ddr_stores, halted>>
  /\ ClearStaging

-----------------------------------------------------------------------------
(* custom0: multicast and copy.mem.  They have no context guard, are hard boundaries of
   the T-loop buffer, and take part of their operands from the OPERAND3 word.  A handler cuts two fields out of
   that word: they are its two members, whatever their width in the code. *)

(* The units a 16-bit target mask selects. *)
Selected(mask, Units) == {u \in Units : (mask \div (2^u)) % 2 = 1}

Stride(d) == IF d.st > 0 THEN d.st ELSE d.len

(* L2 -> L1 of the selected SPUs of this NEST. *)
mcast_s2l(d) ==
  LET rejected == \/ Stride(d) < d.len
                  \/ d.hi + d.h * Stride(d) > L2Size
                  \/ d.lo + d.h * d.len > L1Size
      mem1 == AtBoundary(l1, DrainedL1)
      mem2 == AtBoundary(l2, DrainedL2)
      rows == Grid(d.lo, d.len, d.hi, Stride(d), d.h, d.len)
  IN /\ HardBoundary
     /\ halted' = rejected
     /\ l2' = mem2
     /\ l1' = IF rejected THEN mem1
              ELSE [mem1 EXCEPT ![nest] =
                     [s \in Spus |-> IF s \in Selected(staging.op3.lo, Spus)
                                     THEN CopyRows(@[s], mem2[nest], rows) ELSE @[s]]]
     /\ UNCHANGED <<lspr, l0, ddr, deferred_ddr_stores>>
     /\ ClearStaging

(* DDR -> L2 of the selected NESTs.  The DDR span is cut right after the last row, so
   its reshape raises for every stride but the row length. *)
mcast_g2s(d) ==
  LET rejected == \/ Stride(d) # d.len
                  \/ Overruns(DdrOff(d.hi), d.len, d.h, d.len)
                  \/ d.lo + d.h * d.len > L2Size
      mem2 == AtBoundary(l2, DrainedL2)
      rows == Grid(d.lo, d.len, DdrOff(d.hi), d.len, d.h, d.len)
  IN /\ HardBoundary
     /\ halted' = rejected
     /\ l1' = AtBoundary(l1, DrainedL1)
     /\ l2' = IF rejected THEN mem2
              ELSE [m \in Nests |-> IF m \in Selected(staging.op3.lo, Nests)
                                    THEN CopyRows(mem2[m], ddr, rows) ELSE mem2[m]]
     /\ UNCHANGED <<lspr, l0, ddr, deferred_ddr_stores>>
     /\ ClearStaging

(* Row i of an L2 -> L2 move: both addresses wrap, the row is cut at the end of L2. *)
WrappedRow(d, dst, dst_st, i) ==
  LET s == (d.src + (i - 1) * d.st) % L2Size
      t == (dst + (i - 1) * dst_st) % L2Size
  IN [d |-> t, s |-> s, n |-> Min({d.len, L2Size - s, L2Size - t})]

(* One row from the L2 of a NEST to the L2 of every selected NEST, and several in order:
   a source that is also a target is read after the rows before have been written. *)
SpreadRow(mem2, from, mask, r) ==
  [m \in Nests |-> IF m \in Selected(mask, Nests) THEN PutRow(mem2[m], mem2[from], r) ELSE mem2[m]]

SpreadRows(mem2, from, mask, rows) ==
  FoldLeft(LAMBDA mem, r : SpreadRow(mem, from, mask, r), mem2, rows)

(* L2 of one NEST -> L2 of the selected NESTs. *)
mcast_s2s(d) ==
  LET tmu == IF d.tmu \in Nests THEN d.tmu ELSE 0
      rejected == d.len = 0
      rows == [i \in 1 .. d.h |-> WrappedRow(d, d.dst, staging.op3.lo, i)]
      mem2 == AtBoundary(l2, DrainedL2)
  IN /\ HardBoundary
     /\ halted' = rejected
     /\ l1' = AtBoundary(l1, DrainedL1)
     /\ l2' = IF rejected THEN mem2 ELSE SpreadRows(mem2, tmu, staging.op3.hi, rows)
     /\ UNCHANGED <<lspr, l0, ddr, deferred_ddr_stores>>
     /\ ClearStaging

(* Row i of a DDR -> L2 move: only the target wraps and is cut. *)
IncomingRow(d, dst, dst_st, i) ==
  LET t == (dst + (i - 1) * dst_st) % L2Size
  IN [d |-> t, s |-> DdrOff(d.src) + (i - 1) * d.st, n |-> Min({d.len, L2Size - t})]

(* copy.mem between DDR and L2; an address below L2Size is an L2 address.  The queue is
   committed before a side that is DDR is touched.  L2 -> DDR always raises: it calls a
   method NumPy arrays do not have on its first non-empty row. *)
copy_mem(d) ==
  LET dst == staging.op3.lo
      dst_st == d.dst_st + 65536 * staging.op3.hi
      srcDdr == d.src >= L2Size
      dstDdr == dst >= L2Size
      touchesDdr == d.len > 0 /\ (srcDdr \/ dstDdr)
      mem2 == AtBoundary(l2, DrainedL2)
      rejected == \/ d.len = 0
                  \/ touchesDdr /\ FlushFails
                  \/ srcDdr /\ Overruns(DdrOff(d.src), d.st, d.h, d.len)
                  \/ dstDdr /\ Overruns(DdrOff(dst), dst_st, d.h, d.len)
                  \/ dstDdr /\ ~srcDdr
      toDdr == Grid(DdrOff(dst), dst_st, DdrOff(d.src), d.st, d.h, d.len)
      toL2 == [i \in 1 .. d.h |-> IncomingRow(d, dst, dst_st, i)]
      inL2 == [i \in 1 .. d.h |-> WrappedRow(d, dst, dst_st, i)]
      committed == IF touchesDdr THEN Flushed(mem2) ELSE ddr
  IN /\ HardBoundary
     /\ l1' = AtBoundary(l1, DrainedL1)
     /\ halted' = rejected
     /\ deferred_ddr_stores' = IF touchesDdr /\ ~FlushFails THEN <<>> ELSE deferred_ddr_stores
     /\ ddr' = IF rejected \/ ~dstDdr THEN committed ELSE MoveRows(committed, toDdr)
     /\ l2' = IF rejected \/ dstDdr THEN mem2
              ELSE [mem2 EXCEPT ![nest] = IF srcDdr THEN CopyRows(@, committed, toL2)
                                                    ELSE MoveRows(@, inL2)]
     /\ UNCHANGED <<lspr, l0>>
     /\ ClearStaging

-----------------------------------------------------------------------------
(* custom0: the SVR transfers, hard boundaries as well.  They take the SPU of the last
   start marker whatever the context: also outside a thread, also a GDMAC id. *)

SvrRejected(d) == current_spu \notin Spus \/ (d.addr % L1Size) + SvrLen > L1Size

(* L1 -> one SVR. *)
load_svr(d) ==
  LET mem1 == AtBoundary(l1, DrainedL1)
      off == d.addr % L1Size
  IN /\ HardBoundary
     /\ halted' = SvrRejected(d)
     /\ l0' = IF SvrRejected(d) THEN l0
              ELSE [l0 EXCEPT ![nest][current_spu][d.reg] =
                     [x \in 0 .. (SvrLen - 1) |-> mem1[nest][current_spu][off + x]]]
     /\ l1' = mem1
     /\ l2' = AtBoundary(l2, DrainedL2)
     /\ UNCHANGED <<lspr, ddr, deferred_ddr_stores>>
     /\ ClearStaging

(* One SVR -> L1. *)
store_svr(d) ==
  LET mem1 == AtBoundary(l1, DrainedL1)
      row == [d |-> d.addr % L1Size, s |-> 0, n |-> SvrLen]
  IN /\ HardBoundary
     /\ halted' = SvrRejected(d)
     /\ l1' = IF SvrRejected(d) THEN mem1
              ELSE [mem1 EXCEPT ![nest][current_spu] =
                     PutRow(@, l0[nest][current_spu][d.reg], row)]
     /\ l2' = AtBoundary(l2, DrainedL2)
     /\ UNCHANGED <<lspr, l0, ddr, deferred_ddr_stores>>
     /\ ClearStaging

-----------------------------------------------------------------------------
Markers ==
  \/ \E id \in Fw.nest_ids : startp(id) \/ badid(id, Nests)
  \/ \E id \in Fw.gdmac_ids : starts(id) \/ badid(id, Nests)
  \/ \E id \in Fw.spu_ids : startt(id) \/ badid(id, Spus)
  \/ ends \/ endt \/ endp \/ split \/ join

SharedLoopOps ==
  \/ \E d \in Fw.sload : sloop_load(d)
  \/ \E d \in Fw.sstore : sloop_store(d)
  \/ \E d \in Fw.scopy : sloop_copy(d)
  \/ "idle" \in Fw.ops /\ idle_dma

ThreadLoopOps ==
  \/ \E i \in TLoopInsns : try_buffer(i[1], i[2])
  \/ \E i \in Fw.tdma : dma_tloop(i[1], i[2])
  \/ \E i \in Fw.vec : vector_op(i[1], i[2])

ControlOps ==
  \/ \E w \in Fw.op3 : opset("op3", w)
  \/ \E w \in Fw.op5 : opset("op5", w)
  \/ \E w \in Fw.anchors : wrspr(w[1], w[2])
  \/ rdspr
  \/ credit_ld_op
  \/ "credit.st" \in Fw.ops /\ \E mask \in Fw.masks : credit_st_op(mask)
  \/ credit_chk

MoverOps ==
  \/ \E d \in Fw.s2l : mcast_s2l(d)
  \/ \E d \in Fw.g2s : mcast_g2s(d)
  \/ \E d \in Fw.s2s : mcast_s2s(d)
  \/ \E d \in Fw.copymem : copy_mem(d)

SvrOps ==
  \/ \E w \in Fw.wsvr : wrspr_svr(w[1], w[2], w[3])
  \/ \E d \in Fw.lsvr : load_svr(d)
  \/ \E d \in Fw.ssvr : store_svr(d)

Next == Markers \/ SharedLoopOps \/ ThreadLoopOps \/ ControlOps \/ MoverOps \/ SvrOps

Spec == Init /\ [][Next]_vars

=============================================================================
