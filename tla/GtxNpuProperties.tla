--------------------------- MODULE GtxNpuProperties ---------------------------
(***************************************************************************)
(* What GtxNpu should satisfy: the type invariant, the safety invariants,  *)
(* the action properties, and the two specifications it implements: the    *)
(* same NPU without a T-loop buffer (GTX_NO_FUSION=1), and CreditLedger.   *)
(***************************************************************************)
EXTENDS GtxNpu

WarpTypeOK ==
  /\ CONTEXT \in {"C1", "C2", "C3", "C4"}
  /\ current_nest \in Nests /\ current_spu \in Nests \cup Spus
  /\ is_tloop => current_spu \in Spus
  /\ wsplit_seen \in BOOLEAN /\ armed \in BOOLEAN /\ halted \in BOOLEAN

BufferTypeOK ==
  /\ tloop_buf \in Seq(TLoopEntries)
  /\ staging \in [op3 : Words, op5 : Nat]
  /\ lspr \in [Nests -> [Spus -> Anchors]]

QueueTypeOK == deferred_ddr_stores \in Seq(DeferredDdrStores)

CreditTypeOK ==
  /\ credit_ld \in [Nests -> [Spus -> Nat]]
  /\ credit_st \in [Nests -> [Spus -> Nat]]
  /\ credit_st_deferred \in [Nests -> [Spus -> Nat]]

(* The type of everything but the memories. *)
ControlTypeOK == WarpTypeOK /\ BufferTypeOK /\ QueueTypeOK /\ CreditTypeOK

MemoryTypeOK ==
  /\ l0 \in [Nests -> [Spus -> L0Mem]]
  /\ l1 \in [Nests -> [Spus -> L1Mem]]
  /\ l2 \in [Nests -> L2Mem]
  /\ ddr \in DdrMem

(* Type invariant: routing ids name real units, every counter stays a natural number,
   and no transfer (npu.py, dma.py, dma_imp.py) grows a memory or leaves a hole in it. *)
TypeOK == ControlTypeOK /\ MemoryTypeOK

-----------------------------------------------------------------------------
(* T-loop buffer. *)

(* Entries wait in the buffer only inside the T-loop that captured them, and each was
   captured under the anchors its SPU still has: whoever changes the context, the SPU or
   an anchor drains first.  The drain relies on it when it compares the live anchors
   with a whole run of frames (tloop_buffer.py _execute_fused), and custom0/custom1
   (npu.py) when they take the current NEST and SPU to be the owner of the entries. *)
PendingFramesCoherent ==
  tloop_buf # <<>> =>
    /\ is_tloop /\ armed
    /\ \A i \in DOMAIN tloop_buf : tloop_buf[i].addr = lspr[nest][spu]

(* A drain leaves in L1 and L2 exactly what replaying the entries one by one, in their
   order and with their own staging words, leaves there: executing a run of frames in
   bulk is only a shortcut (tloop_buffer.py _drain, _execute_fused). *)
DrainIsReplay == Drain(tloop_buf, Bank) = ReplayAll(tloop_buf, Bank)

(* What the bulk path relies on and does not look at: that the rows stored are as long as
   the vector and that no row stored lies where a later frame of the run still loads
   (the finding of run fused_overlap is a firmware without it). *)
RunApart(buf, run) ==
  LET load == buf[run[1].load].arg
      store == buf[run[1].store].arg
      n == buf[run[1].vec].arg.n
  IN /\ store.h = 1 /\ store.len = n
     /\ store.hi <= load.hi \/ store.hi >= load.hi + Len(run) * n

RunsApart(buf, b) ==
  \A i \in DOMAIN buf :
    LET run == FrameRun(buf, i)
    IN Len(run) >= 2 /\ Contiguous(buf, run, b) => RunApart(buf, run)

(* Every run of frames that the next drain executes in bulk keeps its windows apart. *)
BulkRunsApart == RunsApart(tloop_buf, Bank)

(* A firmware of which that is true whatever it buffers: rows of one height and one
   length, all of them stored at or below, or all of them beyond, where any is loaded. *)
Fusable(fw) ==
  LET loads  == {i[2] : i \in {j \in fw.tdma : j[1] = "load"}}
      stores == {i[2] : i \in {j \in fw.tdma : j[1] = "store"}}
  IN /\ \A l \in loads, s \in stores : s.h = 1 /\ s.len = l.len
     /\ \/ \A l \in loads, s \in stores : s.hi <= l.hi
        \/ \A l \in loads, s \in stores : l.hi + l.len <= s.hi

(* The NPU with the buffer replayed entry by entry in its own order: what the machine
   would hold now if every instruction had been executed when it was issued. *)
Replayed == ReplayAll(tloop_buf, Bank)
ReplayedL1 == IF tloop_buf = <<>> THEN l1 ELSE [l1 EXCEPT ![nest][spu] = Replayed.l1]
ReplayedL2 == IF tloop_buf = <<>> THEN l2 ELSE [l2 EXCEPT ![nest] = Replayed.l2]

Eagerly == INSTANCE GtxNpu WITH
  FusionEnabled <- FALSE,
  armed <- FALSE,
  tloop_buf <- <<>>,
  l1 <- ReplayedL1,
  l2 <- ReplayedL2,
  credit_ld <- DrainedLd,
  credit_st <- DrainedSt

(* The buffered and fused NPU implements the NPU run with GTX_NO_FUSION=1: every
   instruction has the effect it would have had if executed at once, and a drain, bulk
   execution included, changes nothing (tloop_buffer.py _execute_fused:
   "the L2->abs->L2 shortcut equals the eager L2->L1->abs->L1->L2 chain"). *)
FusedEqualsEager == Eagerly!Spec

-----------------------------------------------------------------------------
(* Deferred stores. *)

(* Between plans nothing waits: end.p settles the deferred credits, drains the buffer
   and, unless a WSPLIT was ever issued, commits the queue (control.py endp). *)
QuietOutsidePlan ==
  CONTEXT = "C1" /\ ~halted =>
    /\ credit_st_deferred = PerSpu(0)
    /\ tloop_buf = <<>>
    /\ ~wsplit_seen => deferred_ddr_stores = <<>>

(* The last queued store, and its last row, that covers a DDR address. *)
Covering(a) ==
  {p \in UNION {{i} \X DOMAIN StoreRows(deferred_ddr_stores[i]) : i \in DOMAIN deferred_ddr_stores} :
     LET r == StoreRows(deferred_ddr_stores[p[1]])[p[2]] IN a \in r.d .. (r.d + r.n - 1)}

LastCovering(a) ==
  CHOOSE p \in Covering(a) :
    \A q \in Covering(a) : q[1] < p[1] \/ (q[1] = p[1] /\ q[2] <= p[2])

(* The DDR addresses a copy.mem would write, given the destination staged for it. *)
CopyTargets ==
  IF staging.op3.lo < L2Size THEN {}
  ELSE UNION {TargetCells(Grid(DdrOff(staging.op3.lo), d.dst_st + 65536 * staging.op3.hi,
                               0, 0, d.h, d.len)) : d \in Fw.copymem}

(* A commit writes, at every address some queued store covers, the element the last such
   store names, as the NEST's L2 holds it once the T-loop buffer is drained and before
   the instruction that forces the commit writes any L2 of its own: an S-loop load and a
   copy.mem into a pending source come after it.  Every other DDR address keeps its value,
   and a step that commits nothing leaves DDR alone, but for what a copy.mem writes (npu.py
   flush_deferred_ddr_stores, dma.py _load and copy_mem, control.py endp and join). *)
CommitWritesLatest ==
  [][LET committed == deferred_ddr_stores # <<>> /\ deferred_ddr_stores' = <<>>
     IN /\ ~committed /\ ~halted' =>
             \A a \in DOMAIN ddr \ CopyTargets : ddr'[a] = ddr[a]
        /\ committed =>
             \A a \in DOMAIN ddr \ CopyTargets :
               ddr'[a] = IF Covering(a) = {} THEN ddr[a]
                         ELSE LET p == LastCovering(a)
                                  req == deferred_ddr_stores[p[1]]
                                  r == StoreRows(req)[p[2]]
                              IN DrainedL2[req.nest][r.s + (a - r.d)]]_vars

(* The L2 elements a store still in the queue will read. *)
PendingSource(m) ==
  UNION {SourceCells(StoreRows(deferred_ddr_stores[i])) :
           i \in {j \in DOMAIN deferred_ddr_stores : deferred_ddr_stores[j].nest = m}}

(* In an S-loop, no instruction overwrites an L2 element that a store still waiting in
   the queue reads: such stores are committed before (npu.py
   flush_deferred_if_l2_overlap, "preserves store-before-overwrite ordering"). *)
StoreBeforeOverwrite ==
  [][is_sloop /\ deferred_ddr_stores' = deferred_ddr_stores =>
       \A m \in Nests : \A x \in PendingSource(m) : l2'[m][x] = l2[m][x]]_vars

(* A firmware that the guard of LOAD is enough for: nothing else writes the L2 of an S-loop
   (not COPY, a multicast or a copy.mem from L2, which the finding of run sloop_copy is
   about), and no row of a store starts beyond the end of L2, where the commit wraps and
   the guard does not (WrappedFw in MCGtxNpu). *)
OrderedStores(fw) ==
  /\ fw.scopy = {} /\ fw.g2s = {} /\ fw.s2s = {}
  /\ \A d \in fw.copymem : d.src >= L2Size
  /\ \A d \in fw.sstore, w \in fw.op3 \cup {NoStaging.op3} : d.lo + (d.h - 1) * w.lo < L2Size

-----------------------------------------------------------------------------
(* Routing. *)

(* An instruction writes only the memories it is routed to: the L2 of the plan's NEST and
   the L0 and L1 of the thread's SPU, outside a plan of NEST 0, outside a thread of SPU 0,
   whatever unit an earlier marker selected.  Four have a wider reach, and no other: the
   three multicasts reach what the OPERAND3 mask selects, a write of an SVR in a plan
   every SPU of its NEST, and load.svr and store.svr the SPU of the last start marker,
   because they read current_spu in every context.  A mask is gone after the instruction
   it was staged for (context/__init__.py _resolve_nest_spu, dma.py _select_nest,
   _select_spu and the multicasts, spr.py wr_spr, npu.py custom0). *)
ReachesOnlySelected ==
  [][LET myNest == IF CONTEXT = "C1" THEN 0 ELSE current_nest
         mySpu  == IF CONTEXT = "C3" THEN current_spu ELSE 0
     IN /\ \A m \in Nests, s \in Spus :
             l1'[m][s] # l1[m][s] =>
               /\ m = myNest
               /\ \/ s = mySpu
                  \/ s \in Selected(staging.op3.lo, Spus) /\ \E d \in Fw.s2l : mcast_s2l(d)
                  \/ s = current_spu /\ \E d \in Fw.ssvr : store_svr(d)
        /\ \A m \in Nests, s \in Spus :
             l0'[m][s] # l0[m][s] =>
               /\ m = myNest
               /\ \/ s = mySpu
                  \/ CONTEXT # "C1" /\ \E w \in Fw.wsvr : wrspr_svr(w[1], w[2], w[3])
                  \/ s = current_spu /\ \E d \in Fw.lsvr : load_svr(d)
        /\ \A m \in Nests :
             l2'[m] # l2[m] =>
               \/ m = myNest
               \/ m \in Selected(staging.op3.lo, Nests) /\ \E d \in Fw.g2s : mcast_g2s(d)
               \/ m \in Selected(staging.op3.hi, Nests) /\ \E d \in Fw.s2s : mcast_s2s(d)
        /\ staging' # NoStaging /\ ~halted' => UNCHANGED <<memory, credits, warp>>]_vars

(* copy.mem serves every pair of memories: with both windows inside their memories and
   nothing in the queue that cannot be committed, it does not fail (dma.py copy_mem,
   "DDR <-> DDR / L2 <-> DDR / L2 <-> L2 copy"). *)
CopyMemServesEveryPair ==
  [][\A d \in Fw.copymem :
       LET dst == staging.op3.lo
           Fits(addr, st) == addr >= L2Size => ~Overruns(DdrOff(addr), st, d.h, d.len)
       IN /\ copy_mem(d)
          /\ d.len > 0 /\ ~FlushFails
          /\ Fits(d.src, d.st) /\ Fits(dst, d.dst_st + 65536 * staging.op3.hi)
          => ~halted']_vars

-----------------------------------------------------------------------------
(* Credits. *)

Ledger == INSTANCE CreditLedger WITH
  ld <- DrainedLd,
  st <- [m \in Nests |-> [s \in Spus |-> DrainedSt[m][s] - credit_st_deferred[m][s]]]

(* Counting the buffered and the deferred credit operations in, the counters move like
   a plain ledger: deferring the S-loop's decrements to the plan boundary
   (credit.py apply_deferred_st) and buffering the T-loop's operations lose, repeat or
   misattribute none. *)
LedgerRefinement == Ledger!Spec
=============================================================================
