------------------------------- MODULE MCGtxNpu -------------------------------
(***************************************************************************)
(* Small instances of GtxNpu for TLC.  Elements are bits, the only unary   *)
(* mnemonic is the negation of a bit, so that applying it once, twice or   *)
(* to the wrong row are all visible, and the vector arithmetic is addition *)
(* modulo 2.                                                               *)
(***************************************************************************)
EXTENDS GtxNpuProperties

MCVal == {0, 1}
MCUnaryOps == {"neg.v"}
MCUnaryFn == [f \in MCUnaryOps |-> [x \in MCVal |-> 1 - x]]
MCArithFn == [p \in MCVal \X MCVal |-> (p[1] + p[2]) % 2]

Dma(hi, lo, len, h, st) == [hi |-> hi, lo |-> lo, len |-> len, h |-> h, st |-> st]
Vec(n, rs2) == [n |-> n, rs2 |-> rs2]
Word(lo) == [lo |-> lo, hi |-> 0]

(* A firmware that issues nothing but the warp markers. *)
NoFw ==
  [nest_ids |-> {0}, gdmac_ids |-> {0}, spu_ids |-> {0}, op3 |-> {}, op5 |-> {}, anchors |-> {}, tdma |-> {}, vec |-> {},
   sload |-> {}, sstore |-> {}, scopy |-> {}, masks |-> {{}}, ops |-> {},
   s2l |-> {}, g2s |-> {}, s2s |-> {}, copymem |-> {},
   wsvr |-> {}, lsvr |-> {}, ssvr |-> {}]

Zeroes(n) == [x \in 0 .. (n - 1) |-> 0]

(* T-loop: frames that load row 1 or 2 of L2, negate it and store to row 0 or 1, with
   and without credits; the anchors fit the bulk path only once the firmware sets them. *)
TLoopFw ==
  [NoFw EXCEPT
    !.anchors = {<<"r", 1>>},
    !.tdma = {<<"load", Dma(hi, 0, 1, 1, 0)>> : hi \in {1, 2}} \cup
             {<<"store", Dma(hi, 1, 1, 1, 0)>> : hi \in {0, 1}},
    !.vec = {<<"neg.v", Vec(1, 0)>>},
    !.ops = {"credit.ld", "credit.st"}]

TLoopL2 == 0 :> 0 @@ 1 :> 1 @@ 2 :> 0
TLoopDdr == Zeroes(1)

(* Buffers worth a drain: chains of frames and of what is almost a frame, and one batch
   per behaviour, because the next one would start from the same anchors and, as far as
   the drain is concerned, from any memory at all. *)
MayFollow ==
  [load |-> {"credit.ld", "neg.v", "store"}, store |-> {"credit.st", "load"}] @@
  [m \in {"credit.ld", "neg.v", "credit.st"} |->
     CASE m = "credit.ld" -> {"neg.v", "load"}
       [] m = "neg.v"     -> {"store", "load"}
       [] OTHER           -> {"load"}]

FrameShaped ==
  /\ \A i \in 2 .. Len(tloop_buf) :
       tloop_buf[i].mnemonic \in MayFollow[tloop_buf[i - 1].mnemonic]
  /\ memory = <<PerSpu([v \in Svrs |-> Zeroes(SvrLen)]), PerSpu(Zeroes(L1Size)), [m \in Nests |-> InitL2], InitDdr>> \/ tloop_buf = <<>>
  /\ credit_ld = PerSpu(0)

Svr(addr) == [addr |-> addr, reg |-> 0]

(* Two threads that alternate on one NEST: what the buffer may delay, and what has to
   drain it, when anchors, staging words, SPUs and contexts change around it. *)
ThreadsFw ==
  [NoFw EXCEPT
    !.gdmac_ids = {}, !.spu_ids = {0, 1},
    !.op5 = {256},
    !.anchors = {<<"r", 0>>, <<"r", 1>>},
    !.tdma = {<<"load", Dma(0, 0, 1, 1, 0)>>, <<"store", Dma(0, 1, 1, 1, 0)>>},
    !.vec = {<<"add.vs", Vec(1, 1)>>},
    !.masks = {},
    !.ops = {"rdspr"},
    !.wsvr = {<<0, 0, 1>>}, !.lsvr = {Svr(0)}, !.ssvr = {Svr(1)}]

ThreadsImage == Zeroes(1)

(* The SVR transfers drain the buffer and the scalar mode of OPERAND5 is a matter of the
   buffer: behaviours that have both at a time are left out, to keep the run short. *)
SvrsOrScalars ==
  \/ \A m \in Nests, s \in Spus, v \in Svrs : l0[m][s][v] = Zeroes(SvrLen)
  \/ /\ staging.op5 = 0
     /\ \A i \in DOMAIN tloop_buf : tloop_buf[i].op5 = 0

(* Deferred stores of two NESTs: a store of two rows, whose L2 stride is staged or not, a
   load into the second of them, and a thread that writes the first after the store of
   its result was issued. *)
StoresFw ==
  [NoFw EXCEPT
    !.nest_ids = {0, 1},
    !.op3 = {Word(1)},
    !.tdma = {<<"store", Dma(0, 0, 1, 1, 0)>>},
    !.sload = {Dma(2, 1, 1, 1, 1)},
    !.sstore = {Dma(1, 0, 1, 2, 1)},
    !.ops = {"join", "split"}]

StoresL2 == 0 :> 1 @@ 1 :> 0
StoresDdr == 0 :> 0 @@ 1 :> 1 @@ 2 :> 1

(* Credits of two NESTs with two SPUs each: operations of threads, which are buffered,
   and of S-loops, whose decrements are deferred; and a start.p of a NEST there is not. *)
CreditsFw ==
  [NoFw EXCEPT
    !.nest_ids = {0, 1, 2}, !.spu_ids = {0, 1},
    !.masks = {{0}, {0, 1}},
    !.ops = {"credit.ld", "credit.st", "join"}]

OneCell == Zeroes(1)

Move(src, dst) == [tmu |-> 0, src |-> src, dst |-> dst, len |-> 1, h |-> 1, st |-> 1, dst_st |-> 0]

(* Everything that moves data, executed at once (no buffer): the OPERAND3 word is a DDR
   destination for copy.mem and a mask of unit 1 for the multicasts; one of the two
   stores ends beyond the DDR. *)
EagerFw ==
  [NoFw EXCEPT
    !.nest_ids = {1}, !.spu_ids = {1},
    !.op3 = {[lo |-> 10, hi |-> 2]},
    !.tdma = {<<"load", Dma(0, 0, 1, 1, 0)>>, <<"store", Dma(1, 0, 1, 1, 0)>>,
              <<"copy", Dma(0, 0, 1, 1, 0)>>},
    !.vec = {<<"neg.v", Vec(1, 0)>>},
    !.sload = {Dma(0, 0, 1, 1, 1)},
    !.sstore = {Dma(10, 0, 1, 1, 1), Dma(2, 1, 1, 1, 1)},
    !.scopy = {Dma(1, 0, 1, 1, 0)},
    !.ops = {"credit.chk", "join", "idle"},
    !.s2l = {Dma(1, 0, 1, 1, 1)}, !.g2s = {Dma(9, 1, 1, 1, 1)},
    !.s2s = {Move(0, 1)}, !.copymem = {Move(9, 0), Move(0, 0)},
    !.ssvr = {Svr(0)}]

EagerL2 == 0 :> 0 @@ 1 :> 1
EagerDdr == 0 :> 1 @@ 1 :> 0

(* Frames in which the second loads the row the first stored. *)
OverlapFw ==
  [TLoopFw EXCEPT
    !.tdma = {<<"load", Dma(hi, 0, 1, 1, 0)>> : hi \in {0, 1}} \cup
             {<<"store", Dma(hi, 1, 1, 1, 0)>> : hi \in {1, 2}},
    !.ops = {}]

OverlapL2 == Zeroes(3)

(* The rows of these two alphabets never meet those a fused run still loads, the rows of
   OverlapFw do: the hypothesis of the drain theorem, on the instances. *)
ASSUME FusableInstances == Fusable(TLoopFw) /\ Fusable(ThreadsFw) /\ ~Fusable(OverlapFw)

(* An S-loop copy onto the source of the store that is waiting. *)
ReuseFw ==
  [NoFw EXCEPT
    !.sstore = {Dma(1, 0, 1, 1, 1)}, !.scopy = {Dma(0, 1, 1, 1, 0)}]

(* A store of two rows, the second of which wraps to the start of L2, and a load there. *)
WrappedFw ==
  [NoFw EXCEPT
    !.op3 = {Word(1)}, !.sload = {Dma(0, 0, 1, 1, 1)}, !.sstore = {Dma(0, 1, 1, 2, 1)}]

(* The hypothesis of the theorem about waiting stores, on the instances. *)
ASSUME OrderedInstances ==
  L2Size = 2 => OrderedStores(StoresFw) /\ ~OrderedStores(ReuseFw) /\ ~OrderedStores(WrappedFw)

(* The four directions of copy.mem: a source and a destination in L2 or in DDR. *)
CopyMemFw ==
  [NoFw EXCEPT
    !.op3 = {Word(1), Word(9)}, !.sstore = {Dma(0, 1, 1, 1, 1)},
    !.copymem = {Move(0, 0), Move(9, 0)}]
=============================================================================
