---------------------------- MODULE GtxNpuProofs -----------------------------
(***************************************************************************)
(* Proofs about GtxNpu, for every topology, memory size and firmware.      *)
(***************************************************************************)
EXTENDS GtxNpuProperties, FiniteSetTheorems, TLAPS

(* The unit an instruction acts on exists. *)
LEMMA RoutedUnit ==
  ASSUME WarpTypeOK
  PROVE  nest \in Nests /\ spu \in Spus
BY TopologyAssumption DEF WarpTypeOK, nest, spu, is_ploop, is_tloop, Nests, Spus

(* Counting the entries of a mnemonic yields a natural number. *)
LEMMA PendingIsNat ==
  ASSUME NEW S, NEW buf \in Seq(S), NEW m
  PROVE  Pending(buf, m) \in Nat
<1> DEFINE waiting == {i \in DOMAIN buf : buf[i].mnemonic = m}
<1>1. IsFiniteSet(1 .. Len(buf))
  BY FS_Interval
<1>2. waiting \subseteq 1 .. Len(buf)
  OBVIOUS
<1>3. IsFiniteSet(waiting)
  BY <1>1, <1>2, FS_Subset
<1> QED
  BY <1>3, FS_CardinalityType DEF Pending

(* The credits a drain would leave are counters again. *)
LEMMA DrainedCreditTypes ==
  ASSUME WarpTypeOK, BufferTypeOK, CreditTypeOK
  PROVE  /\ DrainedLd \in [Nests -> [Spus -> Nat]]
         /\ DrainedSt \in [Nests -> [Spus -> Nat]]
<1>1. nest \in Nests /\ spu \in Spus
  BY RoutedUnit
<1>2. /\ Pending(tloop_buf, "credit.ld") \in Nat
      /\ Pending(tloop_buf, "credit.st") \in Nat
  BY PendingIsNat DEF BufferTypeOK
<1>3. \A a, b \in Nat : Monus(a, b) \in Nat
  BY DEF Monus
<1>4. credit_ld[nest][spu] \in Nat /\ credit_st[nest][spu] \in Nat
  BY <1>1 DEF CreditTypeOK
<1>5. DrainedLd \in [Nests -> [Spus -> Nat]]
  BY <1>1, <1>2, <1>3, <1>4 DEF DrainedLd, CreditTypeOK
<1>6. DrainedSt \in [Nests -> [Spus -> Nat]]
  BY <1>1, <1>2, <1>4 DEF DrainedSt, CreditTypeOK
<1> QED
  BY <1>5, <1>6

-----------------------------------------------------------------------------
(* Every step keeps the warp state well typed. *)
LEMMA WarpStep ==
  ASSUME WarpTypeOK, Next
  PROVE  WarpTypeOK'
<1>1. ASSUME NEW id \in Fw.nest_ids, startp(id) PROVE WarpTypeOK'
  BY <1>1 DEF startp, Marker, KeepQueue, WarpTypeOK, warp, is_tloop
<1>2. ASSUME NEW id, NEW Units, badid(id, Units) PROVE WarpTypeOK'
  BY <1>2 DEF badid, Marker, WarpTypeOK, warp, is_tloop
<1>3. ASSUME NEW id \in Fw.gdmac_ids, starts(id) PROVE WarpTypeOK'
  BY <1>3 DEF starts, Marker, KeepQueue, WarpTypeOK, warp, is_tloop
<1>4. ASSUME NEW id \in Fw.spu_ids, startt(id) PROVE WarpTypeOK'
  BY <1>4, ModeAssumption DEF startt, Marker, KeepQueue, WarpTypeOK, warp, is_tloop
<1>5. ASSUME ends PROVE WarpTypeOK'
  BY <1>5 DEF ends, Marker, KeepQueue, WarpTypeOK, warp, is_tloop
<1>6. ASSUME endt PROVE WarpTypeOK'
  BY <1>6 DEF endt, Marker, KeepQueue, WarpTypeOK, warp, is_tloop
<1>7. ASSUME endp PROVE WarpTypeOK'
  BY <1>7 DEF endp, Marker, Settle, KeepQueue, FlushQueue, FlushFails, WarpTypeOK, warp, is_tloop
<1>8. ASSUME split PROVE WarpTypeOK'
  BY <1>8 DEF split, Marker, KeepQueue, WarpTypeOK, warp, is_tloop
<1>9. ASSUME join PROVE WarpTypeOK'
  BY <1>9 DEF join, Marker, Settle, FlushQueue, FlushFails, WarpTypeOK, warp, is_tloop
<1>10. ASSUME NEW d \in Fw.sload, sloop_load(d) PROVE WarpTypeOK'
  BY <1>10 DEF sloop_load, Eager, WarpTypeOK, warp, is_tloop
<1>11. ASSUME NEW d \in Fw.sstore, sloop_store(d) PROVE WarpTypeOK'
  BY <1>11 DEF sloop_store, Eager, WarpTypeOK, warp, is_tloop
<1>12. ASSUME NEW d \in Fw.scopy, sloop_copy(d) PROVE WarpTypeOK'
  BY <1>12 DEF sloop_copy, Eager, WarpTypeOK, warp, is_tloop
<1>13. ASSUME idle_dma PROVE WarpTypeOK'
  BY <1>13 DEF idle_dma, Eager, WarpTypeOK, warp, is_tloop
<1>14. ASSUME NEW i \in TLoopInsns, try_buffer(i[1], i[2]) PROVE WarpTypeOK'
  BY <1>14 DEF try_buffer, WarpTypeOK, warp, is_tloop
<1>15. ASSUME NEW i \in Fw.tdma, dma_tloop(i[1], i[2]) PROVE WarpTypeOK'
  BY <1>15 DEF dma_tloop, ExecuteOnBank, Eager, KeepQueue, WarpTypeOK, warp, is_tloop
<1>16. ASSUME NEW i \in Fw.vec, vector_op(i[1], i[2]) PROVE WarpTypeOK'
  BY <1>16 DEF vector_op, ExecuteOnBank, Eager, KeepQueue, WarpTypeOK, warp, is_tloop
<1>17. ASSUME NEW w \in Fw.op3, opset("op3", w) PROVE WarpTypeOK'
  BY <1>17 DEF opset, WarpTypeOK, warp, is_tloop
<1>18. ASSUME NEW w \in Fw.op5, opset("op5", w) PROVE WarpTypeOK'
  BY <1>18 DEF opset, WarpTypeOK, warp, is_tloop
<1>19. ASSUME NEW w \in Fw.anchors, wrspr(w[1], w[2]) PROVE WarpTypeOK'
  BY <1>19 DEF wrspr, HardBoundary, KeepQueue, WarpTypeOK, warp, is_tloop
<1>20. ASSUME rdspr PROVE WarpTypeOK'
  BY <1>20 DEF rdspr, HardBoundary, KeepQueue, WarpTypeOK, warp, is_tloop
<1>21. ASSUME credit_ld_op PROVE WarpTypeOK'
  BY <1>21 DEF credit_ld_op, Eager, KeepQueue, WarpTypeOK, warp, is_tloop
<1>22. ASSUME NEW mask \in Fw.masks, credit_st_op(mask) PROVE WarpTypeOK'
  BY <1>22 DEF credit_st_op, Eager, KeepQueue, WarpTypeOK, warp, is_tloop
<1>23. ASSUME credit_chk PROVE WarpTypeOK'
  BY <1>23 DEF credit_chk, KeepQueue, FlushQueue, FlushFails, WarpTypeOK, warp, is_tloop
<1>24. ASSUME NEW d \in Fw.s2l, mcast_s2l(d) PROVE WarpTypeOK'
  BY <1>24 DEF mcast_s2l, HardBoundary, WarpTypeOK, warp, is_tloop
<1>25. ASSUME NEW d \in Fw.g2s, mcast_g2s(d) PROVE WarpTypeOK'
  BY <1>25 DEF mcast_g2s, HardBoundary, WarpTypeOK, warp, is_tloop
<1>26. ASSUME NEW d \in Fw.s2s, mcast_s2s(d) PROVE WarpTypeOK'
  BY <1>26 DEF mcast_s2s, HardBoundary, WarpTypeOK, warp, is_tloop
<1>27. ASSUME NEW d \in Fw.copymem, copy_mem(d) PROVE WarpTypeOK'
  BY <1>27 DEF copy_mem, HardBoundary, WarpTypeOK, warp, is_tloop
<1>28. ASSUME NEW w \in Fw.wsvr, wrspr_svr(w[1], w[2], w[3]) PROVE WarpTypeOK'
  BY <1>28 DEF wrspr_svr, KeepQueue, HardBoundary, WarpTypeOK, warp, is_tloop
<1>29. ASSUME NEW d \in Fw.lsvr, load_svr(d) PROVE WarpTypeOK'
  BY <1>29 DEF load_svr, SvrRejected, HardBoundary, WarpTypeOK, warp, is_tloop
<1>30. ASSUME NEW d \in Fw.ssvr, store_svr(d) PROVE WarpTypeOK'
  BY <1>30 DEF store_svr, SvrRejected, HardBoundary, WarpTypeOK, warp, is_tloop
<1> QED
  BY <1>1, <1>2, <1>3, <1>4, <1>5, <1>6, <1>7, <1>8, <1>9, <1>10, <1>11, <1>12, <1>13, <1>14, <1>15, <1>16, <1>17, <1>18, <1>19, <1>20, <1>21, <1>22, <1>23, <1>24, <1>25, <1>26, <1>27, <1>28, <1>29, <1>30
     DEF Next, Markers, SharedLoopOps, ThreadLoopOps, ControlOps, MoverOps, SvrOps

(* What an instruction leaves in the buffer, in the staging words, or captures. *)
LEMMA ClearedTypes ==
  /\ <<>> \in Seq(TLoopEntries)
  /\ NoStaging \in [op3 : Words, op5 : Nat]
BY DEF NoStaging, Words

LEMMA EntryType ==
  ASSUME WarpTypeOK, BufferTypeOK, NEW i \in TLoopInsns
  PROVE  Entry(i[1], i[2]) \in TLoopEntries
<1>1. lspr[nest][spu] \in Anchors
  BY RoutedUnit DEF BufferTypeOK
<1>2. staging.op3 \in Words /\ staging.op5 \in Nat
  BY DEF BufferTypeOK
<1>3. NoArg \in VecArgs
  BY ImageAssumption DEF NoArg, VecArgs
<1>4. i[1] \in BUFFERABLE_MNEMONICS /\ i[2] \in DmaArgs \cup VecArgs
  BY <1>3, FirmwareAssumption DEF TLoopInsns, BUFFERABLE_MNEMONICS
<1> QED
  BY <1>1, <1>2, <1>4 DEF Entry, TLoopEntries

(* Writing one anchor of well-typed anchors leaves well-typed anchors. *)
LEMMA SetAnchorType ==
  ASSUME NEW w \in Fw.anchors, NEW addr \in Anchors
  PROVE  SetAnchor(addr, w[1], w[2]) \in Anchors
<1>1. w[1] \in {"a", "b", "r"} /\ w[2] \in Nat
  BY FirmwareAssumption
<1>2. CASE w[1] = "a"
  BY <1>1, <1>2 DEF SetAnchor, Anchors
<1>3. CASE w[1] = "b"
  BY <1>1, <1>3 DEF SetAnchor, Anchors
<1>4. CASE w[1] = "r"
  BY <1>1, <1>4 DEF SetAnchor, Anchors
<1> QED
  BY <1>1, <1>2, <1>3, <1>4

(* Every step keeps the buffer, the staging words and the anchors well typed. *)
LEMMA BufferStep ==
  ASSUME WarpTypeOK, BufferTypeOK, Next
  PROVE  BufferTypeOK'
<1>1. ASSUME NEW id \in Fw.nest_ids, startp(id) PROVE BufferTypeOK'
  BY <1>1, ClearedTypes DEF startp, Marker, KeepQueue, BufferTypeOK, ClearStaging
<1>2. ASSUME NEW id, NEW Units, badid(id, Units) PROVE BufferTypeOK'
  BY <1>2, ClearedTypes DEF badid, Marker, BufferTypeOK, ClearStaging
<1>3. ASSUME NEW id \in Fw.gdmac_ids, starts(id) PROVE BufferTypeOK'
  BY <1>3, ClearedTypes DEF starts, Marker, KeepQueue, BufferTypeOK, ClearStaging
<1>4. ASSUME NEW id \in Fw.spu_ids, startt(id) PROVE BufferTypeOK'
  BY <1>4, ClearedTypes DEF startt, Marker, KeepQueue, BufferTypeOK, ClearStaging
<1>5. ASSUME ends PROVE BufferTypeOK'
  BY <1>5, ClearedTypes DEF ends, Marker, KeepQueue, BufferTypeOK, ClearStaging
<1>6. ASSUME endt PROVE BufferTypeOK'
  BY <1>6, ClearedTypes DEF endt, Marker, KeepQueue, BufferTypeOK, ClearStaging
<1>7. ASSUME endp PROVE BufferTypeOK'
  BY <1>7, ClearedTypes DEF endp, Marker, Settle, KeepQueue, FlushQueue, FlushFails, BufferTypeOK, ClearStaging
<1>8. ASSUME split PROVE BufferTypeOK'
  BY <1>8, ClearedTypes DEF split, Marker, KeepQueue, BufferTypeOK, ClearStaging
<1>9. ASSUME join PROVE BufferTypeOK'
  BY <1>9, ClearedTypes DEF join, Marker, Settle, FlushQueue, FlushFails, BufferTypeOK, ClearStaging
<1>10. ASSUME NEW d \in Fw.sload, sloop_load(d) PROVE BufferTypeOK'
  BY <1>10, ClearedTypes DEF sloop_load, Eager, BufferTypeOK, ClearStaging
<1>11. ASSUME NEW d \in Fw.sstore, sloop_store(d) PROVE BufferTypeOK'
  BY <1>11, ClearedTypes DEF sloop_store, Eager, BufferTypeOK, ClearStaging
<1>12. ASSUME NEW d \in Fw.scopy, sloop_copy(d) PROVE BufferTypeOK'
  BY <1>12, ClearedTypes DEF sloop_copy, Eager, BufferTypeOK, ClearStaging
<1>13. ASSUME idle_dma PROVE BufferTypeOK'
  BY <1>13, ClearedTypes DEF idle_dma, Eager, BufferTypeOK, ClearStaging
<1>14. ASSUME NEW i \in TLoopInsns, try_buffer(i[1], i[2]) PROVE BufferTypeOK'
  BY <1>14, ClearedTypes, EntryType DEF try_buffer, BufferTypeOK, ClearStaging
<1>15. ASSUME NEW i \in Fw.tdma, dma_tloop(i[1], i[2]) PROVE BufferTypeOK'
  BY <1>15, ClearedTypes DEF dma_tloop, ExecuteOnBank, Eager, KeepQueue, BufferTypeOK, ClearStaging
<1>16. ASSUME NEW i \in Fw.vec, vector_op(i[1], i[2]) PROVE BufferTypeOK'
  BY <1>16, ClearedTypes DEF vector_op, ExecuteOnBank, Eager, KeepQueue, BufferTypeOK, ClearStaging
<1>17. ASSUME NEW w \in Fw.op3, opset("op3", w) PROVE BufferTypeOK'
  BY <1>17, ClearedTypes, FirmwareAssumption DEF opset, BufferTypeOK, ClearStaging
<1>18. ASSUME NEW w \in Fw.op5, opset("op5", w) PROVE BufferTypeOK'
  BY <1>18, ClearedTypes, FirmwareAssumption DEF opset, BufferTypeOK, ClearStaging
<1>19. ASSUME NEW w \in Fw.anchors, wrspr(w[1], w[2]) PROVE BufferTypeOK'
  <2>1. tloop_buf' \in Seq(TLoopEntries) /\ staging' \in [op3 : Words, op5 : Nat]
    BY <1>19, ClearedTypes DEF wrspr, HardBoundary, KeepQueue, BufferTypeOK, ClearStaging, AtBoundary
  <2>2. \A m \in Nests, s \in Spus : SetAnchor(lspr[m][s], w[1], w[2]) \in Anchors
    BY SetAnchorType DEF BufferTypeOK
  <2>3. 0 \in Nests /\ 0 \in Spus /\ current_nest \in Nests /\ (is_tloop => current_spu \in Spus)
    BY TopologyAssumption DEF WarpTypeOK, Nests, Spus
  <2>4. lspr' \in [Nests -> [Spus -> Anchors]]
    BY <1>19, <2>2, <2>3 DEF wrspr, BufferTypeOK
  <2> QED
    BY <2>1, <2>4 DEF BufferTypeOK
<1>20. ASSUME rdspr PROVE BufferTypeOK'
  BY <1>20, ClearedTypes DEF rdspr, HardBoundary, KeepQueue, BufferTypeOK, ClearStaging, AtBoundary
<1>21. ASSUME credit_ld_op PROVE BufferTypeOK'
  BY <1>21, ClearedTypes DEF credit_ld_op, Eager, KeepQueue, BufferTypeOK, ClearStaging
<1>22. ASSUME NEW mask \in Fw.masks, credit_st_op(mask) PROVE BufferTypeOK'
  BY <1>22, ClearedTypes DEF credit_st_op, Eager, KeepQueue, BufferTypeOK, ClearStaging
<1>23. ASSUME credit_chk PROVE BufferTypeOK'
  BY <1>23, ClearedTypes DEF credit_chk, KeepQueue, FlushQueue, FlushFails, BufferTypeOK, ClearStaging
<1>24. ASSUME NEW d \in Fw.s2l, mcast_s2l(d) PROVE BufferTypeOK'
  BY <1>24, ClearedTypes DEF mcast_s2l, HardBoundary, BufferTypeOK, ClearStaging, AtBoundary
<1>25. ASSUME NEW d \in Fw.g2s, mcast_g2s(d) PROVE BufferTypeOK'
  BY <1>25, ClearedTypes DEF mcast_g2s, HardBoundary, BufferTypeOK, ClearStaging, AtBoundary
<1>26. ASSUME NEW d \in Fw.s2s, mcast_s2s(d) PROVE BufferTypeOK'
  BY <1>26, ClearedTypes DEF mcast_s2s, HardBoundary, BufferTypeOK, ClearStaging, AtBoundary
<1>27. ASSUME NEW d \in Fw.copymem, copy_mem(d) PROVE BufferTypeOK'
  BY <1>27, ClearedTypes DEF copy_mem, HardBoundary, BufferTypeOK, ClearStaging, AtBoundary
<1>28. ASSUME NEW w \in Fw.wsvr, wrspr_svr(w[1], w[2], w[3]) PROVE BufferTypeOK'
  BY <1>28, ClearedTypes DEF wrspr_svr, KeepQueue, HardBoundary, BufferTypeOK, ClearStaging, AtBoundary
<1>29. ASSUME NEW d \in Fw.lsvr, load_svr(d) PROVE BufferTypeOK'
  BY <1>29, ClearedTypes DEF load_svr, HardBoundary, BufferTypeOK, ClearStaging, AtBoundary
<1>30. ASSUME NEW d \in Fw.ssvr, store_svr(d) PROVE BufferTypeOK'
  BY <1>30, ClearedTypes DEF store_svr, HardBoundary, BufferTypeOK, ClearStaging, AtBoundary
<1> QED
  BY <1>1, <1>2, <1>3, <1>4, <1>5, <1>6, <1>7, <1>8, <1>9, <1>10, <1>11, <1>12, <1>13, <1>14, <1>15, <1>16, <1>17, <1>18, <1>19, <1>20, <1>21, <1>22, <1>23, <1>24, <1>25, <1>26, <1>27, <1>28, <1>29, <1>30
     DEF Next, Markers, SharedLoopOps, ThreadLoopOps, ControlOps, MoverOps, SvrOps

(* The request an S-loop store queues is well formed. *)
LEMMA RequestType ==
  ASSUME WarpTypeOK, BufferTypeOK, NEW d \in Fw.sstore
  PROVE  [nest |-> nest, l2_off |-> d.lo, ddr_off |-> DdrOff(d.hi), length |-> d.len,
          height |-> d.h, l2_stride |-> staging.op3.lo, ddr_stride |-> d.st]
           \in DeferredDdrStores
<1>1. d \in DmaArgs
  BY FirmwareAssumption
<1>2. d.hi \in Nat /\ d.lo \in Nat /\ d.st \in Nat /\ d.len \in Nat \ {0} /\ d.h \in Nat \ {0}
  BY <1>1 DEF DmaArgs
<1>3. DdrOff(d.hi) \in Nat
  BY <1>2, SizeAssumption DEF DdrOff
<1>4. staging.op3.lo \in Nat
  BY DEF BufferTypeOK, Words
<1> QED
  BY <1>2, <1>3, <1>4, RoutedUnit DEF DeferredDdrStores

(* Committing the queue, or leaving it, keeps it well typed. *)
LEMMA FlushTypes ==
  ASSUME QueueTypeOK
  PROVE  /\ KeepQueue => QueueTypeOK'
         /\ \A mem2 : FlushQueue(mem2) => QueueTypeOK'
<1>1. <<>> \in Seq(DeferredDdrStores)
  OBVIOUS
<1>2. KeepQueue => QueueTypeOK'
  BY DEF QueueTypeOK, KeepQueue
<1>3. ASSUME NEW mem2, FlushQueue(mem2) PROVE QueueTypeOK'
  <2>1. deferred_ddr_stores' \in {deferred_ddr_stores, <<>>}
    BY <1>3 DEF FlushQueue
  <2> QED
    BY <1>1, <2>1 DEF QueueTypeOK
<1> QED
  BY <1>2, <1>3

(* Every step keeps the store queue well typed. *)
LEMMA QueueStep ==
  ASSUME WarpTypeOK, BufferTypeOK, QueueTypeOK, Next
  PROVE  QueueTypeOK'
<1>1. ASSUME NEW id \in Fw.nest_ids, startp(id) PROVE QueueTypeOK'
  BY <1>1 DEF startp, Marker, KeepQueue, QueueTypeOK
<1>2. ASSUME NEW id, NEW Units, badid(id, Units) PROVE QueueTypeOK'
  BY <1>2 DEF badid, Marker, QueueTypeOK
<1>3. ASSUME NEW id \in Fw.gdmac_ids, starts(id) PROVE QueueTypeOK'
  BY <1>3 DEF starts, Marker, KeepQueue, QueueTypeOK
<1>4. ASSUME NEW id \in Fw.spu_ids, startt(id) PROVE QueueTypeOK'
  BY <1>4 DEF startt, Marker, KeepQueue, QueueTypeOK
<1>5. ASSUME ends PROVE QueueTypeOK'
  BY <1>5 DEF ends, Marker, KeepQueue, QueueTypeOK
<1>6. ASSUME endt PROVE QueueTypeOK'
  BY <1>6 DEF endt, Marker, KeepQueue, QueueTypeOK
<1>7. ASSUME endp PROVE QueueTypeOK'
  BY <1>7, FlushTypes DEF endp
<1>8. ASSUME split PROVE QueueTypeOK'
  BY <1>8 DEF split, Marker, KeepQueue, QueueTypeOK
<1>9. ASSUME join PROVE QueueTypeOK'
  BY <1>9, FlushTypes DEF join
<1>10. ASSUME NEW d \in Fw.sload, sloop_load(d) PROVE QueueTypeOK'
  BY <1>10 DEF sloop_load, Eager, QueueTypeOK
<1>11. ASSUME NEW d \in Fw.sstore, sloop_store(d) PROVE QueueTypeOK'
  BY <1>11, RequestType DEF sloop_store, QueueTypeOK
<1>12. ASSUME NEW d \in Fw.scopy, sloop_copy(d) PROVE QueueTypeOK'
  BY <1>12 DEF sloop_copy, Eager, QueueTypeOK
<1>13. ASSUME idle_dma PROVE QueueTypeOK'
  BY <1>13 DEF idle_dma, Eager, QueueTypeOK
<1>14. ASSUME NEW i \in TLoopInsns, try_buffer(i[1], i[2]) PROVE QueueTypeOK'
  BY <1>14 DEF try_buffer, QueueTypeOK
<1>15. ASSUME NEW i \in Fw.tdma, dma_tloop(i[1], i[2]) PROVE QueueTypeOK'
  BY <1>15 DEF dma_tloop, ExecuteOnBank, Eager, KeepQueue, QueueTypeOK
<1>16. ASSUME NEW i \in Fw.vec, vector_op(i[1], i[2]) PROVE QueueTypeOK'
  BY <1>16 DEF vector_op, ExecuteOnBank, Eager, KeepQueue, QueueTypeOK
<1>17. ASSUME NEW w \in Fw.op3, opset("op3", w) PROVE QueueTypeOK'
  BY <1>17 DEF opset, QueueTypeOK
<1>18. ASSUME NEW w \in Fw.op5, opset("op5", w) PROVE QueueTypeOK'
  BY <1>18 DEF opset, QueueTypeOK
<1>19. ASSUME NEW w \in Fw.anchors, wrspr(w[1], w[2]) PROVE QueueTypeOK'
  BY <1>19 DEF wrspr, HardBoundary, KeepQueue, QueueTypeOK
<1>20. ASSUME rdspr PROVE QueueTypeOK'
  BY <1>20 DEF rdspr, HardBoundary, KeepQueue, QueueTypeOK
<1>21. ASSUME credit_ld_op PROVE QueueTypeOK'
  BY <1>21 DEF credit_ld_op, Eager, KeepQueue, QueueTypeOK
<1>22. ASSUME NEW mask \in Fw.masks, credit_st_op(mask) PROVE QueueTypeOK'
  BY <1>22 DEF credit_st_op, Eager, KeepQueue, QueueTypeOK
<1>23. ASSUME credit_chk PROVE QueueTypeOK'
  BY <1>23, FlushTypes DEF credit_chk
<1>24. ASSUME NEW d \in Fw.s2l, mcast_s2l(d) PROVE QueueTypeOK'
  BY <1>24 DEF mcast_s2l, HardBoundary, QueueTypeOK
<1>25. ASSUME NEW d \in Fw.g2s, mcast_g2s(d) PROVE QueueTypeOK'
  BY <1>25 DEF mcast_g2s, HardBoundary, QueueTypeOK
<1>26. ASSUME NEW d \in Fw.s2s, mcast_s2s(d) PROVE QueueTypeOK'
  BY <1>26 DEF mcast_s2s, HardBoundary, QueueTypeOK
<1>27. ASSUME NEW d \in Fw.copymem, copy_mem(d) PROVE QueueTypeOK'
  BY <1>27 DEF copy_mem, HardBoundary, QueueTypeOK
<1>28. ASSUME NEW w \in Fw.wsvr, wrspr_svr(w[1], w[2], w[3]) PROVE QueueTypeOK'
  BY <1>28 DEF wrspr_svr, KeepQueue, HardBoundary, QueueTypeOK
<1>29. ASSUME NEW d \in Fw.lsvr, load_svr(d) PROVE QueueTypeOK'
  BY <1>29 DEF load_svr, HardBoundary, QueueTypeOK
<1>30. ASSUME NEW d \in Fw.ssvr, store_svr(d) PROVE QueueTypeOK'
  BY <1>30 DEF store_svr, HardBoundary, QueueTypeOK
<1> QED
  BY <1>1, <1>2, <1>3, <1>4, <1>5, <1>6, <1>7, <1>8, <1>9, <1>10, <1>11, <1>12, <1>13, <1>14, <1>15, <1>16, <1>17, <1>18, <1>19, <1>20, <1>21, <1>22, <1>23, <1>24, <1>25, <1>26, <1>27, <1>28, <1>29, <1>30
     DEF Next, Markers, SharedLoopOps, ThreadLoopOps, ControlOps, MoverOps, SvrOps

(* Settling the deferred decrements leaves counters. *)
LEMMA SettleTypes ==
  ASSUME CreditTypeOK, NEW st \in [Nests -> [Spus -> Nat]], Settle(st)
  PROVE  /\ credit_st' \in [Nests -> [Spus -> Nat]]
         /\ credit_st_deferred' \in [Nests -> [Spus -> Nat]]
<1>1. \A a, b \in Nat : Monus(a, b) \in Nat
  BY DEF Monus
<1>2. \A m \in Nests, s \in Spus : st[m][s] \in Nat /\ credit_st_deferred[m][s] \in Nat
  BY DEF CreditTypeOK
<1> QED
  BY <1>1, <1>2 DEF Settle, PerSpu

(* Every step keeps the credit counters natural numbers. *)
LEMMA CreditStep ==
  ASSUME WarpTypeOK, BufferTypeOK, CreditTypeOK, Next
  PROVE  CreditTypeOK'
<1>1. ASSUME NEW id \in Fw.nest_ids, startp(id) PROVE CreditTypeOK'
  BY <1>1, DrainedCreditTypes DEF startp, Marker, KeepQueue, CreditTypeOK
<1>2. ASSUME NEW id, NEW Units, badid(id, Units) PROVE CreditTypeOK'
  BY <1>2, DrainedCreditTypes DEF badid, Marker, CreditTypeOK
<1>3. ASSUME NEW id \in Fw.gdmac_ids, starts(id) PROVE CreditTypeOK'
  BY <1>3, DrainedCreditTypes DEF starts, Marker, KeepQueue, CreditTypeOK
<1>4. ASSUME NEW id \in Fw.spu_ids, startt(id) PROVE CreditTypeOK'
  BY <1>4, DrainedCreditTypes DEF startt, Marker, KeepQueue, CreditTypeOK
<1>5. ASSUME ends PROVE CreditTypeOK'
  BY <1>5, DrainedCreditTypes DEF ends, Marker, KeepQueue, CreditTypeOK
<1>6. ASSUME endt PROVE CreditTypeOK'
  BY <1>6, DrainedCreditTypes DEF endt, Marker, KeepQueue, CreditTypeOK
<1>7. ASSUME endp PROVE CreditTypeOK'
  BY <1>7, DrainedCreditTypes, SettleTypes DEF endp, Marker, Settle, KeepQueue, FlushQueue, FlushFails, CreditTypeOK
<1>8. ASSUME split PROVE CreditTypeOK'
  BY <1>8, DrainedCreditTypes DEF split, Marker, KeepQueue, CreditTypeOK
<1>9. ASSUME join PROVE CreditTypeOK'
  BY <1>9, DrainedCreditTypes, SettleTypes DEF join, Marker, Settle, FlushQueue, FlushFails, CreditTypeOK
<1>10. ASSUME NEW d \in Fw.sload, sloop_load(d) PROVE CreditTypeOK'
  BY <1>10, DrainedCreditTypes DEF sloop_load, Eager, CreditTypeOK, credits
<1>11. ASSUME NEW d \in Fw.sstore, sloop_store(d) PROVE CreditTypeOK'
  BY <1>11, DrainedCreditTypes DEF sloop_store, Eager, CreditTypeOK, credits
<1>12. ASSUME NEW d \in Fw.scopy, sloop_copy(d) PROVE CreditTypeOK'
  BY <1>12, DrainedCreditTypes DEF sloop_copy, Eager, CreditTypeOK, credits
<1>13. ASSUME idle_dma PROVE CreditTypeOK'
  BY <1>13, DrainedCreditTypes DEF idle_dma, Eager, CreditTypeOK, credits
<1>14. ASSUME NEW i \in TLoopInsns, try_buffer(i[1], i[2]) PROVE CreditTypeOK'
  BY <1>14, DrainedCreditTypes DEF try_buffer, CreditTypeOK, credits
<1>15. ASSUME NEW i \in Fw.tdma, dma_tloop(i[1], i[2]) PROVE CreditTypeOK'
  BY <1>15, DrainedCreditTypes DEF dma_tloop, ExecuteOnBank, Eager, KeepQueue, CreditTypeOK, credits
<1>16. ASSUME NEW i \in Fw.vec, vector_op(i[1], i[2]) PROVE CreditTypeOK'
  BY <1>16, DrainedCreditTypes DEF vector_op, ExecuteOnBank, Eager, KeepQueue, CreditTypeOK, credits
<1>17. ASSUME NEW w \in Fw.op3, opset("op3", w) PROVE CreditTypeOK'
  BY <1>17, DrainedCreditTypes DEF opset, CreditTypeOK, credits
<1>18. ASSUME NEW w \in Fw.op5, opset("op5", w) PROVE CreditTypeOK'
  BY <1>18, DrainedCreditTypes DEF opset, CreditTypeOK, credits
<1>19. ASSUME NEW w \in Fw.anchors, wrspr(w[1], w[2]) PROVE CreditTypeOK'
  BY <1>19, DrainedCreditTypes DEF wrspr, HardBoundary, KeepQueue, CreditTypeOK, AtBoundary
<1>20. ASSUME rdspr PROVE CreditTypeOK'
  BY <1>20, DrainedCreditTypes DEF rdspr, HardBoundary, KeepQueue, CreditTypeOK, AtBoundary
<1>21. ASSUME credit_ld_op PROVE CreditTypeOK'
  <2>1. nest \in Nests /\ (is_tloop => current_spu \in Spus)
    BY RoutedUnit DEF WarpTypeOK
  <2>2. CASE is_sloop
    BY <1>21, <2>1, <2>2 DEF credit_ld_op, CreditTypeOK
  <2>3. CASE ~is_sloop /\ is_tloop
    <3>1. credit_ld[nest][current_spu] \in Nat
      BY <2>1, <2>3 DEF CreditTypeOK
    <3>2. Monus(credit_ld[nest][current_spu], 1) \in Nat
      BY <3>1 DEF Monus
    <3> QED
      BY <1>21, <2>1, <2>3, <3>2 DEF credit_ld_op, CreditTypeOK
  <2>4. CASE ~is_sloop /\ ~is_tloop
    BY <1>21, <2>4 DEF credit_ld_op, CreditTypeOK
  <2> QED
    BY <2>2, <2>3, <2>4
<1>22. ASSUME NEW mask \in Fw.masks, credit_st_op(mask) PROVE CreditTypeOK'
  <2>1. nest \in Nests /\ (is_tloop => current_spu \in Spus)
    BY RoutedUnit DEF WarpTypeOK
  <2>2. credit_st' \in [Nests -> [Spus -> Nat]]
    <3>1. CASE is_tloop
      <4>1. credit_st[nest][current_spu] + 1 \in Nat
        BY <2>1, <3>1 DEF CreditTypeOK
      <4> QED
        BY <1>22, <2>1, <3>1, <4>1 DEF credit_st_op, CreditTypeOK
    <3>2. CASE ~is_tloop
      BY <1>22, <3>2 DEF credit_st_op, CreditTypeOK
    <3> QED
      BY <3>1, <3>2
  <2>3. credit_st_deferred' \in [Nests -> [Spus -> Nat]]
    BY <1>22, <2>1 DEF credit_st_op, CreditTypeOK
  <2> QED
    BY <1>22, <2>2, <2>3 DEF credit_st_op, CreditTypeOK
<1>23. ASSUME credit_chk PROVE CreditTypeOK'
  BY <1>23, DrainedCreditTypes DEF credit_chk, KeepQueue, FlushQueue, FlushFails, CreditTypeOK, credits
<1>24. ASSUME NEW d \in Fw.s2l, mcast_s2l(d) PROVE CreditTypeOK'
  BY <1>24, DrainedCreditTypes DEF mcast_s2l, HardBoundary, CreditTypeOK, AtBoundary
<1>25. ASSUME NEW d \in Fw.g2s, mcast_g2s(d) PROVE CreditTypeOK'
  BY <1>25, DrainedCreditTypes DEF mcast_g2s, HardBoundary, CreditTypeOK, AtBoundary
<1>26. ASSUME NEW d \in Fw.s2s, mcast_s2s(d) PROVE CreditTypeOK'
  BY <1>26, DrainedCreditTypes DEF mcast_s2s, HardBoundary, CreditTypeOK, AtBoundary
<1>27. ASSUME NEW d \in Fw.copymem, copy_mem(d) PROVE CreditTypeOK'
  BY <1>27, DrainedCreditTypes DEF copy_mem, HardBoundary, CreditTypeOK, AtBoundary
<1>28. ASSUME NEW w \in Fw.wsvr, wrspr_svr(w[1], w[2], w[3]) PROVE CreditTypeOK'
  BY <1>28, DrainedCreditTypes DEF wrspr_svr, KeepQueue, HardBoundary, CreditTypeOK, AtBoundary
<1>29. ASSUME NEW d \in Fw.lsvr, load_svr(d) PROVE CreditTypeOK'
  BY <1>29, DrainedCreditTypes DEF load_svr, HardBoundary, CreditTypeOK, AtBoundary
<1>30. ASSUME NEW d \in Fw.ssvr, store_svr(d) PROVE CreditTypeOK'
  BY <1>30, DrainedCreditTypes DEF store_svr, HardBoundary, CreditTypeOK, AtBoundary
<1> QED
  BY <1>1, <1>2, <1>3, <1>4, <1>5, <1>6, <1>7, <1>8, <1>9, <1>10, <1>11, <1>12, <1>13, <1>14, <1>15, <1>16, <1>17, <1>18, <1>19, <1>20, <1>21, <1>22, <1>23, <1>24, <1>25, <1>26, <1>27, <1>28, <1>29, <1>30
     DEF Next, Markers, SharedLoopOps, ThreadLoopOps, ControlOps, MoverOps, SvrOps

-----------------------------------------------------------------------------
(* Nothing waits where nothing is captured, and an emptied buffer is coherent. *)
LEMMA NotBuffering ==
  ASSUME PendingFramesCoherent, ~Buffering
  PROVE  tloop_buf = <<>>
BY DEF PendingFramesCoherent, Buffering

LEMMA EmptyIsCoherent ==
  ASSUME tloop_buf' = <<>>
  PROVE  PendingFramesCoherent'
BY DEF PendingFramesCoherent

(* A step that leaves the buffer, the warp and the anchors alone keeps it coherent. *)
LEMMA UntouchedIsCoherent ==
  ASSUME PendingFramesCoherent, UNCHANGED <<warp, armed, tloop_buf, lspr>>
  PROVE  PendingFramesCoherent'
BY DEF PendingFramesCoherent, warp, nest, spu, is_ploop, is_tloop

(* Every step keeps the buffer coherent: it empties it, or it finds nothing in it, or it
   appends under the anchors of the SPU that every earlier entry was captured under. *)
LEMMA PendingStep ==
  ASSUME BufferTypeOK, PendingFramesCoherent, Next
  PROVE  PendingFramesCoherent'
<1>1. ASSUME NEW id \in Fw.nest_ids, startp(id) PROVE PendingFramesCoherent'
  BY <1>1, EmptyIsCoherent DEF startp, Marker
<1>2. ASSUME NEW id, NEW Units, badid(id, Units) PROVE PendingFramesCoherent'
  BY <1>2, EmptyIsCoherent DEF badid, Marker
<1>3. ASSUME NEW id \in Fw.gdmac_ids, starts(id) PROVE PendingFramesCoherent'
  BY <1>3, EmptyIsCoherent DEF starts, Marker
<1>4. ASSUME NEW id \in Fw.spu_ids, startt(id) PROVE PendingFramesCoherent'
  BY <1>4, EmptyIsCoherent DEF startt, Marker
<1>5. ASSUME ends PROVE PendingFramesCoherent'
  BY <1>5, EmptyIsCoherent DEF ends, Marker
<1>6. ASSUME endt PROVE PendingFramesCoherent'
  BY <1>6, EmptyIsCoherent DEF endt, Marker
<1>7. ASSUME endp PROVE PendingFramesCoherent'
  BY <1>7, EmptyIsCoherent DEF endp, Marker
<1>8. ASSUME split PROVE PendingFramesCoherent'
  BY <1>8, EmptyIsCoherent DEF split, Marker
<1>9. ASSUME join PROVE PendingFramesCoherent'
  BY <1>9, EmptyIsCoherent DEF join, Marker
<1>10. ASSUME NEW d \in Fw.sload, sloop_load(d) PROVE PendingFramesCoherent'
  BY <1>10, UntouchedIsCoherent DEF sloop_load, Eager
<1>11. ASSUME NEW d \in Fw.sstore, sloop_store(d) PROVE PendingFramesCoherent'
  BY <1>11, UntouchedIsCoherent DEF sloop_store, Eager
<1>12. ASSUME NEW d \in Fw.scopy, sloop_copy(d) PROVE PendingFramesCoherent'
  BY <1>12, UntouchedIsCoherent DEF sloop_copy, Eager
<1>13. ASSUME idle_dma PROVE PendingFramesCoherent'
  BY <1>13, UntouchedIsCoherent DEF idle_dma, Eager
<1>14. ASSUME NEW i \in TLoopInsns, try_buffer(i[1], i[2]) PROVE PendingFramesCoherent'
  <2>1. UNCHANGED <<warp, armed, lspr>> /\ armed /\ is_tloop
    BY <1>14 DEF try_buffer, Buffering
  <2>2. UNCHANGED <<nest, spu, is_tloop>>
    BY <2>1 DEF warp, nest, spu, is_ploop, is_tloop
  <2>3. tloop_buf' = Append(tloop_buf, Entry(i[1], i[2]))
    BY <1>14 DEF try_buffer
  <2>4. Entry(i[1], i[2]).addr = lspr[nest][spu]
    BY DEF Entry
  <2>5. \A j \in DOMAIN tloop_buf : tloop_buf[j].addr = lspr[nest][spu]
    BY DEF PendingFramesCoherent
  <2>6. \A j \in DOMAIN tloop_buf' : tloop_buf'[j].addr = lspr[nest][spu]
    BY <2>3, <2>4, <2>5 DEF BufferTypeOK
  <2> QED
    BY <2>1, <2>2, <2>6 DEF PendingFramesCoherent
<1>15. ASSUME NEW i \in Fw.tdma, dma_tloop(i[1], i[2]) PROVE PendingFramesCoherent'
  BY <1>15, UntouchedIsCoherent DEF dma_tloop, ExecuteOnBank, Eager
<1>16. ASSUME NEW i \in Fw.vec, vector_op(i[1], i[2]) PROVE PendingFramesCoherent'
  BY <1>16, UntouchedIsCoherent DEF vector_op, ExecuteOnBank, Eager
<1>17. ASSUME NEW w \in Fw.op3, opset("op3", w) PROVE PendingFramesCoherent'
  BY <1>17, UntouchedIsCoherent DEF opset
<1>18. ASSUME NEW w \in Fw.op5, opset("op5", w) PROVE PendingFramesCoherent'
  BY <1>18, UntouchedIsCoherent DEF opset
<1>19. ASSUME NEW w \in Fw.anchors, wrspr(w[1], w[2]) PROVE PendingFramesCoherent'
  BY <1>19, NotBuffering, EmptyIsCoherent DEF wrspr, HardBoundary, AtBoundary
<1>20. ASSUME rdspr PROVE PendingFramesCoherent'
  BY <1>20, NotBuffering, EmptyIsCoherent DEF rdspr, HardBoundary, AtBoundary
<1>21. ASSUME credit_ld_op PROVE PendingFramesCoherent'
  BY <1>21, UntouchedIsCoherent DEF credit_ld_op, Eager
<1>22. ASSUME NEW mask \in Fw.masks, credit_st_op(mask) PROVE PendingFramesCoherent'
  BY <1>22, UntouchedIsCoherent DEF credit_st_op, Eager
<1>23. ASSUME credit_chk PROVE PendingFramesCoherent'
  BY <1>23, UntouchedIsCoherent DEF credit_chk
<1>24. ASSUME NEW d \in Fw.s2l, mcast_s2l(d) PROVE PendingFramesCoherent'
  BY <1>24, NotBuffering, EmptyIsCoherent DEF mcast_s2l, HardBoundary, AtBoundary
<1>25. ASSUME NEW d \in Fw.g2s, mcast_g2s(d) PROVE PendingFramesCoherent'
  BY <1>25, NotBuffering, EmptyIsCoherent DEF mcast_g2s, HardBoundary, AtBoundary
<1>26. ASSUME NEW d \in Fw.s2s, mcast_s2s(d) PROVE PendingFramesCoherent'
  BY <1>26, NotBuffering, EmptyIsCoherent DEF mcast_s2s, HardBoundary, AtBoundary
<1>27. ASSUME NEW d \in Fw.copymem, copy_mem(d) PROVE PendingFramesCoherent'
  BY <1>27, NotBuffering, EmptyIsCoherent DEF copy_mem, HardBoundary, AtBoundary
<1>28. ASSUME NEW w \in Fw.wsvr, wrspr_svr(w[1], w[2], w[3]) PROVE PendingFramesCoherent'
  BY <1>28, NotBuffering, EmptyIsCoherent DEF wrspr_svr, KeepQueue, HardBoundary, AtBoundary
<1>29. ASSUME NEW d \in Fw.lsvr, load_svr(d) PROVE PendingFramesCoherent'
  BY <1>29, NotBuffering, EmptyIsCoherent DEF load_svr, HardBoundary, AtBoundary
<1>30. ASSUME NEW d \in Fw.ssvr, store_svr(d) PROVE PendingFramesCoherent'
  BY <1>30, NotBuffering, EmptyIsCoherent DEF store_svr, HardBoundary, AtBoundary
<1> QED
  BY <1>1, <1>2, <1>3, <1>4, <1>5, <1>6, <1>7, <1>8, <1>9, <1>10, <1>11, <1>12, <1>13, <1>14, <1>15, <1>16, <1>17, <1>18, <1>19, <1>20, <1>21, <1>22, <1>23, <1>24, <1>25, <1>26, <1>27, <1>28, <1>29, <1>30
     DEF Next, Markers, SharedLoopOps, ThreadLoopOps, ControlOps, MoverOps, SvrOps

(* Every step keeps the state between plans quiet. *)
LEMMA QuietStep ==
  ASSUME PendingFramesCoherent, QuietOutsidePlan, Next
  PROVE  QuietOutsidePlan'
<1>1. ASSUME NEW id \in Fw.nest_ids, startp(id) PROVE QuietOutsidePlan'
  BY <1>1 DEF startp, Marker, KeepQueue, QuietOutsidePlan, warp
<1>2. ASSUME NEW id, NEW Units, badid(id, Units) PROVE QuietOutsidePlan'
  BY <1>2 DEF badid, Marker, QuietOutsidePlan, warp
<1>3. ASSUME NEW id \in Fw.gdmac_ids, starts(id) PROVE QuietOutsidePlan'
  BY <1>3 DEF starts, Marker, KeepQueue, QuietOutsidePlan, warp
<1>4. ASSUME NEW id \in Fw.spu_ids, startt(id) PROVE QuietOutsidePlan'
  BY <1>4 DEF startt, Marker, KeepQueue, QuietOutsidePlan, warp
<1>5. ASSUME ends PROVE QuietOutsidePlan'
  BY <1>5 DEF ends, Marker, KeepQueue, QuietOutsidePlan, warp
<1>6. ASSUME endt PROVE QuietOutsidePlan'
  BY <1>6 DEF endt, Marker, KeepQueue, QuietOutsidePlan, warp
<1>7. ASSUME endp PROVE QuietOutsidePlan'
  BY <1>7 DEF endp, Marker, Settle, KeepQueue, FlushQueue, FlushFails, QuietOutsidePlan, warp
<1>8. ASSUME split PROVE QuietOutsidePlan'
  BY <1>8 DEF split, Marker, KeepQueue, QuietOutsidePlan, warp
<1>9. ASSUME join PROVE QuietOutsidePlan'
  BY <1>9 DEF join, Marker, Settle, FlushQueue, FlushFails, QuietOutsidePlan, warp
<1>10. ASSUME NEW d \in Fw.sload, sloop_load(d) PROVE QuietOutsidePlan'
  BY <1>10 DEF sloop_load, Eager, QuietOutsidePlan, warp, is_sloop, is_tloop, credits
<1>11. ASSUME NEW d \in Fw.sstore, sloop_store(d) PROVE QuietOutsidePlan'
  BY <1>11 DEF sloop_store, Eager, QuietOutsidePlan, warp, is_sloop, is_tloop, credits
<1>12. ASSUME NEW d \in Fw.scopy, sloop_copy(d) PROVE QuietOutsidePlan'
  BY <1>12 DEF sloop_copy, Eager, QuietOutsidePlan, warp, is_sloop, is_tloop, credits
<1>13. ASSUME idle_dma PROVE QuietOutsidePlan'
  BY <1>13 DEF idle_dma, Eager, QuietOutsidePlan, warp, is_sloop, is_tloop, credits
<1>14. ASSUME NEW i \in TLoopInsns, try_buffer(i[1], i[2]) PROVE QuietOutsidePlan'
  BY <1>14 DEF try_buffer, Buffering, QuietOutsidePlan, warp, is_tloop, credits
<1>15. ASSUME NEW i \in Fw.tdma, dma_tloop(i[1], i[2]) PROVE QuietOutsidePlan'
  BY <1>15 DEF dma_tloop, ExecuteOnBank, Eager, KeepQueue, QuietOutsidePlan, warp, is_sloop, is_tloop, credits
<1>16. ASSUME NEW i \in Fw.vec, vector_op(i[1], i[2]) PROVE QuietOutsidePlan'
  BY <1>16 DEF vector_op, ExecuteOnBank, Eager, KeepQueue, QuietOutsidePlan, warp, is_sloop, is_tloop, credits
<1>17. ASSUME NEW w \in Fw.op3, opset("op3", w) PROVE QuietOutsidePlan'
  BY <1>17 DEF opset, QuietOutsidePlan, warp, is_sloop, is_tloop, credits
<1>18. ASSUME NEW w \in Fw.op5, opset("op5", w) PROVE QuietOutsidePlan'
  BY <1>18 DEF opset, QuietOutsidePlan, warp, is_sloop, is_tloop, credits
<1>19. ASSUME NEW w \in Fw.anchors, wrspr(w[1], w[2]) PROVE QuietOutsidePlan'
  BY <1>19 DEF wrspr, HardBoundary, KeepQueue, QuietOutsidePlan, warp, AtBoundary, is_tloop
<1>20. ASSUME rdspr PROVE QuietOutsidePlan'
  BY <1>20 DEF rdspr, HardBoundary, KeepQueue, QuietOutsidePlan, warp, AtBoundary, is_tloop
<1>21. ASSUME credit_ld_op PROVE QuietOutsidePlan'
  BY <1>21 DEF credit_ld_op, Eager, KeepQueue, QuietOutsidePlan, warp, is_sloop, is_tloop, credits
<1>22. ASSUME NEW mask \in Fw.masks, credit_st_op(mask) PROVE QuietOutsidePlan'
  BY <1>22 DEF credit_st_op, Eager, KeepQueue, QuietOutsidePlan, warp, is_sloop, is_tloop, credits
<1>23. ASSUME credit_chk PROVE QuietOutsidePlan'
  BY <1>23 DEF credit_chk, KeepQueue, FlushQueue, FlushFails, QuietOutsidePlan, warp, is_sloop, is_tloop, credits
<1>24. ASSUME NEW d \in Fw.s2l, mcast_s2l(d) PROVE QuietOutsidePlan'
  BY <1>24 DEF mcast_s2l, HardBoundary, QuietOutsidePlan, warp, AtBoundary, is_tloop
<1>25. ASSUME NEW d \in Fw.g2s, mcast_g2s(d) PROVE QuietOutsidePlan'
  BY <1>25 DEF mcast_g2s, HardBoundary, QuietOutsidePlan, warp, AtBoundary, is_tloop
<1>26. ASSUME NEW d \in Fw.s2s, mcast_s2s(d) PROVE QuietOutsidePlan'
  BY <1>26 DEF mcast_s2s, HardBoundary, QuietOutsidePlan, warp, AtBoundary, is_tloop
<1>27. ASSUME NEW d \in Fw.copymem, copy_mem(d) PROVE QuietOutsidePlan'
  BY <1>27 DEF copy_mem, HardBoundary, QuietOutsidePlan, warp, AtBoundary, is_tloop
<1>28. ASSUME NEW w \in Fw.wsvr, wrspr_svr(w[1], w[2], w[3]) PROVE QuietOutsidePlan'
  BY <1>28 DEF wrspr_svr, KeepQueue, HardBoundary, QuietOutsidePlan, warp, AtBoundary, is_tloop
<1>29. ASSUME NEW d \in Fw.lsvr, load_svr(d) PROVE QuietOutsidePlan'
  BY <1>29 DEF load_svr, HardBoundary, QuietOutsidePlan, warp, AtBoundary, is_tloop
<1>30. ASSUME NEW d \in Fw.ssvr, store_svr(d) PROVE QuietOutsidePlan'
  BY <1>30 DEF store_svr, HardBoundary, QuietOutsidePlan, warp, AtBoundary, is_tloop
<1> QED
  BY <1>1, <1>2, <1>3, <1>4, <1>5, <1>6, <1>7, <1>8, <1>9, <1>10, <1>11, <1>12, <1>13, <1>14, <1>15, <1>16, <1>17, <1>18, <1>19, <1>20, <1>21, <1>22, <1>23, <1>24, <1>25, <1>26, <1>27, <1>28, <1>29, <1>30
     DEF Next, Markers, SharedLoopOps, ThreadLoopOps, ControlOps, MoverOps, SvrOps

-----------------------------------------------------------------------------
(* The initial state is well typed, has nothing in the buffer and nothing deferred. *)
LEMMA InitTypes ==
  ASSUME Init
  PROVE  ControlTypeOK
<1>1. 0 \in Nests /\ 0 \in Spus
  BY TopologyAssumption DEF Nests, Spus
<1>2. WarpTypeOK
  BY <1>1 DEF Init, WarpTypeOK, is_tloop
<1>3. BufferTypeOK
  BY ClearedTypes DEF Init, BufferTypeOK, PerSpu, Anchors
<1>4. QueueTypeOK
  BY DEF Init, QueueTypeOK
<1>5. CreditTypeOK
  BY DEF Init, CreditTypeOK, PerSpu
<1> QED
  BY <1>2, <1>3, <1>4, <1>5 DEF ControlTypeOK

LEMMA InitCoherentAndQuiet ==
  ASSUME Init
  PROVE  PendingFramesCoherent /\ QuietOutsidePlan
BY DEF Init, PendingFramesCoherent, QuietOutsidePlan

(* A stuttering step changes nothing the invariants speak of. *)
LEMMA Stutter ==
  ASSUME UNCHANGED vars
  PROVE  /\ ControlTypeOK => ControlTypeOK'
         /\ PendingFramesCoherent => PendingFramesCoherent'
         /\ QuietOutsidePlan => QuietOutsidePlan'
<1> USE DEF vars, warp, credits
<1>1. ControlTypeOK => ControlTypeOK'
  BY DEF ControlTypeOK, WarpTypeOK, BufferTypeOK, QueueTypeOK, CreditTypeOK, is_tloop
<1>2. PendingFramesCoherent => PendingFramesCoherent'
  BY UntouchedIsCoherent
<1>3. QuietOutsidePlan => QuietOutsidePlan'
  BY DEF QuietOutsidePlan
<1> QED
  BY <1>1, <1>2, <1>3

(* Type correctness of everything but the memories, for every firmware: routing ids name
   units that exist, no credit counter ever goes below zero, and every entry and every
   queued request is complete. *)
THEOREM ControlTypeCorrect == Spec => []ControlTypeOK
<1>1. Init => ControlTypeOK
  BY InitTypes
<1>2. ControlTypeOK /\ [Next]_vars => ControlTypeOK'
  <2> SUFFICES ASSUME ControlTypeOK, Next PROVE ControlTypeOK'
    BY Stutter
  <2> QED
    BY WarpStep, BufferStep, QueueStep, CreditStep DEF ControlTypeOK
<1> QED
  BY <1>1, <1>2, PTL DEF Spec

(* The buffer holds entries only inside the T-loop that captured them, all captured under
   the anchors the SPU still has (PendingFramesCoherent), for every firmware: no order of
   markers, SPR writes and captures lets a frame be drained on the wrong unit. *)
THEOREM BufferCoherent == Spec => []PendingFramesCoherent
<1>1. Init => ControlTypeOK /\ PendingFramesCoherent
  BY InitTypes, InitCoherentAndQuiet
<1>2. ControlTypeOK /\ PendingFramesCoherent /\ [Next]_vars => PendingFramesCoherent'
  BY Stutter, PendingStep DEF ControlTypeOK
<1>3. Spec => []ControlTypeOK
  BY ControlTypeCorrect
<1> QED
  BY <1>1, <1>2, <1>3, PTL DEF Spec

(* After end.p no credit decrement, no buffered entry and, before the first WSPLIT, no
   store waits (QuietOutsidePlan), for every firmware and in both flush modes. *)
THEOREM PlanBoundaryQuiet == Spec => []QuietOutsidePlan
<1>1. Init => QuietOutsidePlan
  BY InitCoherentAndQuiet
<1>2. PendingFramesCoherent /\ QuietOutsidePlan /\ [Next]_vars => QuietOutsidePlan'
  BY Stutter, QuietStep
<1>3. Spec => []PendingFramesCoherent
  BY BufferCoherent
<1> QED
  BY <1>1, <1>2, <1>3, PTL DEF Spec
=============================================================================
