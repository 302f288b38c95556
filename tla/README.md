# A TLA+ verification project for pyspike

pyspike lets Python extend the Spike RISC-V simulator. Two parts of the repository have
logic of their own, and both are modelled here, checked with TLC and, in part, proved with
TLAPS:

* a functional model of the **GTX NPU** (`src/main/python/riscv/gtx`): firmware on the
  simulated core issues RoCC instructions, and Python handlers move data between DDR, L2
  and L1 and compute on it;
* the **ggml RPC server** (`examples/ggml-rpc-server`): clients send tensors and graphs
  over sockets, and each node of a graph is computed by a firmware kernel, compiled and
  run on that NPU, or by NumPy.

Paths below are relative to `src/main/python/riscv/gtx/` unless they start with `src/`
or `examples/`; those of the second part are relative to `examples/ggml-rpc-server/` where
they name its files.

## 1. The system

| Component | Where | State | Operations |
|---|---|---|---|
| Warp control | `context/custom1/control.py`, `context/__init__.py` | `CONTEXT` (C1 outside a plan, C4 in a plan, C2 in an S-loop, C3 in a T-loop), `current_nest`, `current_spu`, `wsplit_seen` | start.p, end.p, start.s, end.s, start.t, end.t, split, join |
| T-loop buffer | `context/custom1/tloop_buffer.py` | `_tloop_buf`: `None`, or a list of snapshots | capture, drain, frame fusion, replay |
| DMA | `context/custom0/DL/dma.py`, `dma_imp.py` | none | load, store, copy, three multicasts, copy.mem, SVR transfers |
| Deferred stores | `npu.py`, `dma_imp.py` | `deferred_ddr_stores`, a FIFO | queue, commit, commit on overlap |
| Credits | `context/custom0/DL/credit.py` | three counters per NEST and SPU | credit.ld, credit.st, credit.chk, settle |
| SPRs | `context/custom0/DL/spr.py`, `csr/` | GSPR, NSPR per NEST, LSPR per SPU; the staging words OPERAND3 and OPERAND5 | opset, wrspr, rdspr, cpsvr, iosvr |
| Dispatch | `npu.py` | everything above | custom0, custom1, reset |
| Memories | `memory.py` | L0 and L1 per SPU, L2 per NEST, one growing DDR | read, write, ensure, hex load and dump |
| Compute | `context/custom0/MX/` | none | vector, scalar, matrix, activation, ... |
| Microcode | `context/custom0/MC/ucode.py` | none of its own | mexec |
| Devices | `devices.py` | none of its own | gtx_ddr, gtx_spm, sifive_exit |
| Bridge | `src/main/cpp`, `../isa.py`, `../dev.py` | registries | trampolines |
| RPC server | `pyspike_rpc_server.py`, `wire_protocol.py` | one thread per connection, one table of device buffers with a byte account and a next pointer | 16 commands: buffers, tensors, graphs |
| Firmware runner | `pyspike_runner.py`, `firmware_templates/` | a directory of compiled kernels; compiler and simulator processes | one runner per operator: check the shape, build, write hex sections, run, read the dump |
| Host compute | `ggml_compute.py`, `ddr_backend.py`, `op_registry.py` | none | views on the buffers, one NumPy function per ggml operator, write-back |

**How the NPU's parts interact.** The simulator is one process and one thread; a RoCC instruction
is a call of `GtxNpu.custom0` or `GtxNpu.custom1`, which runs one handler to its end.
There is no concurrency between instructions. What is hard is *deferral*: the hardware
runs the shared engine (S-loop) and the threads (T-loops) at the same time, the simulator
runs them one after the other, and so it delays three things and has to put them back in
order later:

1. **T-loop instructions** are captured in a buffer, with their operands, and executed at
   the next instruction that is not of the bufferable kind, or at the next marker;
   consecutive (load, unary, store) frames are executed in bulk.
2. **S-loop stores** are queued and read their L2 source only when they are committed:
   at end.p, at WJOIN, before an S-loop load overwrites the source, before copy.mem
   touches the DDR.
3. **S-loop credit.st decrements** wait until the end of the plan.

On top of that, the words staged by opset live for one instruction, and what an
instruction acts on depends on the context and the ids the markers left behind. An
exception in a handler ends the process (`src/main/cpp/riscv_extension.cc:109-127`).

**How the server's parts interact.** Each connection is served by a thread; the threads
share the buffer table (under a lock, except for the second half of a free) and the kernel
directory (without any). A graph is a one-way command: its nodes are walked in order, and
for each node a *route* decides by the operator, the types and the shapes whether firmware
can compute it. A route reads the operands out of the device memory, casts them to fp16,
cuts them into chunks or tiles, and makes one runner call for each; a call finds or builds
the kernel for its key and runs it in a new simulator process, with the operands and the
result carried by hex files whose bus words are reversed. Any exception on the way falls
back to NumPy. What is hard is that everything a node uses can change under it (another
session frees or refills a buffer, a compiler outlives its timeout, a kernel file is half
written), and that two different programs must compute the same bytes.

**What makes each component correct.**

* Buffer: delaying and fusing change nothing the firmware can see.
* Deferred stores: each address ends with the element its last store names; no store reads
  a source that was overwritten while it waited; nothing waits once the plan is over.
* Credits: deferring and buffering neither lose, repeat nor misattribute an operation; the
  counters never go below zero.
* Routing: an instruction reaches the NEST and SPU of its context, or the units its own
  mask selects, and no other; where the SVR transfers depart from this, they reach one SPU.
* Memories: no transfer grows a memory or leaves it.
* Server: an address a client holds never reaches another client's buffer; the account is
  the buffers; each request that has an answer gets exactly one, whatever compilers and
  simulators do; a failing graph never ends its session.
* Runner and host compute: a kernel found in the cache is the kernel the call would
  compile; the firmware leaves the memory NumPy would leave, in the destination only.

`PROJECT.json` lists the hazards with their lines.

## 2. The modules

| Module | What it is |
|---|---|
| `DmaRows` | row-by-row transfers between flat memories, as operators |
| `TLoopBuffer` | the buffer's pure part: the bufferable handlers on a *bank* (L1, L2 and anchors of one SPU), frame parsing, the guard of the bulk path, the bulk path, the drain loop |
| `GtxNpu` | the state machine: one action per instruction |
| `CreditLedger` | the abstract specification of the credits: two plain balances |
| `GtxNpuProperties` | invariants, action properties, and the two refinements |
| `MCGtxNpu` | small firmwares and images for TLC |
| `GtxNpuProofs` | theorems about the NPU: control types, the buffer, the plan boundary |
| `FoldProofs` | lemmas: induction over bounded sets of naturals, folds, sums, maxima |
| `MemoryProofs` | theorems: the types of the memories, routing, what a commit writes, and that waiting stores keep their sources |
| `RefinementProofs` | theorems: a drain is the replay of its entries, the credits implement `CreditLedger`, the buffered NPU implements the unbuffered one |
| `KernelCache` | the kernel directory and the processes that fill and run it: lookup, link, failure, timeouts, orphaned compilers |
| `RpcServer` | clients, sessions, device memory and the walk of a graph, over `KernelCache` |
| `MCRpcServer` | two clients and their requests for TLC |
| `RpcServerProofs` | the theorems about the server: addresses, answers, writes, graphs, the account, types |
| `Tensors` | arrays, views with strides, extents, casts, reading and writing device memory |
| `HostCompute` | the NumPy backend: one result per ggml operator, or the exception it raises |
| `Firmware` | one runner call: text, key, hex sections, and what each of the 25 templates leaves at the result address |
| `GraphRoute` | one session's graph: the guards of every route, the calls, the cache by key and text, the fallback |
| `MCGraphRoute` | about a hundred nodes and a memory for TLC |
| `GraphHostProofs` | lemmas: how long the result of each host operator and of each dump is, and how far a destination reaches |
| `GraphRouteProofs` | the theorems about the walk of a graph: kernel cache, destinations, types of its control |
| `GraphTypeProofs` | the theorem about what a graph computes: every element read is one that was given |

`GtxNpu` extends `TLoopBuffer`, which extends `DmaRows`; `GtxNpuProperties` instantiates
`CreditLedger`, and `GtxNpu` itself with the buffer taken out. `RpcServer` extends
`KernelCache` and composes the two: a session's thread is inside the cache's machine while
its node runs as firmware. `GraphRoute` extends `Firmware`, `HostCompute` and `Tensors`.
`RpcServer` leaves open what a node computes and which route it takes; `GraphRoute` leaves
out the other sessions and how a build fails. They meet at the node: `NodeSpike`,
`NodeNumpy` and `WriteResult` of the one are `Take`, `NumPyFallback` and `FinishRoute` of
the other.

### State and actions of the NPU

Variables carry the source's names: `CONTEXT`, `current_nest`, `current_spu`,
`wsplit_seen`, `deferred_ddr_stores`, `credit_ld`, `credit_st`, `credit_st_deferred`.
`armed` and `tloop_buf` are the two things `_tloop_buf` can be (`None`, or a list);
`staging` holds OPERAND3 and OPERAND5; `lspr` the anchors SPM_ADDRA, SPM_ADDRB and
SPM_ADDRR; `l0` the SVR registers of each SPU, `l1`, `l2` and `ddr` the memories; `halted` is set
by an exception.

Each action is the whole instruction: `Marker` (the drain that `custom1` does first) or
`HardBoundary` (the drain that `custom0` does before an instruction that is neither
bufferable nor transparent), the handler, and `ClearStaging`. The firmware is the
environment: the constant `Fw` names the instructions and operands it may issue, and it
may issue any of them at any time. So every program over that alphabet is covered,
including sequences no kernel library would emit, such as start.t inside a T-loop.

### State and actions of the server

`RpcServer`: `buffers`, `nextPtr` and `allocated` are the fields of `DeviceMemory`;
`inbox` and `outbox` the two directions of each socket; `thr` the program point of each
session's thread (`hello`, `recv`, `handle`, `freed` between the two halves of a free,
`node`, `numpy`, `kernel`, `write`). A handler is one action, unless the code lets another
thread in between: a free is two, a node is up to four steps plus those of its kernel.
CPython (3.10 on) switches threads at calls and at loop ends only, so `allocated -= n` is
one step; the model, and `Accounted`, rely on that. `issued` is a history of the
pointers handed out, and `home` in a tensor names the buffer whose pointer the client
computed the tensor's address from; neither is read by an action of the server.
`KernelCache`: `elf` is the state of each file, `orphans` the compilers that outlived the
bash that `subprocess.run(timeout=...)` killed, `call` where each thread is in the runner.

`GraphRoute`: `Take` deserialises a node and runs the guards of its route (`TryPyspike`),
which yields the firmware calls; `BuildKernel` and `RunKernel` are a call's two halves;
`CallFails` is any exception of either; `FinishRoute` writes the result;
`NumPyFallback` is `Fallback` of `HostCompute`. `elves` maps a cache key to the *text*
the file was built from, which the code does not keep: the file name is the key.

### Abstractions

The NPU:

* One address is one element, not one byte, and an element is a member of `Val`. This is
  the default build, where L1 and L2 hold the same element type and a T-loop transfer is a
  raw copy (`dma_imp.py`, `_DMA_CONVERTS` false).
* What a unary or arithmetic instruction computes is a parameter (`UnaryFn`, `ArithFn`).
  One mnemonic stands for its whole family.
* `decode_dma_args` is represented by its result: an operand is a record of the decoded
  fields, and only the stride that comes from OPERAND3 is read from `staging`.
* The DDR has its largest size from the start: growth is invisible to the handlers.
* `rdspr` is a hard boundary that writes none of this state. For the instructions of
  `context/custom0/MX` that are not buffered (mm, tpose, fill, reductions) it stands for the
  boundary alone: what they write is not modelled, and the statements about routing do not
  cover them. tpose and mm use `current_spu` without looking at the context, like the SVR transfers
  (`MX/mem_op.py:106`, `MX/matmul.py:95`).
* L0 is its SVR registers, `SvrNum` of `SvrLen` elements each (32 of 32 bytes in the code); the
  rest of L0 has no reader. A wrspr to an SVR writes one element, where the code writes one
  64-bit word of the register, and the copy of the word that `rdspr` reads is left out.
* A staged OPERAND3 is a pair `lo`, `hi` of 32-bit words. copy.mem in the code takes 37 bits for its
  destination and bits 63 to 48 for the upper half of its stride (`dma.py:372-374`); the model
  takes `lo` and `hi`. The two differ for words with bits 36 to 32 set, and in what `hi` is worth.
  `FrameSignature` compares `lo`, the half that the buffer's operands use.
* Left out: SPM_ADDRC, the OPERAND2 staging inside the fused path, diagnostics, environment
  variables that only print.
* **Inputs excluded.** T-loop operands are those the handlers accept (`TLoopWindow`, and
  vectors inside L1 wherever the firmware may place the anchors), so a drain does not
  raise. A handler that raises in the middle of a drain would leave a buffer half executed;
  the process ends there. `TLoopWindow` also excludes windows of overlapping rows (a stride
  below the length) that go beyond L2, which `dma_imp.py:274-291` takes modulo its size.

The server:

* A request in `RpcServer` is its unpacked payload; commands answered without looking at
  any state share one action (`AnswerPlain`). A request that cannot be decoded is
  `Undecodable`. A buffer's bytes are in the model; the tensors of the runs span one byte.
* The lookup of an address under the lock and the read or write after it are one action
  (`SetTensor`, `CopyTensor`, `WriteResult`), and so is the byte loop of `BufferClear`. A free
  between the two halves changes nothing: the handler holds the buffer object, and no pointer is
  handed out twice. Between two bytes of a clear, another session could see some of them cleared; no
  property speaks about the values of two sessions that use the same buffer at once.
* `WriteResult` past the end of a buffer extends its bytearray; the code may also raise
  BufferError while another session has a view on it, which is caught and ends the node with an
  error, as a missing buffer does. `KernelAnswers` is one kernel call per node, whether a
  route makes one or many; `GraphRoute` has the calls one by one.
* `GraphRoute` counts memory in halfwords: an fp16 element is one, a 32-bit element two, of
  which the second (`Low`) only says that it was written. Numbers are integers; a function
  that leaves the integers (tanh, a reciprocal, a mean) is a token or a cross-multiplied
  integer that host and firmware share, so a property never depends on rounding. What is
  exact is *where* each element comes from and goes to: shapes, strides, windows, masks,
  broadcasts, chunks, tiles, bus words.
* A template is modelled by what it leaves at the result address, not by its instructions;
  those are `GtxNpu`'s, for every firmware. The templates issue the shared section's stores
  before the threads' code, which is right only because of the deferred queue, and
  the concatenation and triangle kernels reuse L2 rows under the overlap guard.
* **Inputs excluded** from the instances of `GraphRoute`, because host and firmware differ
  there or a dimension wraps: GROUP_NORM of more than one row (the firmware normalises the
  whole tensor), CLAMP with min > max, TRI of a non-square matrix, CONCAT of one channel
  each along axis 2 (NumPy sees fewer dimensions), strided sources of the routes that
  ignore strides, tensors that reach a template's L2 result area, and 16-bit DMA lengths
  that wrap. The strided one-channel IM2COL has a run of its own.

## 3. What is checked

The runs of the NPU use module `MCGtxNpu`. Elements are bits, the unary operation negates one, so
that applying it never, once, twice or to the wrong row are different outcomes.

| Run | Instance | Checks | Shows |
|---|---|---|---|
| `tloop` | 1 NEST, 1 SPU, L1 2, L2 3, buffer 7 | `PendingFramesCoherent`, `DrainIsReplay` | draining in bulk equals replaying entry by entry |
| `threads` | 1 NEST, 2 SPUs, 1 SVR, buffer 2 | `FusedEqualsEager`, `ReachesOnlySelected` | the buffered NPU implements the unbuffered one, and drains reach their own SPU |
| `stores` | 2 NESTs, 1 SPU, L2 2, DDR 3, queue 2 | `TypeOK`, `QuietOutsidePlan`, `CommitWritesLatest`, `StoreBeforeOverwrite` | the deferred stores |
| `credits` | 2 NESTs, 2 SPUs, counters 1, buffer 2 | `TypeOK`, `QuietOutsidePlan`, `LedgerRefinement` | the deferred and buffered credits implement `CreditLedger` |
| `eager` | 2 NESTs, 2 SPUs, fusion off, GTX_CHK_FLUSH=1 | `CommitWritesLatest`, `ReachesOnlySelected` | transfers and multicasts reach only what they are routed to; commits write the latest values |
| `fused_overlap` | as `tloop`, other operands | `DrainIsReplay` | **violated**, see below |
| `sloop_copy` | 1 NEST, 1 SPU | `StoreBeforeOverwrite` | **violated** |
| `copy_mem` | 1 NEST, 1 SPU | `CopyMemServesEveryPair` | **violated** |

The runs of the server use `MCRpcServer` and `MCGraphRoute`.

| Run | Instance | Checks | Shows |
|---|---|---|---|
| `rpc_memory` | 2 sessions, buffers of 3 bytes, 3 pointers | `TypeOK`, `AddressesAreOwned`, `Accounted`, `AnswersMatch`, `WritesStayHome` | the shared device memory and the conversation |
| `rpc_graphs` | 2 sessions, 1 kernel, 1 buffer | `GraphFailuresContained`, `EveryRequestAnswered` | graphs under failing tools and vanishing buffers |
| `graph_route` | about 100 nodes, graphs of up to 2 | `TypeOK`, `CachedKernelFits`, `FirmwareMatchesHost`, `OnlyDestinationWritten` | the routes and the fallback agree |
| `strided_patch` | a strided one-channel IM2COL | `FirmwareMatchesHost` | **violated** |

### The properties

* `TypeOK` — one type invariant. Its content is that routing ids name real units, that
  counters stay naturals and that no transfer changes the domain of a memory.
* `PendingFramesCoherent` — entries wait only inside the thread that captured them and
  under anchors equal to the live ones. `_execute_fused` and `custom0` rely on it without
  a check.
* `DrainIsReplay` — an invariant that evaluates both executions on the current state.
  `BulkRunsApart` names what it depends on: no run of frames the bulk path takes stores a row
  that a later frame of the run loads. `Fusable(Fw)` says it of a whole alphabet, and
  `FusableInstances`, evaluated by every run of the NPU, that the alphabets of `tloop` and
  `threads` are fusable and that of `fused_overlap` is not.
* `FusedEqualsEager` — `GtxNpu` implements `GtxNpu` with `FusionEnabled <- FALSE`,
  `armed <- FALSE`, an empty buffer, and the memories *as if* the buffer had been replayed.
  Capturing an instruction must be a step of the eager machine, and draining must stutter.
* `QuietOutsidePlan` — in C1 no decrement, entry or (without WSPLIT) store waits.
* `CommitWritesLatest` — an action property that names, for every DDR address, the
  last queued row covering it and compares it with what the step wrote. The source is L2 as
  it is once the T-loop buffer is drained and before the instruction that forces the
  commit writes any L2 of its own (a load into a pending row, a copy.mem from the DDR).
* `StoreBeforeOverwrite` — while a store waits in an S-loop, its source is not overwritten. In run `stores`
  that is about LOAD; no mover and no wrapped row occurs there.
  `OrderedStores(Fw)` is what it needs: LOAD is the only writer of L2 in an S-loop, and no row
  of a store starts beyond the end of L2. `OrderedInstances` says which alphabets have it.
* `LedgerRefinement` — with the waiting operations counted in, the counters move as two
  plain balances that may go negative until the plan ends.
* `ReachesOnlySelected` — routing of L0, L1 and L2, and that a staged word outlives only opset and
  instructions that change nothing. Outside a thread an instruction reaches SPU 0, whatever ran
  before, with the exceptions the property names one by one: a multicast reaches what its
  mask selects, a wrspr of an SVR in a plan every SPU of its NEST, and load.svr and store.svr
  the SPU of the last start marker, since `_select_spu` (`dma.py:37`) does not look at the context.
* `CopyMemServesEveryPair` — copy.mem does not fail on windows that fit.

* `AddressesAreOwned` — no address computed inside a buffer ever finds another one, freed
  or not: `alloc` never hands out bytes twice, so a stale tensor is refused.
* `Accounted` — `allocated` is the live buffers plus the frees between their two halves.
* `AnswersMatch` — a client never finds an answer it is not waiting for, on error paths
  included: the protocol has no request ids, so one answer too many shifts all later ones.
* `WritesStayHome` — a buffer changes only while some session handles a request that names
  it, whatever is freed and allocated while a node is computed.
* `GraphFailuresContained` — no step of a graph's walk closes its session. It does not say that
  a kernel file left half written is ever repaired; nothing in the code does that.
* `EveryRequestAnswered` — liveness: a request that has an answer is answered, or its
  session closed, although compilers and simulators may hang.
* `CachedKernelFits` — a key names one kernel, though eps, tile sizes and windows are part
  of its text.
* `FirmwareMatchesHost` — an action property: a node that firmware computes leaves the
  memory that NumPy would have left, also after earlier nodes filled the cache or failed.
* `OnlyDestinationWritten` — nothing outside the destination's extent is written, and
  nothing at all before the node completes. `GraphsComputable` says which graphs have it: a node
  that reaches firmware has sources without gaps, and is one NumPy would compute.

### Bounds and why they are enough

* `MaxBuf` caps the buffer: 7 entries hold two frames (three entries each) and one of their
  optional credit entries, so two frames that fuse, a frame next to entries that do not fuse, and a
  frame cut in two all occur. In `threads` and `credits` 2 entries are enough to separate
  their order and their owners.
* `MaxDeferred` caps the queue at 2 stores of two rows: overlapping rows, stores of two
  NESTs (`stores`), and a store that cannot be committed behind one that can (`eager`).
* `MaxCredit` caps the counters at 1, in the guards of the actions that increment.
* `tloop` and `fused_overlap` use the state constraint `FrameShaped`: it keeps buffers that are
  chains of frames or of almost-frames, and one batch per behaviour. Batches after the
  first start from the same anchors; what memory they start from does not matter to the
  guard. `threads` interleaves drains freely; its constraint `SvrsOrScalars` leaves out behaviours that
  have both a non-zero SVR register and a scalar mode staged or buffered. One SVR of one element is
  enough to tell the SPUs apart. `load.svr` has L1 cell 0 and `store.svr` cell 1 for operand, so
  an SVR can carry a value from one thread to the other.
* Each run has `CHECK_DEADLOCK FALSE` only where the firmware can raise: a halted
  simulator has no next step. The other runs check for deadlock.

* `rpc_memory`: a pointer advances by max(size, alignment), rounded up. Size 3 against a
  granularity of 2 makes the rounding matter; `MaxPtr` stops the clients when two or
  three buffers have been issued, enough for a stale, a live and a new one; `Offsets` {2}
  puts tensors at the last byte, `Skips` {0, 1} writes inside and past the end. The second
  client frees and writes what the first allocated. `MaxInFlight` 1 still lets a client
  queue a one-way request behind another that is being handled.
* `rpc_graphs`: one key and one buffer, so the sessions collide on both. Each graph starts
  with a node that is missing from the tensor table, so every walk goes on after an error.
  `BUFFER_CLEAR` is among its commands and not among those of `rpc_memory`, whose invariants
  are about which buffers there are and whose conversation it would only lengthen:
  `WritesStayHome` is checked for the other writes, and proved for this one as well.
* `graph_route`: Bus 4, LaneWidth 2, Spus 2, Chunk 4, tiles of 2 x 2, limits of 16: an
  input of 6 elements has a full and a short chunk and a padded bus word, a 3 x 3 product
  has full, short and corner tiles, three rows do not share evenly among SPUs, and
  each guard is met by some node and missed by another. Two nodes are enough for one to
  fill the cache the other reads, or to overwrite its sources; every call may fail. Some nodes
  name fewer sources than they read, or tensors without elements. `GraphsComputable`, the
  hypothesis of `DestinationOnly`, is evaluated on these nodes.

### Fairness

For the NPU none is assumed and no liveness is claimed: a step is an instruction the
firmware chooses to issue, and each handler terminates.

`RpcServer` states weak fairness of `SessionStep(s)` for each session and of nothing else.
A session is an operating-system thread, so a step it can take is taken eventually; this
includes the timeouts of `subprocess.run`, which the thread itself enforces. Clients
(`ClientStep`), compilers and simulators (`ToolStep`, `OrphanStep`) get none: they may
hang for ever, which is what `EveryRequestAnswered` is about. A free-running session never
blocks another: the lock of `DeviceMemory` is held inside single steps only.

### Where the code disagrees

* **Fused frames that feed each other** (`fused_overlap`). The guard at
  `context/custom1/tloop_buffer.py:534` compares lengths, offsets and anchors. It does not
  compare the L2 rows that are read with those that are written, and the bulk path reads all
  of them first. Frame 1 loads row 0 and stores row 1, frame 2 loads row 1 and stores row 2:
  row 2 ends as the negation of the *old* row 1. The comment there says "(never miscompiles)".
* **COPY in an S-loop** (`sloop_copy`). Only LOAD calls `flush_deferred_if_l2_overlap`;
  COPY (`context/custom0/DL/dma.py:302`) writes L2 under a waiting store. The three movers
  mcast.g2s, mcast.s2s and copy.mem into L2 do so as well.
* **A waiting store whose rows wrap** (no run of its own: put `WrappedFw` for `ReuseFw` in
  `sloop_copy.cfg`, with `CHECK_DEADLOCK FALSE`, and TLC finds it in five steps). The guard takes the
  source of a store for one linear range (`npu.py:277-279`), the commit takes each row modulo the size
  of L2 (`npu.py:304`): a load into a row that wrapped to the start of L2 flushes nothing, and
  the store later commits the loaded elements. This came out of the proof of
  `WaitingStoresKept`, which has no step for a wrapped row.
* **copy.mem from L2 to DDR** (`copy_mem`). `dma.py:187` calls `.cpu()` on a NumPy array.
* **Strided IM2COL of one channel** (`strided_patch`).
  `firmware_templates/unary_im2col.c.tpl:23` computes the output size without the stride,
  the runner with it: the kernel numbers its patches by the wrong row length.

Comments that say something else than the code, without a run of their own:

* `context/custom0/DL/spr.py:59-62` says the mirror into L0 is there so that store.svr reads back
  what wrspr wrote. Inside a thread it does. Outside a plan wrspr writes the register of SPU 0
  (`spr.py:88-90`), while store.svr reads that of the SPU of the last start marker
  (`dma.py:37`, `dma.py:322`): after a thread on SPU 1 the value written is not the value stored.
* `context/__init__.py:81-82` says a staged word "persists until the next opset(1, ...) —
  it is not consumed per instruction"; `npu.py:225-232` clears both words after every instruction.
* `control.py:16` says buffering is disabled; `startt` arms the buffer.
* `control.py:113` and `dma_imp.py:176-177` say credit.chk commits the queue; it does so
  only with GTX_CHK_FLUSH=1 (`credit.py:131`).
* `tloop_buffer.py:89-91` and `npu.py:214-215` say opset and wrspr can interleave with a
  batch; wrspr is a hard boundary (`tloop_buffer.py:130-137`).
* `dma.py:90` accepts a stride above the row length for mcast.g2s; the span read at line 94
  ends with the last row, so the reshape at line 95 raises for every such stride, one row
  included. Similarly the S-loop load asserts a smaller L2 window (`dma_imp.py:216`) than
  its reshape needs (line 237).

Other differences met in the server, without a run of their own:

* NumPy fails where firmware succeeds, because views drop trailing unit dimensions: PAD and
  POOL_2D on two dimensions, CONCAT of one channel, MUL_MAT of one row, UPSCALE of one row;
  TRI and ARANGE have no NumPy version. `Expected` in `GraphRoute` says what is compared.
* UPSCALE reshapes its source outside the `try`: a strided source ends the node with an
  error instead of the fallback (`Crash` in `UpscaleRoute`).
* `pyspike_rpc_server.py:1035` documents MUL_MAT as "2D contiguous fp16 only", but no guard
  tests contiguity: a strided source of the right span is read in memory order.
* The shape-parameterised unary route sizes its result by the bytes its source spans
  (`pyspike_rpc_server.py:484-487`: the kernel "packs all remaining elements into HEIGHT"), and no guard
  compares them with the destination. An F16 source with gaps, such as SQR of a 2 x 2 view with
  strides of 1 and 3, writes past its destination. `GraphsComputable` excludes it.
* `DeviceMemory.alloc` moves the next pointer before it may raise MemoryError; buffers of a
  session that ends are never freed; GET_ALIGNMENT says 64 while pointers are 8-aligned; a
  device index the server does not have closes the session.

## 4. What is proved

Module `GtxNpuProofs`, for every topology, memory size, image and firmware that satisfies
the named assumptions of `GtxNpu` (`TopologyAssumption`, `SizeAssumption`,
`ImageAssumption`, `ModeAssumption`, `BoundAssumption`, `FirmwareAssumption`, `MaskAssumption`). The
assumptions say no more than that sizes are positive, operands are decoded operands, a credit.st
has some mask, and T-loop operands are accepted ones. TLC evaluates them in every run.

* `ControlTypeCorrect` : `Spec => []ControlTypeOK`. The types of everything but the
  memories. `ControlTypeOK` is inductive: the ids come from checked markers, `Monus` cannot
  go below zero, a captured entry is built from well-typed parts.
* `BufferCoherent` : `Spec => []PendingFramesCoherent`. Inductive together with
  `ControlTypeOK`, which gives the type of the buffer: a marker empties the buffer, a
  hard boundary empties it if it could be non-empty (`NotBuffering`), and `try_buffer`
  appends under the anchors that all earlier entries have.
* `PlanBoundaryQuiet` : `Spec => []QuietOutsidePlan`. C1 is left only by start.p and
  entered only by end.p; the buffer half needs `PendingFramesCoherent`, because the
  instructions issued in C1 could otherwise act on entries that wait. The S-loop operations,
  which are the only ones to defer, need C2.

Each proof there has one lemma per conjunct of the invariant (`WarpStep`, `BufferStep`,
`QueueStep`, `CreditStep`, `PendingStep`, `QuietStep`) with one step per action, and a
temporal step at the end.

The other modules about the NPU rest on the same assumptions and on these theorems, and on
`ElementAssumption` (what the vector operations compute are elements).

Module `MemoryProofs`:

* `NpuTypesCorrect` : `Spec => []TypeOK`. The content is in the memories: each has the same
  cells for ever, and each holds elements. The invariant `MemoryInv` adds two parts
  to the types: a captured entry was *accepted* by its handler's checks when it was captured
  (`Captured`), and the anchors are inside L1 (`AllAnchorsFit`). Both are needed because an entry
  is executed long after it was checked, by code that does not check again: `_execute_fused` and the replay
  compute L1 and L2 addresses from the words alone.
* `RoutingConfined` : `Spec => ReachesOnlySelected`. An action writes the L0 and L1 of its own unit, the
  L2 of its own NEST, or what its own mask selects; the SVR transfers, the unit of the last start
  marker. Drains need `PendingFramesCoherent`: entries wait only in the thread that captured them. The half
  about staging says that no other instruction ever finds a mask.
* `CommitsFaithful` : `Spec => CommitWritesLatest`. For every queue, with overlapping, strided and wrapping
  rows of any NEST: by induction over the queue, a commit leaves at each address what the last
  row of the last store that covers it names (`FlushedLatest`), and that row is the one
  `LastCovering` chooses, which is unique. The first attempt failed at copy.mem from the DDR into the source of
  a waiting store: the property then compared with the L2 *after* the instruction, and the image of
  run `eager` had equal elements there, so that TLC could not tell. It now compares with the drained L2, and
  the image has two different elements.
* `WaitingStoresKept` : `OrderedStores(Fw) => (Spec => StoreBeforeOverwrite)`. The invariant `OrderInv`
  says that the staged word is one the firmware stages (`StagedWord`) and that no row of a queued store
  starts beyond L2 (`QueuedInside`). Then the linear extent from the first to the last row, which
  `flush_deferred_if_l2_overlap` compares, contains every element the commit will read, and the extent of
  the load every element it writes; disjoint extents have no element in common.

Module `RefinementProofs` first shows that the drain is faithful:

* `DrainFaithful` : `Spec => [](BulkRunsApart => DrainIsReplay)`. For buffers of every length: what the fused loop of
  `custom0` leaves in L1 and L2 is what the replay of the entries one by one leaves. Bottom up: a
  load, a unary operation and a store are moves of one row (`LoadIsRow`, `UnaryIsMap`, `StoreIsRow`);
  the three in a row are a frame (`RowsMakeFrame`), which touches L1 only under the anchors; a
  run of frames at a constant stride, none of which loads what an earlier one stored, computes all its results
  from the first L2 (`FramesInARow`); the bulk path computes just that (`BulkIsFrames`); and
  the loop that alternates between runs and single entries composes (`FusedReplays`), by induction
  over the position in the buffer. The guard of the code (`tloop_buffer.py:534`) gives everything
  that is used, except that the rows are apart.
* `FusableDrainFaithful` : `Fusable(Fw) => (Spec => []DrainIsReplay)`. The same from a condition on
  the firmware alone, the one under which the comment "(never miscompiles)" is true. Run
  `fused_overlap` shows that it cannot be dropped.

and then, with it, the two refinements:

* `CreditsImplementLedger` : `Spec => LedgerRefinement`. The balances of an SPU are its counters once
  the buffer is drained (`LoadBalance`), for stores less the decrements that are deferred (`StoreBalance`). Each
  instruction is a step of the ledger or leaves both (`Balanced`): a drain moves into the counters what the
  balances counted in already, a capture moves a balance before the counter, and `Settle` is the
  ledger's `Settled`. What one more entry adds to the drained counters is a fact about a fold,
  from `FoldProofs`. `BufferCoherent` is needed: the drain credits the SPU that is current at the drain,
  the capture the one current at the capture, and entries wait only where the two agree.
* `FusionImplementsEager` : `Spec /\ []BulkRunsApart => FusedEqualsEager`. Along every behaviour in which
  the rows of fused runs are apart, the buffered machine implements the same machine with
  GTX_NO_FUSION=1. One lemma per handler says that its step is the step of the same handler on the memories the
  buffer replays to (`EagerStep` combines them). Three kinds of step need an argument. *Draining* ones, the markers
  and the hard boundaries: `ReplayedIsDrained`, from `DrainIsReplay`, says that the drained memories are the replayed ones,
  so that the handler reads and writes what the eager one does (`EagerMarker`, `BoundaryMaps`). *Immediate* ones:
  they run with an empty buffer, because `PendingFramesCoherent` says that entries wait only where they would have
  been buffered too (`EagerMaps`). *Captures*: one more entry is one more replay (`OneMoreEntry`, by induction
  over the buffer), under the anchors the entry carries (`OwnAnchors`), and a captured credit counts at once
  (`CaptureCounts`); the step is then dma_tloop, vector_op or a credit operation of the eager machine
  (`CaptureMaps`). A thread's credit.st ignores its mask, but the eager action has one, which is
  what `MaskAssumption` is for.
* `FusableImplementsEager` : `Fusable(Fw) => (Spec => FusedEqualsEager)`, the same from the condition on the firmware.

Module `RpcServerProofs`, for any set of sessions, any clients, graphs, sizes and kernels,
under `AllocAssumption` (sizes and offsets are naturals, the first pointer is on the
granularity) and `SessionsAssumption`:

* `BuffersNeverAlias` : `Spec => []AddressesAreOwned`. The invariant `MemoryInv` says that
  requests are well formed, whatever pointers they name (`RequestsOK`), that issued ranges are disjoint and lie
  below `nextPtr` (`PointersOK`), and that a live buffer is an issued one (`TableOK`). A new
  buffer starts at `nextPtr`, above everything issued; `Advance` moves it past the buffer.
* `AnswersNeverDrift` : `Spec => []AnswersMatch`. `ConversationInv` ties the thread, the
  inbox and the outbox of a session to the command its client awaits: at most one request
  that has an answer is under way, and it is last.
* `WritesReachNamedBuffers` : `Spec => WritesStayHome`, under two more hypotheses about the
  clients: the offset of a tensor lies inside the size of the buffer it was made in
  (`OffsetsInside`), and a graph is a sequence of nodes over the client's tensors
  (`GraphsWellFormed`); both runs satisfy them. The invariant is `MemoryInv` with `HomeInv`:
  each tensor that a waiting or a running request writes has an address inside the buffer
  it was made in, one that was issued (`RequestInside`), and a thread inside a graph is at
  one of its nodes. A freed buffer stays in `issued`, so a late write finds no buffer, or
  by `BuffersNeverAlias` the one it means.
* `GraphsNeverCloseSessions` : `Spec => GraphFailuresContained`. A thread at a node is moved
  by its own steps only (`SessionIsLocal`), and each of them goes on with the graph, answers
  or drops the request (`GraphGoesOn`).

* `AccountBalances` : `Spec => []Accounted`. The account is a sum over the table of live buffers plus
  one over the sessions whose free is between its two halves. `AccountInv` adds that the table is
  finite and that every such session still knows the size it has to give back. Adding a buffer, moving one
  from the table to a session and settling each change a sum in one place (`IsSum`, `SumGrows` and `SumSame` of
  `FoldProofs`); all other steps keep the books (`SameBooks`).
* `ServerTypesCorrect` : `Spec => []TypeOK`, where graphs are sequences of nodes over the tensors of the
  client (`GraphsWellFormed`), also once it has more tensors (`GraphsGrow`). The invariant is
  `MemoryInv` and `AccountInv` with the multiples of the granularity (`Tidied`), the
  kernel states, and, for each session, that a request was sent over pointers issued and that a
  walk is at a node of its graph.

Module `GraphRouteProofs`, on the lemmas of `GraphHostProofs`, for every set of nodes of `NodeType`,
every memory, and every chunk, tile, bus and lane geometry (`FirmwareAssumption`, `RouteAssumption`):

* `CachedKernelsFit` : `Spec => []CachedKernelFits`. `TextOf` computes from a key the text it
  stands for; `CacheInv` says that each cached kernel has the text of its key and so has each
  waiting call. One lemma per route shows that its calls are `Canonical`. Two need
  an argument: pooling leaves the output size and the reciprocal of the window out of its
  key, and ARANGE the lane width; both follow from what the key holds.
* `DestinationOnly` : `GraphsComputable => (Spec => OnlyDestinationWritten)`. The fallback compares the
  number of elements it writes with the destination (`WriteTensor`); a route does not, it
  slices a byte array with what its dumps return. So the proof has to show, operator by
  operator, that the dumps a route asks for add up to the destination. `GraphHostProofs` shows that each
  operator of NumPy ends with an array of the shape it says (`Sound`), hence what
  the destination of a node that NumPy computes spans (the `...Reach` lemmas); `Fit` and `RouteFit`, one lemma per
  route, that the chunks, tiles or the single dump of a route are no longer than that. The walk is tied to it by `RouteInv`:
  it makes the calls of its route in their order, and holds as many results as calls it made. That a
  node reaches firmware does not depend on the memory (`SameRoute`), so that
  the hypothesis, stated of the first memory, holds all along.
  The hypothesis is not an artefact: TLC finds a node with gaps that is written past its destination (section 3).
* `WalkTyped` : `Spec => []WalkTypeOK`, the part of `TypeOK` that is not about the values of memory
  cells; it needs no hypothesis. `WalkInv` needs `CacheInv`, and that every operator's fallback ends in one of the ways that
  the walk handles (`FallbackEnds`) and stays inside the memory.

Module `GraphTypeProofs`, for the same nodes, memories and geometries, under one more hypothesis,
`OperandsInside`: the span of an operand, and each of its elements at its strides, lies in the buffers.
TLC evaluates it on the instance. The code would raise on a pointer outside every buffer, which the
model, with its single memory, does not say.

* `GraphTypesCorrect` : `OperandsInside => (Spec => []TypeOK)`. In TLA+ what is read outside an
  operand is a value nobody knows, so that the memory holds integers only if nothing is read there, or if
  what is read there is never stored. The invariant `TypeInv` is `WalkInv` and `RouteInv` with the conjunct
  itself, and with the results of the calls made so far being sequences of integers. The argument has
  four parts. *Host*: each family of operators returns an array with an integer at each index
  of its extents, or refuses (`ElementTyped`, `RowsResultTyped`, `MovesTyped`, `WindowsTyped`, `MatMulTyped`,
  `OutProdTyped`). It rests on two facts: an index inside the extents has an offset inside
  the elements (`OffsetWithin`), and an index into a broadcast result, clipped, is one into the operand
  (`ClippedWithin`). *Kernels*: a load beyond the end of an operand gives 0 (L2 starts cleared), so a kernel needs
  to know its sizes and counts only (`MoveKernels`, `NormKernels`, `CountKernel`, `ProductKernels`); a hex section
  is padded to whole bus words (`WholeWords`) and a dump is decoded to what it asked for (`SectionTyped`,
  `DumpTyped`). *Routes*: each route passes to its template sizes and counts that are naturals, and
  operands that are sequences of integers (the `...Computes` lemmas), also where it cuts them into chunks or tiles
  (`ChunksCompute`, `TilesCompute`) and where the broadcast operand is enlarged. *Splice*: joining, trimming,
  transposing and encoding the results keeps them integers (`EncodedWrites`, `JoinedWrites`).

The attempts at these proofs changed the model where it was wrong. The walk's theorems found the
routes' guards on dimensions of zero, and the IndexError of an operator with fewer sources than it
reads, missing; no instance had such a node. The proof of `GraphTypesCorrect` found operators of
`HostCompute` that read where NumPy refuses: shapes that do not broadcast, a mask or a row without elements, a
product whose batches do not match, OUT_PROD's batches, and COUNT_EQUAL of two shapes.

Module `FoldProofs` holds the lemmas these proofs share. The library's induction theorems take an
operator as a parameter, which the provers cannot instantiate; `NatSetInduction` and `UpToInduction` say
the same of a *set* of naturals, so a formula is proved by induction as the set of numbers that
satisfy it. From them: what a fold over a set is, whatever the order (`FoldExists`, `FoldUnique`), maxima and
minima, folds over indices, and sums.

**Only model-checked:**

* `FirmwareMatchesHost` compares two programs built from folds over shapes, one pair per
  operator, and no argument covers more than one of them. `GraphTypesCorrect` proves that both read
  and write elements only, not that they are the same ones.
* `EveryRequestAnswered`: liveness under fairness is beyond the prover, and so is ENABLED.
* `CopyMemServesEveryPair` is false.

## 5. What is not modelled

* The numerics of `context/custom0/MX` (NumPy floating point) beyond the operand fetch and
  write-back of the buffered instructions, the register tables, the disassembler and the
  registry, the C++ trampolines, `sloop_buffer.py` (nothing imports it), the other examples,
  tests and scripts.
* `mexec`: no committed firmware emits it, says `context/custom0/MC/ucode.py:12-13`. It runs
  handlers under contexts and units read from memory and so escapes the discipline the
  other instructions follow: microcode with an S-loop store, run outside a plan, leaves the
  store queued there. The theorems about the NPU hold for firmware without it.
* `reset()`, which the binding never calls (`npu.py:164-165`), and the debug window
  `gtx_spm`, which reads L1 without draining the buffer.
* SPR read-back, cpsvr and iosvr, and what the matrix, transpose, fill and reduction
  instructions write to L1.

`PROJECT.json` gives the reason per component.

## 6. Order of the work, and what could follow

1. The NPU: `DmaRows`, `TLoopBuffer`, `GtxNpu`, `CreditLedger`, their runs and theorems.
2. The server's state: `KernelCache`, `RpcServer`, their runs and theorems.
3. The server's computation: `Tensors`, `HostCompute`, `Firmware`, `GraphRoute`, their runs
   and the theorem about the cache.
4. The theorems of `MemoryProofs` and `RefinementProofs`, the account and the types of the
   server, and the theorems about the walk and the values of a graph.

What could follow, by value: `mexec` composed with `GtxNpu`, once firmware uses it; SPR read-back; one
operator of `FirmwareMatchesHost` at a time.
