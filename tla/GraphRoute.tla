------------------------------- MODULE GraphRoute -------------------------------
(***************************************************************************)
(* One session walks a graph (_h_graph_compute of                          *)
(* examples/ggml-rpc-server/pyspike_rpc_server.py with USE_PYSPIKE).  A    *)
(* node that meets every guard of its route runs as one or more firmware   *)
(* calls, whose kernels are cached by a key made from the shape; a missed  *)
(* guard, a failed build or a failed run falls back to NumPy.  Each route  *)
(* is an operator from a node and the memory to the calls it makes, the    *)
(* guards of the server and the ValueErrors of the runner together.        *)
(* Other sessions are in RpcServer.                                        *)
(***************************************************************************)
EXTENDS Firmware

CONSTANTS
  Nodes,         \* the nodes a graph may hold, their tensors resolved
  Image,         \* the device memory when the graph arrives
  MaxNodes,      \* bound on the length of the graph
  Chunk,         \* _CHUNK_FP16
  TileM, TileN,  \* MUL_MAT_TILE_M, MUL_MAT_TILE_N
  ScaleMin,      \* elements under which SCALE does not go to the firmware
  RepeatBudget,  \* elements of each L2 pool of REPEAT
  DmaCap         \* the largest 16-bit DMA length or height

(* What deserialisation leaves of a node: tensors with four dimensions and strides, and the
   op_params, of which no operator here reads more than seven.  sub is the operator that the
   parameters of a UNARY node name; nothing reads it of another node. *)
TensorType == [type : STRING, ne : [1..4 -> Nat], nb : [1..4 -> Nat], data : Nat]
NodeType ==
  {n \in [op : STRING, sub : STRING, p : [1..7 -> Int], src : Seq(TensorType), dst : TensorType] :
     n.op # "UNARY" => n.sub = ""}

ASSUME RouteAssumption ==
  /\ Nodes \subseteq NodeType
  /\ {Chunk, TileM, TileN, ScaleMin, RepeatBudget, DmaCap} \subseteq Nat \ {0}
  /\ MaxNodes \in Nat /\ Chunk % LaneWidth = 0
  /\ \A a \in DOMAIN Image : Image[a] \in Int

VARIABLES
  ram,      \* device memory: the bytearrays of its buffers
  elves,    \* the kernel cache: key -> the text its .elf was built from
  walked,   \* nodes taken so far
  node,     \* the node being computed
  pc,       \* "next" node, firmware "call", "finish" of the route, "host" fallback
  calls,    \* firmware calls the route has still to make
  outs,     \* what the finished ones returned
  settled   \* how the last node ended

vars == <<ram, elves, walked, node, pc, calls, outs, settled>>

(****************************** guards ***********************************)

F16 == {"F16"}
Castable == {"F16", "F32"}

(* by_id.get of the first k sources, each of one of the types. *)
Sources(n, k, types) == Len(n.src) >= k /\ \A i \in 1..k : n.src[i].type \in types
Flat2D(t) == t.ne[3] = 1 /\ t.ne[4] = 1
Positive(t) == \A d \in 1..4 : t.ne[d] > 0

(* A route leads to firmware calls, misses a guard, or raises past its own handler. *)
Route(to, cs) == [to |-> to, calls |-> cs]
Miss == Route("host", <<>>)
Crash == Route("next", <<>>)
If(guard, cs) == IF guard THEN Route("call", cs) ELSE Miss

(* A route that makes one call for one F16 source, not empty, into an F16 destination. *)
OneCall(n, guard, call) ==
  If(n.dst.type = "F16" /\ Sources(n, 1, F16) /\ Positive(n.src[1]) /\ guard, <<call>>)

(*********************** shape-parameterised unary ***********************)

SimpleUnary == {"SQR", "SUM_ROWS", "GROUP_NORM", "NORM", "SCALE", "CLAMP", "MEAN", "SUM", "TRI"}
SimpleSubops == {"CEIL", "EXPM1"}

(* _try_simple_unary_pyspike and its subop twin; the runner takes HEIGHT from the bytes. *)
SimpleGuard(n, height) ==
  LET op == n.op  p == n.p
  IN /\ op = "GROUP_NORM" => p[1] = 1
     /\ op = "SCALE" => p[2] = 0 /\ Elems(n.src[1].ne) >= ScaleMin
     /\ op = "MEAN" \/ n.sub = "EXPM1" => height % Spus = 0
     /\ op = "TRI" => p[1] \in 0..3

SimpleCallOf(n, w, h, data) ==
  LET p == n.p
      Same(tpl, name, c, b) == SimpleCall(tpl, name, c, data, b, Len(data))
  IN CASE n.op = "SQR" -> Same("unary_sqr", "SQR", <<w, h>>, <<>>)
       [] n.sub = "CEIL" -> Same("unary_ceil", "CEIL", <<w, h>>, <<>>)
       [] n.sub = "EXPM1" -> Same("unary_expm1", "EXPM1", <<w, h>>, <<>>)
       [] n.op = "SUM_ROWS" -> SimpleCall("unary_sum_rows", "", <<w, h>>, data, <<>>, h)
       [] n.op = "NORM" -> Same("unary_norm", "", <<w, h, p[1]>>, <<>>)
       [] n.op = "GROUP_NORM" -> Same("unary_group_norm", "", <<w, h, p[2]>>, <<>>)
       [] n.op = "SCALE" -> Same("unary_scale", "", <<w, h>>, <<p[1]>>)
       [] n.op = "CLAMP" -> Same("unary_clamp", "", <<w, h>>, <<p[1], p[2]>>)
       [] n.op = "MEAN" -> SimpleCall("unary_mean", "", <<w, h, Inv(w)>>, data, <<>>, h)
       [] n.op = "SUM" -> SimpleCall("unary_sum", "", <<w, h>>, data, <<>>, Bus)
       [] n.op = "TRI" -> Same("unary_tri", "", <<w, h, p[1]>>, <<>>)

SimpleRoute(n, m) ==
  LET data == Flat(n.src[1], m)
      w == n.src[1].ne[1]
      h == Len(data) \div w
  IN OneCall(n, Len(data) % w = 0 /\ SimpleGuard(n, h), SimpleCallOf(n, w, h, data))

(************************ padding, pooling, copies ***********************)

PadRoute(n, m) ==
  LET s == n.src[1]  p == n.p  data == Flat(s, m)
  IN OneCall(n, /\ p[3] = 0 /\ p[4] = 0 /\ Flat2D(s) /\ p[1] >= 0 /\ p[2] >= 0
                /\ Len(data) = s.ne[2] * s.ne[1],
             SimpleCall("unary_pad", "", <<s.ne[2], s.ne[1], p[1], p[2]>>, data, <<>>,
                        (s.ne[2] + p[2]) * (s.ne[1] + p[1])))

(* The key of a pooling kernel leaves out what follows from the rest of it. *)
PoolTpl(op) == IF op = 1 THEN "unary_pool_2d_avg" ELSE "unary_pool_2d_max"
PoolText(tpl, h, w, kh, kw, sh, sw) ==
  LET c == <<h, w, ((h - kh) \div sh) + 1, ((w - kw) \div sw) + 1, kh, kw, sh, sw>>
  IN Text(tpl, "", IF tpl = PoolTpl(1) THEN Append(c, Inv(kw * kh)) ELSE c)

PoolRoute(n, m) ==
  LET s == n.src[1]  p == n.p  data == Flat(s, m)  tpl == PoolTpl(n.p[1])
      Outs(i) == ((s.ne[i] - p[i + 1]) \div p[i + 3]) + 1
  IN OneCall(n, /\ p[1] \in {0, 1} /\ p[6] = 0 /\ p[7] = 0 /\ Flat2D(s)
                /\ Len(data) = s.ne[1] * s.ne[2]
                /\ \A i \in 2..5 : p[i] > 0
                /\ Outs(1) > 0 /\ Outs(2) > 0,
             Call(PoolText(tpl, s.ne[2], s.ne[1], p[3], p[2], p[5], p[4]),
                  Key(<<tpl, "">>, <<s.ne[2], s.ne[1], p[3], p[2], p[5], p[4]>>),
                  data, <<>>, Outs(1) * Outs(2)))

RepeatRoute(n, m) ==
  LET s == n.src[1].ne  d == n.dst.ne  total == Elems(s)
  IN OneCall(n, /\ Positive(n.dst) /\ \A i \in 1..4 : d[i] % s[i] = 0
                /\ total <= RepeatBudget /\ Elems(d) <= RepeatBudget,
             SimpleCall("unary_repeat", "", s \o d,
                        [i \in 1..total |-> m[n.src[1].data + i - 1]], <<>>, Elems(d)))

(* Rows of halfwords, whatever they encode. *)
CopyRows(data, row, rows) ==
  If(row <= DmaCap /\ rows <= DmaCap /\ Len(data) = row * rows,
     <<SimpleCall("unary_cont", "", <<row, rows>>, data, <<>>, row * rows)>>)

ContRoute(n, m) ==
  LET s == n.src[1]  d == n.dst
  IN IF /\ d.type \in Castable /\ Sources(n, 1, {d.type})
        /\ IsContiguous(s, 4) /\ IsContiguous(d, 4) /\ s.ne = d.ne /\ Positive(d)
     THEN CopyRows(Raw(s, m), d.ne[1] * Width(d.type), Elems(Tail(d.ne)))
     ELSE Miss

(* The host repeats the elements, the firmware copies the result. *)
UpscaleRoute(n, m) ==
  LET s == n.src[1]  d == n.dst.ne
      Factor(i) == d[i] \div s.ne[i]
  IN IF /\ n.dst.type \in Castable /\ Sources(n, 1, Castable) /\ n.p[1] % 256 = 0
        /\ Positive(s) /\ Positive(n.dst)
        /\ d[3] = s.ne[3] /\ d[4] = s.ne[4]
        /\ d[1] % s.ne[1] = 0 /\ d[2] % s.ne[2] = 0
        /\ d[1] <= DmaCap /\ d[2] * d[3] * d[4] <= DmaCap
     THEN IF Len(Flat(s, m)) # Elems(s.ne) THEN Crash  \* a reshape outside the try
          ELSE CopyRows(Repeated([ne |-> s.ne, v |-> Flat(s, m)], <<Factor(1), Factor(2)>>).v,
                        d[1], d[2] * d[3] * d[4])
     ELSE Miss

ArangeRoute(n) ==
  LET len == n.dst.ne[1]
  IN If(/\ n.dst.type = "F16" /\ Positive(n.dst) /\ Elems(n.dst.ne) = len
        /\ len % LaneWidth = 0 /\ n.p[1] = 0 /\ n.p[3] = 1,
        <<Call(Text("unary_arange", "", <<len \div LaneWidth, LaneWidth>>),
               Key(<<"unary_arange", "">>, <<len>>), <<>>, <<>>, len)>>)

(**************************** two operands *******************************)

ConcatRoute(n, m) ==
  LET a == n.src[1]  b == n.src[2]
      x == Flat(a, m)  y == Flat(b, m)
      plane == a.ne[1] * a.ne[2]
  IN IF ~(/\ n.dst.type \in Castable /\ Sources(n, 2, Castable)
          /\ SubSeq(a.ne, 1, 2) = SubSeq(b.ne, 1, 2) /\ Positive(a))
     THEN Miss
     ELSE IF n.p[1] = 0
     THEN If(Flat2D(a) /\ Flat2D(b) /\ Len(x) = plane /\ Len(y) = plane,
             <<SimpleCall("unary_concat", "", SubSeq(a.ne, 1, 2), x, y, 2 * plane)>>)
     ELSE If(/\ n.p[1] = 2 /\ a.ne[4] = 1 /\ b.ne[4] = 1 /\ Positive(b)
             /\ Len(x) = plane * a.ne[3] /\ Len(y) = plane * b.ne[3],
             <<SimpleCall("unary_concat_channel", "", <<1, a.ne[3], b.ne[3], a.ne[2], a.ne[1]>>,
                          x, y, (a.ne[3] + b.ne[3]) * plane)>>)

ConvRoute(n, m) ==
  LET k == n.src[1]  im == n.src[2]
      x == Flat(k, m)  y == Flat(im, m)
  IN If(/\ n.dst.type = "F16" /\ Sources(n, 2, F16) /\ SubSeq(n.p, 1, 6) = <<1, 1, 0, 0, 1, 1>>
        /\ Flat2D(k) /\ Flat2D(im) /\ Positive(k) /\ im.ne[1] >= k.ne[1] /\ im.ne[2] >= k.ne[2]
        /\ Len(x) = Elems(k.ne) /\ Len(y) = Elems(im.ne),
        <<SimpleCall("unary_conv_2d", "", <<im.ne[2], im.ne[1], k.ne[2], k.ne[1]>>, x, y,
                     (im.ne[1] - k.ne[1] + 1) * (im.ne[2] - k.ne[2] + 1))>>)

(* One channel has a kernel of its own. *)
Im2ColRoute(n, m) ==
  LET k == n.src[1]  im == n.src[2]  p == n.p
      ic == im.ne[3]
      geometry == <<im.ne[2], im.ne[1], k.ne[2], k.ne[1], p[1]>>
      OutOf(i) == (im.ne[i] - k.ne[i]) \div p[1] + 1
      y == Flat(im, m)
      Of(tpl, c) == <<SimpleCall(tpl, "", c, <<>>, y, OutOf(1) * OutOf(2) * ic * k.ne[1] * k.ne[2])>>
  IN If(/\ n.dst.type \in Castable /\ Len(n.src) >= 2
        /\ k.type # Missing /\ im.type \in Castable
        /\ p[1] = p[2] /\ p[1] > 0 /\ SubSeq(p, 3, 7) = <<0, 0, 1, 1, 1>>
        /\ im.ne[4] = 1 /\ k.ne[4] = 1 /\ k.ne[3] = ic /\ Positive(k) /\ Positive(im)
        /\ Len(y) = Elems(im.ne) /\ OutOf(1) > 0 /\ OutOf(2) > 0,
        IF ic = 1 THEN Of("unary_im2col", geometry)
        ELSE Of("unary_im2col_multich", <<ic>> \o geometry))

(* A slice, which ends where the sequence does. *)
Cut(s, from, to) == SubSeq(s, from, Min({to, Len(s)}))

(* The tiles of the result, m outer and n inner. *)
Ceiling(x, y) == (x + y - 1) \div y
TileCalls(a, b, M, K, N) ==
  [t \in 1..(Ceiling(M, TileM) * Ceiling(N, TileN)) |->
     LET mo == ((t - 1) \div Ceiling(N, TileN)) * TileM
         no == ((t - 1) % Ceiling(N, TileN)) * TileN
         rows == Min({TileM, M - mo})
         cols == Min({TileN, N - no})
     IN SimpleCall("mul_mat", "", <<rows, K, cols>>, Cut(a, mo * K + 1, (mo + rows) * K),
                   Cut(b, no * K + 1, (no + cols) * K), rows * cols)]

MulMatRoute(n, m) ==
  LET a == n.src[1]  b == n.src[2]
      x == Flat(a, m)  y == Flat(b, m)
  IN If(/\ n.dst.type \in Castable /\ Sources(n, 2, Castable) /\ Flat2D(a) /\ Flat2D(b)
        /\ a.ne[1] = b.ne[1] /\ a.ne[1] % LaneWidth = 0
        /\ Len(x) = Elems(a.ne) /\ Len(y) = Elems(b.ne),
        TileCalls(x, y, a.ne[2], a.ne[1], b.ne[2]))

(************************* elementwise operators *************************)

UNARY_PYSPIKE_KERNELS ==
  {"ABS", "NEG", "SGN", "STEP", "RELU", "SIGMOID", "TANH", "GELU", "GELU_ERF", "EXP", "SILU", "FLOOR", "TRUNC"}

(* _broadcast_src_to: the second operand, repeated over the shape of the first. *)
BroadcastSrcTo(a, b, y) ==
  Array(a.ne, LAMBDA c : At([ne |-> b.ne, v |-> y], Clipped(b.ne, c))).v
CanBroadcast(a, b, y) == (\A d \in 1..4 : b.ne[d] \in {1, a.ne[d]}) /\ Len(y) = Elems(b.ne)

(* _runner_chunked: the last chunk is a call, and a kernel, of another height. *)
Chunked(tpl, name, x, y) ==
  [k \in 1..Ceiling(Len(x), Chunk) |->
     LET from == (k - 1) * Chunk + 1
         xs == Cut(x, from, k * Chunk)
     IN SimpleCall(tpl, name, <<Len(xs) \div LaneWidth>>, xs, Cut(y, from, k * Chunk), Len(xs))]

UnaryRoute(n, m, name) ==
  LET x == Flat(n.src[1], m)
  IN If(/\ n.dst.type \in Castable /\ Sources(n, 1, Castable)
        /\ Len(x) > 0 /\ Len(x) % LaneWidth = 0,
        Chunked("unary_intrin1", name, x, <<>>))

BinaryRoute(n, m) ==
  LET a == n.src[1]  b == n.src[2]
      x == Flat(a, m)  y == Flat(b, m)
      z == IF Len(x) = Len(y) THEN y ELSE BroadcastSrcTo(a, b, y)
  IN If(/\ n.dst.type \in Castable /\ Sources(n, 2, Castable)
        /\ Len(x) > 0 /\ Len(y) > 0 /\ (Len(x) = Len(y) \/ CanBroadcast(a, b, y))
        /\ Len(z) = Len(x) /\ Len(x) % LaneWidth = 0,
        Chunked("binary_intrin1", n.op, x, z))

(* _try_pyspike: the dispatch on the operator. *)
TryPyspike(n, m) ==
  CASE n.op = "MUL_MAT" -> MulMatRoute(n, m)
    [] n.op = "ARANGE" -> ArangeRoute(n)
    [] n.op = "REPEAT" -> RepeatRoute(n, m)
    [] n.op = "UPSCALE" -> UpscaleRoute(n, m)
    [] n.op = "PAD" -> PadRoute(n, m)
    [] n.op \in {"CONT", "DUP"} -> ContRoute(n, m)
    [] n.op = "CONCAT" -> ConcatRoute(n, m)
    [] n.op = "POOL_2D" -> PoolRoute(n, m)
    [] n.op = "IM2COL" -> Im2ColRoute(n, m)
    [] n.op = "CONV_2D" -> ConvRoute(n, m)
    [] n.op \in SimpleUnary \/ n.sub \in SimpleSubops -> SimpleRoute(n, m)
    [] n.sub \in UNARY_PYSPIKE_KERNELS -> UnaryRoute(n, m, n.sub)
    [] n.op = "SQRT" -> UnaryRoute(n, m, n.op)
    [] n.op \in BinaryOps -> BinaryRoute(n, m)
    [] OTHER -> Miss

(******************************* the walk ********************************)

Init ==
  /\ ram = Image /\ elves = <<>>
  /\ walked = 0 /\ node = <<>> /\ pc = "next"
  /\ calls = <<>> /\ outs = <<>> /\ settled = "none"

(* The next node of the graph and the guards of its route. *)
Take ==
  /\ pc = "next" /\ walked < MaxNodes
  /\ \E n \in Nodes :
       LET route == TryPyspike(n, ram)
       IN /\ node' = n
          /\ pc' = route.to /\ calls' = route.calls
          /\ settled' = IF route = Crash THEN "errored" ELSE "none"
  /\ walked' = walked + 1 /\ outs' = <<>>
  /\ UNCHANGED <<ram, elves>>

CallPending == pc = "call" /\ calls # <<>>
Cached == calls[1].key \in DOMAIN elves

(* _build_kernel on a key that is not cached. *)
BuildKernel ==
  /\ CallPending /\ ~Cached
  /\ elves' = [k \in DOMAIN elves \cup {calls[1].key} |->
                 IF k = calls[1].key THEN calls[1].text ELSE elves[k]]
  /\ UNCHANGED <<ram, walked, node, pc, calls, outs, settled>>

(* _run_pyspike, which returns the dump. *)
RunKernel ==
  /\ CallPending /\ Cached
  /\ outs' = Append(outs, RunPyspike(elves[calls[1].key], calls[1]))
  /\ calls' = Tail(calls)
  /\ UNCHANGED <<ram, elves, walked, node, pc, settled>>

(* Mutant: the results of the calls that succeeded stay behind. *)
CallFailsKeepingResults ==
  /\ CallPending
  /\ pc' = "host" /\ calls' = <<>>
  /\ UNCHANGED <<ram, elves, walked, node, outs, settled>>

(* The build or the run raises, or times out: the results so far are dropped. *)
CallFails ==
  /\ CallPending
  /\ pc' = "host" /\ calls' = <<>> /\ outs' = <<>>
  /\ UNCHANGED <<ram, elves, walked, node, settled>>

(* Mutant: the rows of the result are left in the order of the firmware. *)
SplicedUntransposed(n) ==
  LET M == n.src[1].ne[2]  N == n.src[2].ne[2]
      Tile(i, j) == outs[(i \div TileM) * Ceiling(N, TileN) + j \div TileN + 1]
      Cols(j) == Min({TileN, N - (j \div TileN) * TileN})
  IN Rows(M, N, LAMBDA i, j : Tile(i, j)[(i % TileM) * Cols(j) + (j % TileN) + 1])

(* The tiles spliced into (M, N), then transposed into ggml's order. *)
Spliced(n) ==
  LET M == n.src[1].ne[2]  N == n.src[2].ne[2]
      Tile(i, j) == outs[(i \div TileM) * Ceiling(N, TileN) + j \div TileN + 1]
      Cols(j) == Min({TileN, N - (j \div TileN) * TileN})
  IN Rows(N, M, LAMBDA j, i : Tile(i, j)[(i % TileM) * Cols(j) + (j % TileN) + 1])

(* Mutant: the bus word around the sum is not trimmed. *)
RouteResultUntrimmed(n) ==
  CASE n.op = "MUL_MAT" -> Encode(n.dst.type, Spliced(n))
    [] n.op \in {"CONT", "DUP", "SUM"} -> outs[1]
    [] OTHER -> Encode(n.dst.type, FlattenSeq(outs))

(* The bytes a route writes at the destination: halfwords as they are, or cast to its type. *)
RouteResult(n) ==
  CASE n.op = "MUL_MAT" -> Encode(n.dst.type, Spliced(n))
    [] n.op = "SUM" -> SubSeq(outs[1], 1, 1)
    [] n.op \in {"CONT", "DUP"} -> outs[1]
    [] OTHER -> Encode(n.dst.type, FlattenSeq(outs))

Settle(how) ==
  /\ pc' = "next" /\ settled' = how
  /\ UNCHANGED <<elves, walked, node, calls, outs>>

FinishRoute ==
  /\ pc = "call" /\ calls = <<>>
  /\ ram' = Store(ram, node.dst.data, RouteResult(node))
  /\ Settle("spike")

NumPyFallback ==
  /\ pc = "host"
  /\ LET r == Fallback(node, ram)
     IN /\ ram' = IF r.is = "ok" THEN r.x ELSE ram
        /\ Settle(r.is)

Next == Take \/ BuildKernel \/ RunKernel \/ CallFails \/ FinishRoute \/ NumPyFallback

Spec == Init /\ [][Next]_vars

(****************************** properties *******************************)

(* The memory keeps its addresses, the cache maps keys to texts, a walk ends a node in one of
   the ways it knows, and the calls and results of a route do not outlive it into the fallback. *)
WalkTypeOK ==
  /\ DOMAIN ram = DOMAIN Image
  /\ \A k \in DOMAIN elves : DOMAIN elves[k] = {"tpl", "name", "c"}
  /\ walked \in 0..MaxNodes /\ pc \in {"next", "call", "host"}
  /\ pc = "host" => calls = <<>> /\ outs = <<>>
  /\ settled \in {"none", "spike", "ok", "nop", "unsupported", "errored"}
TypeOK == WalkTypeOK /\ \A a \in DOMAIN ram : ram[a] \in Int

(* What a node should leave in the memory.  It is what NumPy leaves, except where the backend
   has no such operator (TRI, ARANGE) or fails on the views without their trailing unit
   dimensions (PAD, POOL_2D). *)
Expected(n, m) ==
  LET a == Rank4(View(n.src[1], m))
  IN CASE n.op = "PAD" -> WriteTensor(n.dst, m, Padded(a, n.p))
       [] n.op = "POOL_2D" -> WriteTensor(n.dst, m, Pool2D(n.p[1] # 0, PoolWindow(n.p), a))
       [] n.op = "TRI" ->
            WriteTensor(n.dst, m,
                        Array(a.ne, LAMBDA c : IF \/ c[1] = c[2] /\ n.p[1] \in {0, 2}
                                                  \/ c[1] > c[2] /\ n.p[1] \in {0, 1}
                                                  \/ c[1] < c[2] /\ n.p[1] \in {2, 3}
                                               THEN At(a, c) ELSE 0))
       [] n.op = "ARANGE" -> WriteTensor(n.dst, m, Array(n.dst.ne, LAMBDA c : c[1]))
       [] OTHER -> Fallback(n, m)

(* A node that the firmware computes leaves the memory that NumPy would have left: through
   the casts, the chunks and tiles, the hex files, the kernel found in the cache and the
   layout of the result, whichever nodes were computed, or failed, before it. *)
FirmwareMatchesHost ==
  [][pc = "call" /\ pc' = "next" =>
       LET e == Expected(node, ram) IN e.is = "ok" => ram' = e.x]_vars

(* Only a step that completes a node writes to the memory, and only inside the tensor of the
   node: no partial result of a route that fails halfway, and no bus word of padding. *)
OnlyDestinationWritten ==
  [][ram' # ram => /\ settled' \in {"spike", "ok"}
                   /\ \A a \in DOMAIN ram : ram'[a] # ram[a] => a \in Extent(node.dst)]_vars

(* The graphs that this holds for.  A view with gaps spans more than its elements, and a node
   that NumPy refuses may have a destination of any size; no route looks at either. *)
Dense(t) == IsContiguous(t, 4) /\ Positive(t)
GraphsComputable ==
  \A n \in Nodes : TryPyspike(n, Image).to = "call" =>
    Expected(n, Image).is = "ok" /\ \A i \in DOMAIN n.src : Dense(n.src[i])

(* The graphs that name no memory outside the buffers: neither the span of an operand, nor an
   element at its strides, nor one of as many in a row. *)
OperandsInside ==
  \A n \in Nodes : \A i \in DOMAIN n.src :
    LET t == n.src[i]
    IN t.type \in NumPyTypes =>
         /\ Extent(t) \subseteq DOMAIN Image
         /\ \A k \in 0..(Elems(t.ne) - 1) :
              {t.data + k, t.data + Offset(t.nb, Coord(Shape(t), k))} \subseteq DOMAIN Image

(* A key names one kernel: a cached .elf that a call finds under its key was built from the
   text this call would have compiled. *)
CachedKernelFits ==
  \A i \in DOMAIN calls : calls[i].key \in DOMAIN elves => elves[calls[i].key] = calls[i].text
================================================================================
