------------------------------ MODULE HostCompute ------------------------------
(***************************************************************************)
(* The NumPy backend (examples/ggml-rpc-server/ggml_compute.py): what an   *)
(* operator of a graph computes when it does not run as firmware.  Shapes, *)
(* windows, masks and the order of elements are modelled exactly; numbers  *)
(* are integers, and a function that leaves the integers is a token of its *)
(* own, the same one for the host and for the firmware.                    *)
(***************************************************************************)
EXTENDS Tensors

(****************************** numerics *********************************)

(* UNARY_FN and the operators that are functions of one element. *)
UnaryTable ==
  {"ABS", "SGN", "NEG", "STEP", "TANH", "ELU", "RELU", "SIGMOID", "GELU", "GELU_QUICK", "SILU",
   "HARDSWISH", "HARDSIGMOID", "EXP", "EXPM1", "SOFTPLUS", "GELU_ERF", "XIELU", "FLOOR", "CEIL",
   "ROUND", "TRUNC"}
Fn(op, x) ==
  CASE op = "ABS"  -> IF x < 0 THEN -x ELSE x
    [] op = "NEG"  -> -x
    [] op = "SGN"  -> IF x > 0 THEN 1 ELSE IF x < 0 THEN -1 ELSE 0
    [] op = "STEP" -> IF x > 0 THEN 1 ELSE 0
    [] op = "RELU" -> IF x > 0 THEN x ELSE 0
    [] op = "SQR"  -> x * x
    [] op = "SQRT" -> 40 + x
    [] op \in {"FLOOR", "CEIL", "ROUND", "TRUNC"} -> x
    [] op = "TANH" -> 60 - x
    [] op = "ELU"  -> 70 + x
    [] OTHER       -> 80 + x

Fn2(op, x, y) ==
  CASE op \in {"ADD", "ACC"} -> x + y
    [] op = "SUB" -> x - y
    [] op = "MUL" -> x * y
    [] OTHER      -> 3 * x - y

(* Reciprocals, and the normalisation of a row. *)
Inv(n) == 10 - n
Mean(s) == Total(s) * Inv(Len(s))
Normal(s, i, eps) == s[i] - Total(s) + eps
NegInf == -999
Greatest(s) == Max({s[i] : i \in DOMAIN s})
Clamp(x, lo, hi) == Min({Max({x, lo}), hi})

(************************** sliding windows ******************************)

(* A 4-dimensional (w, h, channel, batch) view; NumPy cannot unpack one dimension. *)
Rank4(a) == Reshaped(a, a.ne \o [d \in 1..(4 - Len(a.ne)) |-> 1])

(* Where the image, padded by <<p0, p1>>, is read at <<column, row, channel, batch>>. *)
PaddedAt(b, c, p, fill) ==
  IF c[1] - p[1] \in 0..(b.ne[1] - 1) /\ c[2] - p[2] \in 0..(b.ne[2] - 1)
  THEN At(b, <<c[1] - p[1], c[2] - p[2], c[3], c[4]>>) ELSE fill

(* A window geometry: kernel k, stride s, padding p and dilation d, each <<width, height>>. *)
Window(k, s, p, d) == [k |-> k, s |-> s, p |-> p, d |-> d]
WindowOf(a, par) == Window(<<a.ne[1], a.ne[2]>>, <<par[1], par[2]>>, <<par[3], par[4]>>,
                           <<par[5], par[6]>>)
OutDim(g, b, i) == (b.ne[i] + 2 * g.p[i] - g.d[i] * (g.k[i] - 1) - 1) \div g.s[i] + 1

(* What NumPy refuses: a negative padding, a division by zero, a negative dimension. *)
Slides(g, b) == \A i \in 1..2 : g.p[i] >= 0 /\ g.s[i] > 0 /\ OutDim(g, b, i) >= 0

(* The window at output <<column, row, batch>>, over a sequence of channels: columns innermost,
   then rows, then channels. *)
Patch(b, g, chans, o, fill) ==
  LET kw == g.k[1]  kh == g.k[2]
  IN [i \in 1..(kw * kh * Len(chans)) |->
        PaddedAt(b, <<o[1] * g.s[1] + ((i - 1) % kw) * g.d[1],
                      o[2] * g.s[2] + (((i - 1) \div kw) % kh) * g.d[2],
                      chans[1 + (i - 1) \div (kw * kh)], o[3]>>, g.p, fill)]

(* The channels of b; a single one serves as many as there are. *)
Channels(b, depth) == [i \in 1..depth |-> Min({i, b.ne[3]}) - 1]
Dot(s, t) == Total([i \in DOMAIN s |-> s[i] * t[i]])

Im2Col(g, b) ==
  Array(<<g.k[1] * g.k[2] * b.ne[3], OutDim(g, b, 1), OutDim(g, b, 2), b.ne[4]>>,
        LAMBDA c : Patch(b, g, Channels(b, b.ne[3]), <<c[2], c[3], c[4]>>, 0)[c[1] + 1])

(* The weights of a kernel, over a sequence of channels. *)
Taps(a, g, chans, kernel) ==
  LET kw == g.k[1]  kh == g.k[2]
  IN [i \in 1..(kw * kh * Len(chans)) |->
        At(a, <<(i - 1) % kw, ((i - 1) \div kw) % kh, chans[1 + (i - 1) \div (kw * kh)], kernel>>)]

(* One output channel per kernel, or, depthwise, per channel: each has a kernel of its own,
   unless there is only one. *)
Conv(a, b, g) ==
  LET depth == IF a.ne[3] = 1 THEN b.ne[3] ELSE a.ne[3]
  IN Array(<<OutDim(g, b, 1), OutDim(g, b, 2), a.ne[4], b.ne[4]>>,
           LAMBDA c : Dot(Patch(b, g, Channels(b, depth), <<c[1], c[2], c[4]>>, 0),
                          Taps(a, g, Channels(a, depth), c[3])))
DepthwiseKernel(a) ==
  IF Len(a.ne) = 3 THEN Reshaped(a, <<a.ne[1], a.ne[2], 1, a.ne[3]>>) ELSE a
ConvDepthwise(a, b, g) ==
  Array(<<OutDim(g, b, 1), OutDim(g, b, 2), b.ne[3], b.ne[4]>>,
        LAMBDA c : Dot(Patch(b, g, <<c[3]>>, <<c[1], c[2], c[4]>>, 0),
                       Taps(a, g, <<0>>, IF a.ne[4] = 1 THEN 0 ELSE c[3])))

Pool2D(avg, g, b) ==
  Array(<<OutDim(g, b, 1), OutDim(g, b, 2), b.ne[3], b.ne[4]>>,
        LAMBDA c : LET w == Patch(b, g, <<c[3]>>, <<c[1], c[2], c[4]>>, IF avg THEN 0 ELSE NegInf)
                   IN IF avg THEN Mean(w) ELSE Greatest(w))
PoolWindow(par) == Window(<<par[2], par[3]>>, <<par[4], par[5]>>, <<par[6], par[7]>>, <<1, 1>>)

(**************************** rearrangements *****************************)

(* b @ a.swapaxes(-1, -2), with the outer dimensions broadcast. *)
MatMul(a, b) ==
  LET outer == Broadened(SubSeq(a.ne, 3, Len(a.ne)), SubSeq(b.ne, 3, Len(b.ne)))
      rows == IF Len(b.ne) = 1 THEN <<>> ELSE <<b.ne[2]>>
      Line(x, i, c) ==
        Row(x, <<0>> \o Clipped(Tail(x.ne), <<i>> \o SubSeq(c, Len(rows) + 2, Len(c))))
  IN Array(<<a.ne[2]>> \o rows \o outer,
           LAMBDA c : Dot(Line(a, c[1], c), IF rows = <<>> THEN b.v ELSE Line(b, c[2], c)))

(* einsum '...i,...j->...ij' of b and a. *)
OutProd(a, b) ==
  LET outer == Broadened(Tail(a.ne), Tail(b.ne))
      Of(x, i, c) == At(x, <<i>> \o Clipped(Tail(x.ne), SubSeq(c, 3, Len(c))))
  IN Array(<<a.ne[1], b.ne[1]>> \o outer, LAMBDA c : Of(b, c[2], c) * Of(a, c[1], c))

(* np.tile by the whole quotients of the two shapes, paired from the outermost dimension. *)
Tiled(a, ne) ==
  LET k == Len(ne)
      rank == Max({Len(a.ne), k})
      src == [d \in 1..rank |-> Dim(a.ne, d)]
      times == [d \in 1..rank |-> IF d <= k THEN ne[d] \div src[d + rank - k] ELSE 1]
  IN Array([d \in 1..rank |-> src[d] * times[d]],
           LAMBDA c : At(Reshaped(a, src), [d \in DOMAIN c |-> c[d] % src[d]]))

(* np.concatenate along dimension g. *)
Concat(a, b, g) ==
  Array([a.ne EXCEPT ![g] = @ + b.ne[g]],
        LAMBDA c : IF c[g] < a.ne[g] THEN At(a, c) ELSE At(b, [c EXCEPT ![g] = @ - a.ne[g]]))

(* np.pad with zeros after each dimension. *)
Padded(a, after) ==
  Array([d \in DOMAIN a.ne |-> a.ne[d] + after[d]],
        LAMBDA c : IF \A d \in DOMAIN c : c[d] < a.ne[d] THEN At(a, c) ELSE 0)

(* np.repeat of the two innermost dimensions. *)
Repeated(a, f) ==
  Array([d \in DOMAIN a.ne |-> IF d <= 2 THEN a.ne[d] * f[d] ELSE a.ne[d]],
        LAMBDA c : At(a, [d \in DOMAIN c |-> IF d <= 2 THEN c[d] \div f[d] ELSE c[d]]))

(* _glu_split: the first half of each row, gated by the rest: one column gates any number. *)
Glu(a) ==
  LET half == a.ne[1] \div 2
  IN Array([a.ne EXCEPT ![1] = IF half = 1 THEN @ - 1 ELSE half],
           LAMBDA c : At(a, [c EXCEPT ![1] = IF half = 1 THEN 0 ELSE @])
                      * Fn("RELU", At(a, [c EXCEPT ![1] = @ + half])))

GroupNormed(a, groups, eps) ==
  LET size == a.ne[1] \div groups
  IN Array(a.ne, LAMBDA c : LET at == c[1] - (c[1] % size)
                            IN Normal(SubSeq(Row(a, c), at + 1, at + size), 1 + (c[1] % size), eps))

Equals(a, b) == Total(Broadcast(a, b, LAMBDA x, y : IF x = y THEN 1 ELSE 0).v)
SoftMax(x) == Array(x.ne, LAMBDA c : At(x, c) - Greatest(Row(x, c)))

FirstIndex(s, x) == Min({i \in DOMAIN s : s[i] = x}) - 1

(* np.where of a mask that is a square of the innermost dimension. *)
Square(a) == <<a.ne[1], a.ne[1]>>
Masked(a, past, fill) ==
  Array(Broadened(Square(a), a.ne),
        LAMBDA c : LET at == Clipped(Square(a), c)
                   IN IF at[1] > at[2] + past THEN fill ELSE At(a, Clipped(a.ne, c)))

(*************************** the dispatcher ******************************)

ElementOps == {"SQR", "SQRT", "LOG", "SIN", "COS"}
BinaryOps == {"ADD", "SUB", "MUL", "DIV", "ACC"}
ViewOps == {"NONE", "RESHAPE", "VIEW", "PERMUTE", "TRANSPOSE"}

ElementResult(n, s) ==
  LET a == s[1]  p == n.p
  IN CASE n.op = "UNARY" ->
            IF n.sub \in UnaryTable THEN Ok(Each(a, LAMBDA x : Fn(n.sub, x))) ELSE NotImplemented
       [] n.op = "GLU" -> Unless(a.ne[1] % 2 # 0 /\ a.ne[1] > 3, Ok(Glu(a)))
       [] n.op \in ElementOps -> Ok(Each(a, LAMBDA x : Fn(n.op, x)))
       [] n.op = "LEAKY_RELU" -> Ok(Each(a, LAMBDA x : IF x >= 0 THEN x ELSE x * p[1]))
       [] n.op = "SCALE" -> Ok(Each(a, LAMBDA x : x * p[1] + p[2]))
       [] n.op = "CLAMP" -> Ok(Each(a, LAMBDA x : Clamp(x, p[1], p[2])))
       [] n.op = "ADD1" -> Unless(Len(s[2].v) # 1, Ok(Each(a, LAMBDA x : x + s[2].v[1])))
       [] OTHER -> Unless(~Broadcastable(a.ne, s[2].ne),
                          Ok(Broadcast(a, s[2], LAMBDA x, y : Fn2(n.op, x, y))))

RowResult(n, s) ==
  LET a == s[1]  p == n.p
  IN CASE n.op = "SUM" -> Ok(Array(<<1>>, LAMBDA c : Total(a.v)))
       [] n.op = "SUM_ROWS" -> Ok(EachRow(a, Total))
       [] n.op = "MEAN" -> Ok(EachRow(a, Mean))
       [] n.op = "ARGMAX" -> Unless(a.ne[1] = 0, Ok(EachRow(a, LAMBDA r : FirstIndex(r, Greatest(r)))))
       [] n.op = "GROUP_NORM" -> Unless(p[1] <= 0 \/ a.ne[1] % p[1] # 0, Ok(GroupNormed(a, p[1], p[2])))
       [] n.op = "SOFT_MAX" ->
            LET x == Each(a, LAMBDA y : y * (IF p[1] = 0 THEN 1 ELSE p[1]))
            IN IF a.ne[1] = 0 THEN Raises
               ELSE IF Len(s) = 1 THEN Ok(SoftMax(x))
               ELSE Unless(s[2].ne[1] = 0 \/ ~Broadcastable(a.ne, s[2].ne),
                           Ok(SoftMax(Broadcast(x, s[2], LAMBDA y, z : y + z))))
       [] n.op = "NORM" -> Ok(GroupNormed(a, 1, p[1]))
       [] n.op = "COUNT_EQUAL" ->
            Unless(~Broadcastable(a.ne, s[2].ne), Ok(Array(<<1>>, LAMBDA c : Equals(a, s[2]))))
       [] OTHER ->  \* RMS_NORM and L2_NORM
            Ok(Array(a.ne, LAMBDA c : At(a, c) + p[1] - Dot(Row(a, c), Row(a, c))))

MoveResult(n, s) ==
  LET a == s[1]  p == n.p  nd == Len(s[1].ne)
  IN CASE n.op \in {"DUP", "CPY", "CONT"} -> Ok(a)
       [] n.op = "REPEAT" -> Unless(\E d \in 1..nd : a.ne[d] = 0 /\ d > nd - NDim(n.dst),
                                    Ok(Tiled(a, Shape(n.dst))))
       [] n.op = "CONCAT" ->
            \* a negative NumPy axis counts from the end
            LET g == 1 + (p[1] % nd)
            IN Unless(\/ p[1] \notin 0..(2 * nd - 1) \/ Len(s[2].ne) # nd
                      \/ \E d \in 1..nd \ {g} : a.ne[d] # s[2].ne[d],
                      Ok(Concat(a, s[2], g)))
       \* pads[:ndim] of the reversed list: the last parameters, for fewer dimensions
       [] n.op = "PAD" -> Unless(\E i \in (5 - nd)..4 : p[i] < 0, Ok(Padded(a, SubSeq(p, 5 - nd, 4))))
       [] n.op = "GET_ROWS" ->
            Unless(\E i \in DOMAIN s[2].v : s[2].v[i] \notin (-a.ne[nd])..(a.ne[nd] - 1),
                   Ok(Array([a.ne EXCEPT ![nd] = Len(s[2].v)],
                            LAMBDA c : At(a, [c EXCEPT ![nd] = s[2].v[@ + 1] % a.ne[nd]]))))
       [] n.op \in {"DIAG_MASK_INF", "DIAG_MASK_ZERO"} ->
            Unless(~Broadcastable(Square(a), a.ne),
                   Ok(Masked(a, p[1], IF n.op = "DIAG_MASK_INF" THEN NegInf ELSE 0)))
       [] OTHER ->  \* UPSCALE
            LET f == <<n.dst.ne[1] \div a.ne[1], n.dst.ne[2] \div a.ne[2]>>
            IN IF nd < 2 \/ \E d \in 1..2 : a.ne[d] = 0 THEN Raises
               ELSE IF \/ p[1] % 256 # 0
                       \/ \E d \in 1..2 : f[d] = 0 \/ n.dst.ne[d] % a.ne[d] # 0
                    THEN NotImplemented ELSE Ok(Repeated(a, f))

WindowResult(n, s) ==
  LET a == Rank4(s[1])  b == Rank4(s[2])  p == n.p
      Unpacks == Len(s[1].ne) >= 2 /\ Len(s[2].ne) >= 2
  IN CASE n.op = "POOL_2D" ->
            \* an empty window has no largest element
            Unless(\/ Len(s[1].ne) < 3 \/ ~Slides(PoolWindow(p), a)
                   \/ \E i \in 2..3 : p[i] < 0 \/ (p[1] = 0 /\ p[i] = 0),
                   Ok(Pool2D(p[1] # 0, PoolWindow(p), a)))
       [] n.op = "IM2COL" ->
            IF p[7] = 0 THEN NotImplemented
            ELSE Unless(~Unpacks \/ ~Slides(WindowOf(a, p), b), Ok(Im2Col(WindowOf(a, p), b)))
       [] n.op = "CONV_2D" ->
            \* einsum stretches a single channel; an empty kernel never reaches it
            Unless(\/ ~Unpacks \/ ~Slides(WindowOf(a, p), b)
                   \/ (a.ne[1] * a.ne[2] # 0 /\ ~Broadcastable(<<a.ne[3]>>, <<b.ne[3]>>)),
                   Ok(Conv(a, b, WindowOf(a, p))))
       [] OTHER ->  \* CONV_2D_DW; a kernel without its unit dimension is accepted
            LET k == DepthwiseKernel(s[1])
            IN Unless(\/ Len(s[1].ne) < 3 \/ Len(s[2].ne) < 3 \/ ~Slides(WindowOf(a, p), b)
                      \/ k.ne[3] = 0 \/ (a.ne[1] * a.ne[2] # 0 /\ k.ne[4] \notin {1, b.ne[3]}),
                      Ok(ConvDepthwise(k, b, WindowOf(a, p))))

MatResult(n, s) ==
  LET a == s[1]  b == s[2]
  IN IF n.op = "OUT_PROD"
     THEN Unless(~Broadcastable(Tail(a.ne), Tail(b.ne)), Ok(OutProd(a, b)))
     ELSE Unless(\/ Len(a.ne) < 2 \/ a.ne[1] # b.ne[1]
                 \/ ~Broadcastable(SubSeq(a.ne, 3, Len(a.ne)), SubSeq(b.ne, 3, Len(b.ne))),
                 Ok(MatMul(a, b)))

RowOps == {"SUM", "SUM_ROWS", "MEAN", "ARGMAX", "COUNT_EQUAL", "NORM", "GROUP_NORM",
           "SOFT_MAX", "RMS_NORM", "L2_NORM"}
MoveOps == {"DUP", "CPY", "CONT", "REPEAT", "CONCAT", "PAD", "GET_ROWS", "DIAG_MASK_INF",
            "DIAG_MASK_ZERO", "UPSCALE"}

(* The sources an operator indexes: one that the graph does not name is an IndexError. *)
OneSource == {"UNARY", "GLU", "LEAKY_RELU", "SCALE", "CLAMP", "POOL_2D"} \cup ElementOps
             \cup RowOps \cup MoveOps
TwoSources == {"ADD1", "COUNT_EQUAL", "MUL_MAT", "OUT_PROD", "CONCAT", "GET_ROWS", "IM2COL", "CONV_2D", "CONV_2D_DW"}
              \cup BinaryOps
Arity(n) ==
  IF n.op \in TwoSources THEN IF n.op = "IM2COL" /\ n.p[7] = 0 THEN 0 ELSE 2
  ELSE IF n.op \in OneSource THEN 1 ELSE 0

(* compute(node, srcs) *)
Compute(n, s) ==
  IF Len(s) < Arity(n) THEN Raises ELSE
  CASE n.op \in {"UNARY", "GLU", "LEAKY_RELU", "SCALE", "ADD1", "CLAMP"} \cup ElementOps
                \cup BinaryOps -> ElementResult(n, s)
    [] n.op \in RowOps -> RowResult(n, s)
    [] n.op \in {"MUL_MAT", "OUT_PROD"} -> MatResult(n, s)
    [] n.op \in MoveOps -> MoveResult(n, s)
    [] n.op \in {"IM2COL", "CONV_2D_DW", "CONV_2D", "POOL_2D"} -> WindowResult(n, s)
    [] n.op = "FILL" -> Ok(Array([d \in 1..4 |-> Max({1, n.dst.ne[d]})], LAMBDA c : n.p[1]))
    [] n.op \in ViewOps -> Nothing
    [] OTHER -> NotImplemented

(* The whole fallback of _h_graph_compute for a node: sources, operator, destination. *)
Fallback(n, m) ==
  LET srcs == ResolveSrcs(n.src, m)
      r == Compute(n, srcs.x)
  IN IF srcs.is # "ok" THEN srcs
     ELSE IF r.is # "ok" THEN r ELSE WriteTensor(n.dst, m, r.x)
================================================================================
