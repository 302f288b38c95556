---------------------------- MODULE GraphRouteProofs ----------------------------
(***************************************************************************)
(* The walk of a graph, for every graph, memory and geometry.              *)
(* A kernel that a call finds under its key is the kernel that the call    *)
(* would have compiled.  The key does not hold the text, nor every         *)
(* constant of it: the argument is that the text is a function of the key  *)
(* (TextOf), for every call of every route.                                *)
(* A node writes only inside its destination: the dumps that the calls of  *)
(* a route ask for are together no longer than the destination spans       *)
(* (Fit), and the walk makes these calls in their order (RouteInv).        *)
(***************************************************************************)
EXTENDS GraphHostProofs

PoolTpls == {PoolTpl(0), PoolTpl(1)}

(* The text that a key stands for. *)
TextOf(key) ==
  LET tpl == key.op[1]  ne == key.ne
  IN IF tpl \in PoolTpls THEN PoolText(tpl, ne[1], ne[2], ne[3], ne[4], ne[5], ne[6])
     ELSE IF tpl = "unary_arange" THEN Text(tpl, "", <<ne[1] \div LaneWidth, LaneWidth>>)
     ELSE Text(tpl, key.op[2], ne)

Canonical(call) == call.text = TextOf(call.key)

(* A sequence of such calls. *)
CanonicalCalls(cs) ==
  /\ cs \in Seq({cs[i] : i \in DOMAIN cs})
  /\ \A i \in DOMAIN cs : Canonical(cs[i])

(* The inductive invariant: every cached kernel was built from the text of its key, and every
   call that waits has the text of its key. *)
CacheInv ==
  /\ \A k \in DOMAIN elves : elves[k] = TextOf(k)
  /\ CanonicalCalls(calls)

-----------------------------------------------------------------------------
(* One call. *)

(* A runner that keys its kernel by all the constants of the template. *)
LEMMA SimpleCanonical ==
  ASSUME NEW tpl, tpl \notin PoolTpls, tpl # "unary_arange",
         NEW name, NEW c, NEW a, NEW b, NEW d
  PROVE  Canonical(SimpleCall(tpl, name, c, a, b, d))
BY DEF Canonical, TextOf, SimpleCall, Call, Key, Text

(* The pooling runners, whose output size and reciprocal follow from the key. *)
LEMMA PoolCanonical ==
  ASSUME NEW tpl \in PoolTpls, NEW h, NEW w, NEW kh, NEW kw, NEW sh, NEW sw,
         NEW a, NEW b, NEW d
  PROVE  Canonical(Call(PoolText(tpl, h, w, kh, kw, sh, sw),
                        Key(<<tpl, "">>, <<h, w, kh, kw, sh, sw>>), a, b, d))
BY DEF Canonical, TextOf, Call, Key

(* ARANGE, keyed by the length of the sequence. *)
LEMMA ArangeCanonical ==
  ASSUME NEW len, NEW a, NEW b, NEW d
  PROVE  Canonical(Call(Text("unary_arange", "", <<len \div LaneWidth, LaneWidth>>),
                        Key(<<"unary_arange", "">>, <<len>>), a, b, d))
BY DEF Canonical, TextOf, Call, Key, PoolTpls, PoolTpl

-----------------------------------------------------------------------------
(* Sequences of calls. *)

LEMMA NoCalls == CanonicalCalls(<<>>)
BY DEF CanonicalCalls

LEMMA SingleCall == ASSUME NEW c, Canonical(c) PROVE CanonicalCalls(<<c>>)
BY DEF CanonicalCalls

LEMMA ManyCalls ==
  ASSUME NEW k \in Int, NEW cs, DOMAIN cs = 1..k, cs = [i \in 1..k |-> cs[i]],
         \A i \in 1..k : Canonical(cs[i])
  PROVE  CanonicalCalls(cs)
<1> DEFINE S == {cs[i] : i \in DOMAIN cs}
<1>1. cs \in [1..k -> S]
  OBVIOUS
<1>2. CASE k \in Nat
  BY <1>1, <1>2, SMTT(30) DEF CanonicalCalls
<1>3. CASE k \notin Nat
  <2>1. 1..k = 1..0
    BY <1>3
  <2>2. cs \in [1..0 -> S]
    BY <1>1, <2>1
  <2> QED
    BY <2>1, <2>2 DEF CanonicalCalls
<1> QED
  BY <1>2, <1>3

LEMMA RestOfCalls ==
  ASSUME NEW cs, CanonicalCalls(cs), cs # <<>>
  PROVE  /\ 1 \in DOMAIN cs
         /\ CanonicalCalls(Tail(cs))
<1> DEFINE S == {cs[i] : i \in DOMAIN cs}
           T == Tail(cs)
           R == {T[i] : i \in DOMAIN T}
<1>1. cs \in Seq(S) /\ \A i \in DOMAIN cs : Canonical(cs[i])
  BY DEF CanonicalCalls
<1>2. /\ 1 \in DOMAIN cs
      /\ T \in Seq(S) /\ DOMAIN T = 1..(Len(cs) - 1)
      /\ \A i \in DOMAIN T : T[i] = cs[i + 1] /\ i + 1 \in DOMAIN cs
  BY <1>1
<1>3. Len(T) \in Nat /\ T \in [1..Len(T) -> S] /\ DOMAIN T = 1..Len(T)
  <2> HIDE DEF S, T
  <2> QED
    BY <1>2, LenProperties
<1>4. T \in [1..Len(T) -> R]
  <2> HIDE DEF S, T
  <2> QED
    BY <1>3
<1>5. T \in Seq(R)
  <2> HIDE DEF S, T, R
  <2> QED
    BY <1>3, <1>4, IntoSeq
<1>6. \A i \in DOMAIN T : Canonical(T[i])
  BY <1>1, <1>2
<1>7. CanonicalCalls(T)
  BY <1>5, <1>6 DEF CanonicalCalls
<1> QED
  BY <1>2, <1>7

-----------------------------------------------------------------------------
(* The routes. *)

LEMMA CeilingInt ==
  ASSUME NEW x \in Nat, NEW y \in Nat \ {0}
  PROVE  Ceiling(x, y) \in Nat
BY DEF Ceiling

(* Chunks and tiles are calls of runners that key by every constant. *)
LEMMA ChunksCanonical ==
  ASSUME NEW tpl, tpl \notin PoolTpls, tpl # "unary_arange", NEW name, NEW x, NEW y,
         Len(x) \in Nat
  PROVE  CanonicalCalls(Chunked(tpl, name, x, y))
<1> DEFINE cs == Chunked(tpl, name, x, y)
           k == Ceiling(Len(x), Chunk)
<1>1. k \in Int
  BY CeilingInt, RouteAssumption
<1>2. DOMAIN cs = 1..k /\ cs = [i \in 1..k |-> cs[i]]
  BY DEF Chunked
<1>3. \A i \in 1..k : Canonical(cs[i])
  BY SimpleCanonical DEF Chunked
<1> HIDE DEF cs, k
<1>4. CanonicalCalls(cs)
  BY <1>1, <1>2, <1>3, ManyCalls
<1> QED
  BY <1>4 DEF cs

LEMMA TilesCanonical ==
  ASSUME NEW a, NEW b, NEW M \in Nat, NEW K, NEW N \in Nat
  PROVE  CanonicalCalls(TileCalls(a, b, M, K, N))
<1> DEFINE cs == TileCalls(a, b, M, K, N)
           k == Ceiling(M, TileM) * Ceiling(N, TileN)
<1>1. k \in Int
  <2>1. Ceiling(M, TileM) \in Nat /\ Ceiling(N, TileN) \in Nat
    BY CeilingInt, RouteAssumption
  <2> QED
    BY <2>1
<1>2. DOMAIN cs = 1..k /\ cs = [i \in 1..k |-> cs[i]]
  BY DEF TileCalls
<1>3. "mul_mat" \notin PoolTpls
  BY DEF PoolTpls, PoolTpl
<1>4. \A i \in 1..k : Canonical(cs[i])
  BY SimpleCanonical, <1>3 DEF TileCalls
<1> HIDE DEF cs, k
<1>5. CanonicalCalls(cs)
  BY <1>1, <1>2, <1>4, ManyCalls
<1> QED
  BY <1>5 DEF cs

(* The other names of templates. *)
LEMMA PlainTemplates ==
  \A tpl \in {"unary_pad", "unary_repeat", "unary_cont", "unary_concat", "unary_concat_channel",
              "unary_conv_2d", "unary_im2col", "unary_im2col_multich", "mul_mat", "unary_sqr",
              "unary_ceil", "unary_expm1", "unary_sum_rows", "unary_norm", "unary_group_norm",
              "unary_scale", "unary_clamp", "unary_mean", "unary_sum", "unary_tri",
              "unary_intrin1", "binary_intrin1"} :
     tpl \notin PoolTpls /\ tpl # "unary_arange"
BY DEF PoolTpls, PoolTpl

LEMMA PadCanonical == ASSUME NEW n, NEW m PROVE CanonicalCalls(PadRoute(n, m).calls)
BY SimpleCanonical, PlainTemplates, SingleCall, NoCalls DEF PadRoute, OneCall, If, Route, Miss

LEMMA RepeatCanonical == ASSUME NEW n, NEW m PROVE CanonicalCalls(RepeatRoute(n, m).calls)
BY SimpleCanonical, PlainTemplates, SingleCall, NoCalls DEF RepeatRoute, OneCall, If, Route, Miss

LEMMA CopyCanonical ==
  ASSUME NEW data, NEW row, NEW rows PROVE CanonicalCalls(CopyRows(data, row, rows).calls)
BY SimpleCanonical, PlainTemplates, SingleCall, NoCalls DEF CopyRows, If, Route, Miss

LEMMA ContCanonical == ASSUME NEW n, NEW m PROVE CanonicalCalls(ContRoute(n, m).calls)
BY CopyCanonical, NoCalls DEF ContRoute, Route, Miss

LEMMA UpscaleCanonical == ASSUME NEW n, NEW m PROVE CanonicalCalls(UpscaleRoute(n, m).calls)
BY CopyCanonical, NoCalls DEF UpscaleRoute, Route, Miss, Crash

LEMMA ConcatCanonical == ASSUME NEW n, NEW m PROVE CanonicalCalls(ConcatRoute(n, m).calls)
BY SimpleCanonical, PlainTemplates, SingleCall, NoCalls DEF ConcatRoute, If, Route, Miss

LEMMA ConvCanonical == ASSUME NEW n, NEW m PROVE CanonicalCalls(ConvRoute(n, m).calls)
BY SimpleCanonical, PlainTemplates, SingleCall, NoCalls DEF ConvRoute, If, Route, Miss

LEMMA Im2ColCanonical == ASSUME NEW n, NEW m PROVE CanonicalCalls(Im2ColRoute(n, m).calls)
BY SimpleCanonical, PlainTemplates, SingleCall, NoCalls DEF Im2ColRoute, If, Route, Miss

LEMMA PoolRouteCanonical == ASSUME NEW n, NEW m PROVE CanonicalCalls(PoolRoute(n, m).calls)
BY PoolCanonical, SingleCall, NoCalls, ZenonT(60) DEF PoolRoute, PoolTpls, PoolTpl, OneCall, If, Route, Miss

LEMMA ArangeRouteCanonical == ASSUME NEW n PROVE CanonicalCalls(ArangeRoute(n).calls)
BY ArangeCanonical, SingleCall, NoCalls DEF ArangeRoute, If, Route, Miss

(* Every arm of the shape-parameterised runners. *)
LEMMA SimpleCallCanonical ==
  ASSUME NEW n, NEW w, NEW h, NEW data,
         n.op \in SimpleUnary \/ n.sub \in SimpleSubops
  PROVE  Canonical(SimpleCallOf(n, w, h, data))
<1> DEFINE p == n.p
           l == Len(data)
           c1 == SimpleCall("unary_sqr", "SQR", <<w, h>>, data, <<>>, l)
           c2 == SimpleCall("unary_ceil", "CEIL", <<w, h>>, data, <<>>, l)
           c3 == SimpleCall("unary_expm1", "EXPM1", <<w, h>>, data, <<>>, l)
           c4 == SimpleCall("unary_sum_rows", "", <<w, h>>, data, <<>>, h)
           c5 == SimpleCall("unary_norm", "", <<w, h, p[1]>>, data, <<>>, l)
           c6 == SimpleCall("unary_group_norm", "", <<w, h, p[2]>>, data, <<>>, l)
           c7 == SimpleCall("unary_scale", "", <<w, h>>, data, <<p[1]>>, l)
           c8 == SimpleCall("unary_clamp", "", <<w, h>>, data, <<p[1], p[2]>>, l)
           c9 == SimpleCall("unary_mean", "", <<w, h, Inv(w)>>, data, <<>>, h)
           c10 == SimpleCall("unary_sum", "", <<w, h>>, data, <<>>, Bus)
           c11 == SimpleCall("unary_tri", "", <<w, h, p[1]>>, data, <<>>, l)
           r == SimpleCallOf(n, w, h, data)
<1>1. /\ Canonical(c1) /\ Canonical(c2) /\ Canonical(c3) /\ Canonical(c4) /\ Canonical(c5) /\ Canonical(c6)
      /\ Canonical(c7) /\ Canonical(c8) /\ Canonical(c9) /\ Canonical(c10) /\ Canonical(c11)
  BY SimpleCanonical, PlainTemplates
<1>2. r = CASE n.op = "SQR" -> c1
            [] n.sub = "CEIL" -> c2
            [] n.sub = "EXPM1" -> c3
            [] n.op = "SUM_ROWS" -> c4
            [] n.op = "NORM" -> c5
            [] n.op = "GROUP_NORM" -> c6
            [] n.op = "SCALE" -> c7
            [] n.op = "CLAMP" -> c8
            [] n.op = "MEAN" -> c9
            [] n.op = "SUM" -> c10
            [] n.op = "TRI" -> c11
  BY Zenon DEF SimpleCallOf
<1> HIDE DEF c1, c2, c3, c4, c5, c6, c7, c8, c9, c10, c11, r
<1>3. Canonical(r)
  BY <1>1, <1>2 DEF SimpleUnary, SimpleSubops
<1> QED
  BY <1>3 DEF r

LEMMA SimpleRouteCanonical ==
  ASSUME NEW n, NEW m, n.op \in SimpleUnary \/ n.sub \in SimpleSubops
  PROVE  CanonicalCalls(SimpleRoute(n, m).calls)
BY SimpleCallCanonical, SingleCall, NoCalls DEF SimpleRoute, OneCall, If, Route, Miss

LEMMA SourceTypes ==
  ASSUME NEW n \in NodeType, NEW k \in 1..2, NEW types, Sources(n, k, types)
  PROVE  \A i \in 1..k : n.src[i] \in TensorType
<1> DEFINE s == n.src
<1>1. s \in Seq(TensorType) /\ Len(s) >= k
  BY DEF Sources, NodeType
<1> HIDE DEF s
<1>2. Len(s) \in Nat /\ \A i \in 1..Len(s) : s[i] \in TensorType
  BY <1>1
<1>3. \A i \in 1..k : i \in 1..Len(s)
  BY <1>1, <1>2
<1> QED
  BY <1>2, <1>3 DEF s

LEMMA UnaryRouteCanonical ==
  ASSUME NEW n \in NodeType, NEW m, NEW name
  PROVE  CanonicalCalls(UnaryRoute(n, m, name).calls)
<1> DEFINE x == Flat(n.src[1], m)
<1>1. CASE Sources(n, 1, Castable)
  <2>1. Len(x) \in Nat
    BY <1>1, SourceTypes, FlatRead
  <2>2. CanonicalCalls(Chunked("unary_intrin1", name, x, <<>>))
    BY <2>1, ChunksCanonical, PlainTemplates
  <2> QED
    BY <2>2, NoCalls DEF UnaryRoute, If, Route, Miss
<1>2. CASE ~Sources(n, 1, Castable)
  BY <1>2, NoCalls DEF UnaryRoute, If, Route, Miss
<1> QED
  BY <1>1, <1>2

LEMMA BinaryRouteCanonical ==
  ASSUME NEW n \in NodeType, NEW m
  PROVE  CanonicalCalls(BinaryRoute(n, m).calls)
<1> DEFINE x == Flat(n.src[1], m)
<1>1. CASE Sources(n, 2, Castable)
  <2>1. Len(x) \in Nat
    BY <1>1, SourceTypes, FlatRead
  <2>2. \A z : CanonicalCalls(Chunked("binary_intrin1", n.op, x, z))
    BY <2>1, ChunksCanonical, PlainTemplates
  <2> QED
    BY <2>2, NoCalls DEF BinaryRoute, If, Route, Miss
<1>2. CASE ~Sources(n, 2, Castable)
  BY <1>2, NoCalls DEF BinaryRoute, If, Route, Miss
<1> QED
  BY <1>1, <1>2

LEMMA MulMatCanonical ==
  ASSUME NEW n \in NodeType, NEW m
  PROVE  CanonicalCalls(MulMatRoute(n, m).calls)
<1> DEFINE a == n.src[1]  b == n.src[2]
<1>1. CASE Sources(n, 2, Castable)
  <2>1. a.ne[2] \in Nat /\ b.ne[2] \in Nat
    BY <1>1, SourceTypes DEF TensorType
  <2>2. \A x, y : CanonicalCalls(TileCalls(x, y, a.ne[2], a.ne[1], b.ne[2]))
    BY <2>1, TilesCanonical
  <2> QED
    BY <2>2, NoCalls DEF MulMatRoute, If, Route, Miss
<1>2. CASE ~Sources(n, 2, Castable)
  BY <1>2, NoCalls DEF MulMatRoute, If, Route, Miss
<1> QED
  BY <1>1, <1>2

(* Whatever the operator, the calls of a route have the texts of their keys. *)
LEMMA RouteCanonical ==
  ASSUME NEW n \in Nodes, NEW m
  PROVE  CanonicalCalls(TryPyspike(n, m).calls)
<1>1. n \in NodeType
  BY RouteAssumption
<1>2. CanonicalCalls(Miss.calls)
  BY NoCalls DEF Miss, Route
<1> QED
  BY <1>1, <1>2, MulMatCanonical, ArangeRouteCanonical, RepeatCanonical, UpscaleCanonical,
     PadCanonical, ContCanonical, ConcatCanonical, PoolRouteCanonical, Im2ColCanonical,
     ConvCanonical, SimpleRouteCanonical, UnaryRouteCanonical, BinaryRouteCanonical
     DEF TryPyspike

-----------------------------------------------------------------------------
(* The walk. *)

LEMMA CacheInit == Init => CacheInv
BY NoCalls DEF Init, CacheInv

LEMMA CacheStep == CacheInv /\ [Next]_vars => CacheInv'
<1> SUFFICES ASSUME CacheInv, [Next]_vars
             PROVE  CacheInv'
  OBVIOUS
<1>1. CASE Take
  <2>1. CanonicalCalls(calls')
    BY <1>1, RouteCanonical DEF Take
  <2> QED
    BY <1>1, <2>1 DEF Take, CacheInv, CanonicalCalls, Canonical, TextOf
<1>2. CASE BuildKernel
  <2>1. Canonical(calls[1])
    BY <1>2, RestOfCalls DEF BuildKernel, CallPending, CacheInv, CanonicalCalls
  <2>2. \A k \in DOMAIN elves' : elves'[k] = TextOf(k)
    BY <1>2, <2>1 DEF BuildKernel, CacheInv, Canonical
  <2> QED
    BY <1>2, <2>2 DEF BuildKernel, CacheInv
<1>3. CASE RunKernel
  <2>1. CanonicalCalls(Tail(calls))
    BY <1>3, RestOfCalls DEF RunKernel, CallPending, CacheInv
  <2> QED
    BY <1>3, <2>1 DEF RunKernel, CacheInv
<1>4. CASE CallFails
  BY <1>4, NoCalls DEF CallFails, CacheInv
<1>5. CASE FinishRoute
  BY <1>5 DEF FinishRoute, Settle, CacheInv
<1>6. CASE NumPyFallback
  BY <1>6 DEF NumPyFallback, Settle, CacheInv
<1>7. CASE UNCHANGED vars
  BY <1>7 DEF vars, CacheInv
<1> QED
  BY <1>1, <1>2, <1>3, <1>4, <1>5, <1>6, <1>7 DEF Next

LEMMA CacheFits == CacheInv => CachedKernelFits
BY DEF CacheInv, CachedKernelFits, CanonicalCalls, Canonical

(* A cached kernel that a call finds under its key was built from the text that the call would
   have compiled, for every graph, every memory and every chunk, tile and bus geometry: the
   kernel cache of _build_kernel never serves the kernel of another shape, operator or
   parameter. *)
THEOREM CachedKernelsFit == Spec => []CachedKernelFits
<1> QED
  BY CacheInit, CacheStep, CacheFits, PTL DEF Spec

-----------------------------------------------------------------------------
(* The types of the walk. *)

(* A route that leads to the host makes no calls. *)
Proper(r) == r.to \in {"next", "call", "host"} /\ (r.to = "host" => r.calls = <<>>)

LEMMA ProperRoutes == Proper(Miss) /\ Proper(Crash) /\ \A g, cs : Proper(If(g, cs))
BY DEF Proper, Miss, Crash, Route, If

LEMMA CopyProper == ASSUME NEW data, NEW row, NEW rows PROVE Proper(CopyRows(data, row, rows))
BY DEF CopyRows, Proper, Miss, Route, If

LEMMA ContProper == ASSUME NEW n, NEW m PROVE Proper(ContRoute(n, m))
BY ProperRoutes, CopyProper, Zenon DEF ContRoute

LEMMA UpscaleProper == ASSUME NEW n, NEW m PROVE Proper(UpscaleRoute(n, m))
BY ProperRoutes, CopyProper, Zenon DEF UpscaleRoute

LEMMA OthersProper ==
  ASSUME NEW n, NEW m
  PROVE  /\ Proper(MulMatRoute(n, m)) /\ Proper(ArangeRoute(n)) /\ Proper(RepeatRoute(n, m))
         /\ Proper(PadRoute(n, m)) /\ Proper(ConcatRoute(n, m)) /\ Proper(PoolRoute(n, m))
         /\ Proper(Im2ColRoute(n, m)) /\ Proper(ConvRoute(n, m)) /\ Proper(SimpleRoute(n, m))
         /\ Proper(BinaryRoute(n, m)) /\ \A name : Proper(UnaryRoute(n, m, name))
<1>1. \A g, cs : Proper(If(g, cs))
  BY ProperRoutes
<1>2. Proper(MulMatRoute(n, m)) /\ Proper(ArangeRoute(n)) /\ Proper(RepeatRoute(n, m))
  BY <1>1, Zenon DEF MulMatRoute, ArangeRoute, RepeatRoute, OneCall
<1>3. Proper(PadRoute(n, m)) /\ Proper(PoolRoute(n, m)) /\ Proper(SimpleRoute(n, m))
  BY <1>1, Zenon DEF PadRoute, PoolRoute, SimpleRoute, OneCall
<1>4. Proper(ConcatRoute(n, m))
  BY <1>1, ProperRoutes, Zenon DEF ConcatRoute
<1>5. Proper(Im2ColRoute(n, m)) /\ Proper(ConvRoute(n, m))
  BY <1>1, Zenon DEF Im2ColRoute, ConvRoute
<1>6. Proper(BinaryRoute(n, m)) /\ \A name : Proper(UnaryRoute(n, m, name))
  BY <1>1, Zenon DEF BinaryRoute, UnaryRoute
<1> QED
  BY <1>2, <1>3, <1>4, <1>5, <1>6

LEMMA RouteProper == ASSUME NEW n, NEW m PROVE Proper(TryPyspike(n, m))
BY OthersProper, ContProper, UpscaleProper, ProperRoutes, Zenon DEF TryPyspike

(* A text has a template, a name and constants. *)
LEMMA TextFields == ASSUME NEW key PROVE DOMAIN TextOf(key) = {"tpl", "name", "c"}
BY DEF TextOf, PoolText, Text

(* What the steps keep: the texts follow from the keys, and a node that is computed is one of
   the graph. *)
WalkInv ==
  /\ CacheInv
  /\ DOMAIN ram = DOMAIN Image
  /\ walked \in 0..MaxNodes /\ pc \in {"next", "call", "host"}
  /\ pc # "next" => node \in Nodes
  /\ pc = "host" => calls = <<>> /\ outs = <<>>
  /\ settled \in {"none", "spike"} \cup Outcomes

LEMMA WalkInit == Init => WalkInv
BY CacheInit, RouteAssumption DEF Init, WalkInv

LEMMA WalkStep == WalkInv /\ [Next]_vars => WalkInv'
<1> SUFFICES ASSUME WalkInv, [Next]_vars
             PROVE  WalkInv'
  OBVIOUS
<1>1. CacheInv'
  BY CacheStep DEF WalkInv
<1>2. CASE Take
  <2>1. PICK n \in Nodes : /\ node' = n /\ pc' = TryPyspike(n, ram).to
                           /\ calls' = TryPyspike(n, ram).calls
                           /\ settled' \in {"errored", "none"}
    BY <1>2 DEF Take
  <2>2. Proper(TryPyspike(n, ram))
    BY RouteProper
  <2>3. walked \in Nat /\ walked < MaxNodes /\ walked' = walked + 1 /\ outs' = <<>> /\ ram' = ram
    BY <1>2, RouteAssumption DEF Take, WalkInv
  <2>4. walked' \in 0..MaxNodes
    BY <2>3, RouteAssumption
  <2> QED
    BY <1>1, <2>1, <2>2, <2>3, <2>4 DEF WalkInv, Proper, Outcomes
<1>3. CASE BuildKernel
  BY <1>1, <1>3 DEF BuildKernel, WalkInv
<1>4. CASE RunKernel
  BY <1>1, <1>4 DEF RunKernel, CallPending, WalkInv
<1>5. CASE CallFails
  BY <1>1, <1>5 DEF CallFails, CallPending, WalkInv
<1>6. CASE FinishRoute
  BY <1>1, <1>6 DEF FinishRoute, Settle, Store, WalkInv
<1>7. CASE NumPyFallback
  <2>1. node \in NodeType
    BY <1>7, RouteAssumption DEF NumPyFallback, WalkInv
  <2> DEFINE r == Fallback(node, ram)
  <2>2. /\ pc' = "next" /\ settled' = r.is /\ walked' = walked /\ node' = node
        /\ ram' = IF r.is = "ok" THEN r.x ELSE ram
    BY <1>7 DEF NumPyFallback, Settle
  <2>3. r.is \in Outcomes
    BY <2>1, FallbackEnds
  <2>4. r.is = "ok" => DOMAIN r.x = DOMAIN ram
    BY <2>1, FallbackInside DEF Inside
  <2> HIDE DEF r
  <2> QED
    BY <1>1, <2>2, <2>3, <2>4 DEF WalkInv
<1>8. CASE UNCHANGED vars
  BY <1>1, <1>8 DEF vars, WalkInv
<1> QED
  BY <1>2, <1>3, <1>4, <1>5, <1>6, <1>7, <1>8 DEF Next

LEMMA WalkTypes == WalkInv => WalkTypeOK
BY TextFields DEF WalkInv, CacheInv, WalkTypeOK, Outcomes

(* The walk stays in its types, for every graph and memory: the fallback of every operator ends
   in one of the ways that _h_graph_compute handles, no step takes or adds an address of the
   device memory, and a route that falls back leaves neither calls nor results behind. *)
THEOREM WalkTyped == Spec => []WalkTypeOK
BY WalkInit, WalkStep, WalkTypes, PTL DEF Spec

-----------------------------------------------------------------------------
(* Whether a node reaches the firmware does not depend on the memory. *)

(* A route leads to calls when its guard holds. *)
LEMMA Guarded ==
  ASSUME NEW g, NEW cs
  PROVE  (If(g, cs).to = "call" <=> g) /\ (If(g, cs).to = "call" => If(g, cs).calls = cs)
         /\ Miss.to # "call" /\ Crash.to # "call"
BY DEF If, Route, Miss, Crash

LEMMA FlatSame ==
  ASSUME NEW t \in TensorType, NEW m, NEW m2
  PROVE  Len(Flat(t, m)) = Len(Flat(t, m2))
BY FlatRead

(* The tensors of a node. *)
LEMMA SourceOf ==
  ASSUME NEW n \in NodeType
  PROVE  /\ Len(n.src) >= 1 => n.src[1] \in TensorType
         /\ Len(n.src) >= 2 => n.src[1] \in TensorType /\ n.src[2] \in TensorType
         /\ n.dst \in TensorType
<1> DEFINE s == n.src
<1>1. s \in Seq(TensorType) /\ n.dst \in TensorType
  BY DEF NodeType
<1> HIDE DEF s
<1>2. Len(s) \in Nat /\ \A i \in 1..Len(s) : s[i] \in TensorType
  BY <1>1
<1>3. (Len(s) >= 1 => 1 \in 1..Len(s)) /\ (Len(s) >= 2 => 1 \in 1..Len(s) /\ 2 \in 1..Len(s))
  BY <1>2
<1> QED
  BY <1>1, <1>2, <1>3, Zenon DEF s

LEMMA SimpleSame ==
  ASSUME NEW n \in NodeType, NEW m, NEW m2, SimpleRoute(n, m).to = "call"
  PROVE  SimpleRoute(n, m2).to = "call"
<1> DEFINE g(u) == n.dst.type = "F16" /\ Sources(n, 1, F16) /\ Positive(n.src[1])
                   /\ Len(Flat(n.src[1], u)) % n.src[1].ne[1] = 0
                   /\ SimpleGuard(n, Len(Flat(n.src[1], u)) \div n.src[1].ne[1])
<1>1. \A u : SimpleRoute(n, u).to = "call" <=> g(u)
  BY Guarded, Zenon DEF SimpleRoute, OneCall
<1>2. g(m)
  BY <1>1
<1>3. n.src[1] \in TensorType
  BY <1>2, SourceOf DEF Sources
<1>4. Len(Flat(n.src[1], m)) = Len(Flat(n.src[1], m2))
  BY <1>3, FlatSame
<1>5. g(m2)
  BY <1>2, <1>4, Zenon
<1> QED
  BY <1>1, <1>5

LEMMA PadSame ==
  ASSUME NEW n \in NodeType, NEW m, NEW m2, PadRoute(n, m).to = "call"
  PROVE  PadRoute(n, m2).to = "call"
<1> DEFINE rest == /\ n.p[3] = 0 /\ n.p[4] = 0 /\ Flat2D(n.src[1]) /\ n.p[1] >= 0 /\ n.p[2] >= 0
           g(u) == /\ n.dst.type = "F16" /\ Sources(n, 1, F16) /\ Positive(n.src[1]) /\ rest
                   /\ Len(Flat(n.src[1], u)) = n.src[1].ne[2] * n.src[1].ne[1]
<1>1. \A u : PadRoute(n, u).to = "call" <=> g(u)
  BY Guarded, Zenon DEF PadRoute, OneCall
<1>2. n.src[1] \in TensorType
  BY <1>1, SourceOf DEF Sources
<1>3. g(m2)
  BY <1>1, <1>2, FlatSame, Zenon
<1> QED
  BY <1>1, <1>3

LEMMA PoolSame ==
  ASSUME NEW n \in NodeType, NEW m, NEW m2, PoolRoute(n, m).to = "call"
  PROVE  PoolRoute(n, m2).to = "call"
<1> DEFINE Outs(i) == ((n.src[1].ne[i] - n.p[i + 1]) \div n.p[i + 3]) + 1
           g(u) == /\ n.dst.type = "F16" /\ Sources(n, 1, F16) /\ Positive(n.src[1])
                   /\ n.p[1] \in {0, 1} /\ n.p[6] = 0 /\ n.p[7] = 0 /\ Flat2D(n.src[1])
                   /\ Len(Flat(n.src[1], u)) = n.src[1].ne[1] * n.src[1].ne[2]
                   /\ \A i \in 2..5 : n.p[i] > 0
                   /\ Outs(1) > 0 /\ Outs(2) > 0
<1>1. \A u : PoolRoute(n, u).to = "call" <=> g(u)
  BY Guarded, Zenon DEF PoolRoute, OneCall
<1>2. n.src[1] \in TensorType
  BY <1>1, SourceOf DEF Sources
<1>3. Len(Flat(n.src[1], m)) = Len(Flat(n.src[1], m2))
  BY <1>2, FlatSame
<1>4. g(m2)
  BY <1>1, <1>3
<1> QED
  BY <1>1, <1>4

LEMMA RepeatSame ==
  ASSUME NEW n, NEW m, NEW m2, RepeatRoute(n, m).to = "call"
  PROVE  RepeatRoute(n, m2).to = "call"
<1> DEFINE g == /\ n.dst.type = "F16" /\ Sources(n, 1, F16) /\ Positive(n.src[1]) /\ Positive(n.dst)
                /\ \A i \in 1..4 : n.dst.ne[i] % n.src[1].ne[i] = 0
                /\ Elems(n.src[1].ne) <= RepeatBudget /\ Elems(n.dst.ne) <= RepeatBudget
<1>1. \A u : RepeatRoute(n, u).to = "call" <=> g
  BY Guarded, Zenon DEF RepeatRoute, OneCall
<1> QED
  BY <1>1

(* A copy of rows is one call. *)
LEMMA CopyCalls ==
  ASSUME NEW data, NEW row, NEW rows, CopyRows(data, row, rows).to = "call"
  PROVE  /\ row <= DmaCap /\ rows <= DmaCap /\ Len(data) = row * rows
         /\ CopyRows(data, row, rows).calls =
              <<SimpleCall("unary_cont", "", <<row, rows>>, data, <<>>, row * rows)>>
BY Guarded, Zenon DEF CopyRows

LEMMA CopySame ==
  ASSUME NEW data, NEW data2, NEW row, NEW rows, CopyRows(data, row, rows).to = "call",
         Len(data) = Len(data2)
  PROVE  CopyRows(data2, row, rows).to = "call"
BY Guarded, Zenon DEF CopyRows

LEMMA ContSame ==
  ASSUME NEW n \in NodeType, NEW m, NEW m2, ContRoute(n, m).to = "call"
  PROVE  ContRoute(n, m2).to = "call"
<1> DEFINE g == /\ n.dst.type \in Castable /\ Sources(n, 1, {n.dst.type})
                /\ IsContiguous(n.src[1], 4) /\ IsContiguous(n.dst, 4) /\ n.src[1].ne = n.dst.ne /\ Positive(n.dst)
           row == n.dst.ne[1] * Width(n.dst.type)
           rows == Elems(Tail(n.dst.ne))
<1>1. \A u : ContRoute(n, u) = IF g THEN CopyRows(Raw(n.src[1], u), row, rows) ELSE Miss
  BY Zenon DEF ContRoute
<1>2. g
  BY <1>1, Guarded
<1>3. n.src[1] \in TensorType
  BY <1>2, SourceOf DEF Sources
<1>4. Len(Raw(n.src[1], m)) = Len(Raw(n.src[1], m2))
  <2>1. Span(n.src[1]) \in Nat
    BY <1>3, SpanFacts
  <2> QED
    BY <2>1 DEF Raw
<1> HIDE DEF g, row, rows
<1>5. ContRoute(n, m) = CopyRows(Raw(n.src[1], m), row, rows)
  BY <1>1, <1>2, Zenon
<1>6. ContRoute(n, m2) = CopyRows(Raw(n.src[1], m2), row, rows)
  BY <1>1, <1>2, Zenon
<1>7. CopyRows(Raw(n.src[1], m2), row, rows).to = "call"
  BY <1>4, <1>5, CopySame
<1> QED
  BY <1>6, <1>7

LEMMA ConcatSame ==
  ASSUME NEW n \in NodeType, NEW m, NEW m2, ConcatRoute(n, m).to = "call"
  PROVE  ConcatRoute(n, m2).to = "call"
<1> DEFINE a == n.src[1]
           b == n.src[2]
           plane == a.ne[1] * a.ne[2]
           g == n.dst.type \in Castable /\ Sources(n, 2, Castable) /\ SubSeq(a.ne, 1, 2) = SubSeq(b.ne, 1, 2) /\ Positive(a)
           h1(u) == Flat2D(a) /\ Flat2D(b) /\ Len(Flat(a, u)) = plane /\ Len(Flat(b, u)) = plane
           h2(u) == /\ n.p[1] = 2 /\ a.ne[4] = 1 /\ b.ne[4] = 1 /\ Positive(b)
                    /\ Len(Flat(a, u)) = plane * a.ne[3] /\ Len(Flat(b, u)) = plane * b.ne[3]
<1>1. \A u : ConcatRoute(n, u).to = "call" <=> g /\ IF n.p[1] = 0 THEN h1(u) ELSE h2(u)
  BY Guarded, Zenon DEF ConcatRoute
<1>2. g
  BY <1>1
<1>3. n.src[1] \in TensorType /\ n.src[2] \in TensorType
  BY <1>2, SourceOf DEF Sources
<1>4. Len(Flat(a, m)) = Len(Flat(a, m2)) /\ Len(Flat(b, m)) = Len(Flat(b, m2))
  BY <1>3, FlatSame
<1> QED
  BY <1>1, <1>4, Zenon

LEMMA ConvSame ==
  ASSUME NEW n \in NodeType, NEW m, NEW m2, ConvRoute(n, m).to = "call"
  PROVE  ConvRoute(n, m2).to = "call"
<1> DEFINE k == n.src[1]
           im == n.src[2]
           g == /\ n.dst.type = "F16" /\ Sources(n, 2, F16) /\ SubSeq(n.p, 1, 6) = <<1, 1, 0, 0, 1, 1>>
                /\ Flat2D(k) /\ Flat2D(im) /\ Positive(k) /\ im.ne[1] >= k.ne[1] /\ im.ne[2] >= k.ne[2]
           h(u) == Len(Flat(k, u)) = Elems(k.ne) /\ Len(Flat(im, u)) = Elems(im.ne)
<1>1. \A u : ConvRoute(n, u).to = "call" <=> g /\ h(u)
  BY Guarded, Zenon DEF ConvRoute
<1>3. k \in TensorType /\ im \in TensorType
  BY <1>1, SourceOf DEF Sources
<1>4. Len(Flat(k, m)) = Len(Flat(k, m2)) /\ Len(Flat(im, m)) = Len(Flat(im, m2))
  BY <1>3, FlatSame
<1> QED
  BY <1>1, <1>4, Zenon

LEMMA Im2ColSame ==
  ASSUME NEW n \in NodeType, NEW m, NEW m2, Im2ColRoute(n, m).to = "call"
  PROVE  Im2ColRoute(n, m2).to = "call"
<1> DEFINE k == n.src[1]
           im == n.src[2]
           OutOf(i) == (im.ne[i] - k.ne[i]) \div n.p[1] + 1
           g == /\ n.dst.type \in Castable /\ Len(n.src) >= 2
                /\ k.type # Missing /\ im.type \in Castable
                /\ n.p[1] = n.p[2] /\ n.p[1] > 0 /\ SubSeq(n.p, 3, 7) = <<0, 0, 1, 1, 1>>
                /\ im.ne[4] = 1 /\ k.ne[4] = 1 /\ k.ne[3] = im.ne[3] /\ Positive(k) /\ Positive(im)
                /\ OutOf(1) > 0 /\ OutOf(2) > 0
           h(u) == Len(Flat(im, u)) = Elems(im.ne)
<1>1. \A u : Im2ColRoute(n, u).to = "call" <=> g /\ h(u)
  BY Guarded, Zenon DEF Im2ColRoute
<1>3. im \in TensorType
  BY <1>1, SourceOf
<1>4. Len(Flat(im, m)) = Len(Flat(im, m2))
  BY <1>3, FlatSame
<1> QED
  BY <1>1, <1>4, Zenon

LEMMA MulMatSame ==
  ASSUME NEW n \in NodeType, NEW m, NEW m2, MulMatRoute(n, m).to = "call"
  PROVE  MulMatRoute(n, m2).to = "call"
<1> DEFINE a == n.src[1]
           b == n.src[2]
           g == /\ n.dst.type \in Castable /\ Sources(n, 2, Castable) /\ Flat2D(a) /\ Flat2D(b)
                /\ a.ne[1] = b.ne[1] /\ a.ne[1] % LaneWidth = 0
           h(u) == Len(Flat(a, u)) = Elems(a.ne) /\ Len(Flat(b, u)) = Elems(b.ne)
<1>1. \A u : MulMatRoute(n, u).to = "call" <=> g /\ h(u)
  BY Guarded, Zenon DEF MulMatRoute
<1>3. a \in TensorType /\ b \in TensorType
  BY <1>1, SourceOf DEF Sources
<1>4. Len(Flat(a, m)) = Len(Flat(a, m2)) /\ Len(Flat(b, m)) = Len(Flat(b, m2))
  BY <1>3, FlatSame
<1> QED
  BY <1>1, <1>4, Zenon

LEMMA UnarySame ==
  ASSUME NEW n \in NodeType, NEW m, NEW m2, NEW name, UnaryRoute(n, m, name).to = "call"
  PROVE  UnaryRoute(n, m2, name).to = "call"
<1> DEFINE g == n.dst.type \in Castable /\ Sources(n, 1, Castable)
           h(u) == Len(Flat(n.src[1], u)) > 0 /\ Len(Flat(n.src[1], u)) % LaneWidth = 0
<1>1. \A u : UnaryRoute(n, u, name).to = "call" <=> g /\ h(u)
  BY Guarded, Zenon DEF UnaryRoute
<1>2. n.src[1] \in TensorType
  BY <1>1, SourceOf DEF Sources
<1> QED
  BY <1>1, <1>2, FlatSame, Zenon

(* A broadcast operand is as long as the first. *)
LEMMA BroadcastLen ==
  ASSUME NEW a \in TensorType, NEW b, NEW y
  PROVE  IsSeq(BroadcastSrcTo(a, b, y)) /\ Len(BroadcastSrcTo(a, b, y)) = Elems(a.ne)
<1> DEFINE v == BroadcastSrcTo(a, b, y)
           k == Elems(a.ne)
<1>1. v = [i \in 1..k |-> v[i]]
  BY DEF BroadcastSrcTo, Array
<1>2. k \in Nat
  BY ElemsOfTensor
<1> HIDE DEF v, k
<1>3. IsSeq(v) /\ Len(v) = k
  BY <1>1, <1>2, VectorIsSeq
<1> QED
  BY <1>3 DEF v, k

LEMMA BinarySame ==
  ASSUME NEW n \in NodeType, NEW m, NEW m2, BinaryRoute(n, m).to = "call"
  PROVE  BinaryRoute(n, m2).to = "call"
<1> DEFINE a == n.src[1]
           b == n.src[2]
           x(u) == Flat(a, u)
           y(u) == Flat(b, u)
           z(u) == IF Len(x(u)) = Len(y(u)) THEN y(u) ELSE BroadcastSrcTo(a, b, y(u))
           g == n.dst.type \in Castable /\ Sources(n, 2, Castable)
           h(u) == /\ Len(x(u)) > 0 /\ Len(y(u)) > 0
                   /\ (Len(x(u)) = Len(y(u)) \/ CanBroadcast(a, b, y(u)))
                   /\ Len(z(u)) = Len(x(u)) /\ Len(x(u)) % LaneWidth = 0
<1>1. \A u : BinaryRoute(n, u).to = "call" <=> g /\ h(u)
  BY Guarded, Zenon DEF BinaryRoute
<1>2. a \in TensorType /\ b \in TensorType
  BY <1>1, SourceOf DEF Sources
<1>3. Len(x(m)) = Len(x(m2)) /\ Len(y(m)) = Len(y(m2))
  BY <1>2, FlatSame
<1>4. Len(z(m)) = Len(z(m2))
  BY <1>2, <1>3, BroadcastLen
<1>5. h(m2)
  BY <1>1, <1>3, <1>4, Zenon DEF CanBroadcast
<1> QED
  BY <1>1, <1>5

(* np.repeat by whole factors. *)
Enlarged(s, d) ==
  [i \in DOMAIN s.ne |-> IF i <= 2 THEN s.ne[i] * <<d[1] \div s.ne[1], d[2] \div s.ne[2]>>[i] ELSE s.ne[i]]

LEMMA EnlargedSize ==
  ASSUME NEW s \in TensorType, NEW d \in [1..4 -> Nat], Positive(s)
  PROVE  Elems(Enlarged(s, d)) \in Nat
<1> DEFINE f1 == d[1] \div s.ne[1]
           f2 == d[2] \div s.ne[2]
           a == s.ne[1]
           b == s.ne[2]
           c == s.ne[3]
           e == s.ne[4]
           x == Enlarged(s, d)
<1>1. DOMAIN s.ne = 1..4 /\ a \in Nat /\ b \in Nat /\ c \in Nat /\ e \in Nat /\ a > 0 /\ b > 0
  BY TensorDims DEF Positive
<1>2. f1 \in Nat /\ f2 \in Nat
  <2> HIDE DEF a, b
  <2> DEFINE d1 == d[1]
             d2 == d[2]
  <2>1. d1 \in Nat /\ d2 \in Nat
    OBVIOUS
  <2> HIDE DEF d1, d2
  <2>2. d1 \div a \in Nat /\ d2 \div b \in Nat
    BY <1>1, <2>1
  <2> QED
    BY <2>2 DEF a, b, d1, d2
<1>3. x = [i \in 1..4 |-> IF i <= 2 THEN s.ne[i] * <<f1, f2>>[i] ELSE s.ne[i]]
  BY <1>1, Zenon DEF Enlarged
<1> HIDE DEF f1, f2, x
<1>4. DOMAIN x = 1..4 /\ x[1] = a * f1 /\ x[2] = b * f2 /\ x[3] = c /\ x[4] = e
  BY <1>3
<1> HIDE DEF a, b, c, e
<1>5. a * f1 \in Nat /\ b * f2 \in Nat
  BY <1>1, <1>2
<1> DEFINE u == a * f1
           v == b * f2
<1>6. u \in Nat /\ v \in Nat /\ x[1] = u /\ x[2] = v
  BY <1>4, <1>5
<1> HIDE DEF u, v
<1>7. \A i \in 1..4 : x[i] \in Int
  BY <1>1, <1>4, <1>6
<1>8. Elems(x) = x[1] * x[2] * x[3] * x[4]
  BY <1>4, <1>7, ElemsFour
<1>9. u * v \in Nat /\ u * v * c \in Nat /\ u * v * c * e \in Nat
  BY <1>1, <1>6
<1> QED
  BY <1>4, <1>6, <1>8, <1>9 DEF x

LEMMA RepeatedLen ==
  ASSUME NEW s \in TensorType, NEW d \in [1..4 -> Nat], Positive(s), NEW w
  PROVE  Len(Repeated([ne |-> s.ne, v |-> w], <<d[1] \div s.ne[1], d[2] \div s.ne[2]>>).v)
           = Elems(Enlarged(s, d))
<1> DEFINE v == Repeated([ne |-> s.ne, v |-> w], <<d[1] \div s.ne[1], d[2] \div s.ne[2]>>).v
           k == Elems(Enlarged(s, d))
<1>1. v = [i \in 1..k |-> v[i]]
  BY DEF Repeated, Array, Enlarged
<1>2. k \in Nat
  BY EnlargedSize
<1> HIDE DEF v, k
<1>3. Len(v) = k
  BY <1>1, <1>2, VectorIsSeq
<1> QED
  BY <1>3 DEF v, k

(* The guard of UPSCALE, what the host makes, and the arms in between. *)
UpscaleGuard(n) ==
  LET s == n.src[1]  d == n.dst.ne
  IN /\ n.dst.type \in Castable /\ Sources(n, 1, Castable) /\ n.p[1] % 256 = 0
     /\ Positive(s) /\ Positive(n.dst)
     /\ d[3] = s.ne[3] /\ d[4] = s.ne[4]
     /\ d[1] % s.ne[1] = 0 /\ d[2] % s.ne[2] = 0
     /\ d[1] <= DmaCap /\ d[2] * d[3] * d[4] <= DmaCap

Upscaled(n, m) ==
  LET s == n.src[1]  d == n.dst.ne
  IN Repeated([ne |-> s.ne, v |-> Flat(s, m)], <<d[1] \div s.ne[1], d[2] \div s.ne[2]>>).v

LEMMA UpscaleArms ==
  ASSUME NEW n, NEW m
  PROVE  UpscaleRoute(n, m) =
           IF UpscaleGuard(n)
           THEN IF Len(Flat(n.src[1], m)) # Elems(n.src[1].ne) THEN Crash
                ELSE CopyRows(Upscaled(n, m), n.dst.ne[1], n.dst.ne[2] * n.dst.ne[3] * n.dst.ne[4])
           ELSE Miss
BY Zenon DEF UpscaleRoute, UpscaleGuard, Upscaled

LEMMA UpscaleSame ==
  ASSUME NEW n \in NodeType, NEW m, NEW m2, UpscaleRoute(n, m).to = "call"
  PROVE  UpscaleRoute(n, m2).to = "call"
<1> DEFINE row == n.dst.ne[1]
           rows == n.dst.ne[2] * n.dst.ne[3] * n.dst.ne[4]
           short(u) == Len(Flat(n.src[1], u)) # Elems(n.src[1].ne)
<1>1. \A u : UpscaleRoute(n, u) =
               IF UpscaleGuard(n) THEN IF short(u) THEN Crash ELSE CopyRows(Upscaled(n, u), row, rows) ELSE Miss
  BY UpscaleArms, Zenon
<1>2. UpscaleGuard(n)
  BY <1>1, Guarded
<1>3. n.src[1] \in TensorType /\ Positive(n.src[1]) /\ n.dst.ne \in [1..4 -> Nat]
  BY <1>2, SourceOf, TensorDims DEF UpscaleGuard, Sources
<1>4. Len(Upscaled(n, m)) = Len(Upscaled(n, m2))
  BY <1>3, RepeatedLen DEF Upscaled
<1>5. Len(Flat(n.src[1], m)) = Len(Flat(n.src[1], m2))
  BY <1>3, FlatSame
<1>6. ~short(m) /\ ~short(m2)
  <2>1. short(m) <=> short(m2)
    BY <1>5
  <2> HIDE DEF short, row, rows
  <2>2. ~short(m)
    BY <1>1, <1>2, Guarded
  <2> QED
    BY <2>1, <2>2
<1> HIDE DEF row, rows, short
<1>7. UpscaleRoute(n, m) = CopyRows(Upscaled(n, m), row, rows)
  BY <1>1, <1>2, <1>6, Zenon
<1>8. UpscaleRoute(n, m2) = CopyRows(Upscaled(n, m2), row, rows)
  BY <1>1, <1>2, <1>6, Zenon
<1>9. CopyRows(Upscaled(n, m2), row, rows).to = "call"
  BY <1>4, <1>7, CopySame
<1> QED
  BY <1>8, <1>9

(* The operators with a route of their own, and those of the shape-parameterised one. *)
Operators == {"MUL_MAT", "ARANGE", "REPEAT", "UPSCALE", "PAD", "CONT", "DUP", "CONCAT", "POOL_2D", "IM2COL",
              "CONV_2D"}

Simple(n) == n.op \in SimpleUnary \/ n.sub \in SimpleSubops

(* Only a UNARY node names an operator in its parameters. *)
LEMMA SubOfUnary ==
  ASSUME NEW n \in NodeType, n.op # "UNARY"
  PROVE  n.sub \notin SimpleSubops /\ n.sub \notin UNARY_PYSPIKE_KERNELS
BY DEF NodeType, SimpleSubops, UNARY_PYSPIKE_KERNELS

(* The route of an operator. *)
LEMMA RouteArms ==
  ASSUME NEW n \in NodeType, NEW m
  PROVE  /\ n.op = "MUL_MAT" => TryPyspike(n, m) = MulMatRoute(n, m)
         /\ n.op = "ARANGE" => TryPyspike(n, m) = ArangeRoute(n)
         /\ n.op = "REPEAT" => TryPyspike(n, m) = RepeatRoute(n, m)
         /\ n.op = "UPSCALE" => TryPyspike(n, m) = UpscaleRoute(n, m)
         /\ n.op = "PAD" => TryPyspike(n, m) = PadRoute(n, m)
         /\ n.op \in {"CONT", "DUP"} => TryPyspike(n, m) = ContRoute(n, m)
         /\ n.op = "CONCAT" => TryPyspike(n, m) = ConcatRoute(n, m)
         /\ n.op = "POOL_2D" => TryPyspike(n, m) = PoolRoute(n, m)
         /\ n.op = "IM2COL" => TryPyspike(n, m) = Im2ColRoute(n, m)
         /\ n.op = "CONV_2D" => TryPyspike(n, m) = ConvRoute(n, m)
         /\ n.op \notin Operators =>
              /\ Simple(n) => TryPyspike(n, m) = SimpleRoute(n, m)
              /\ ~Simple(n) /\ n.sub \in UNARY_PYSPIKE_KERNELS =>
                   n.op = "UNARY" /\ TryPyspike(n, m) = UnaryRoute(n, m, n.sub)
              /\ n.op = "SQRT" => TryPyspike(n, m) = UnaryRoute(n, m, n.op)
              /\ n.op \in BinaryOps => TryPyspike(n, m) = BinaryRoute(n, m)
              /\ ~Simple(n) /\ n.sub \notin UNARY_PYSPIKE_KERNELS /\ n.op # "SQRT" /\ n.op \notin BinaryOps =>
                   TryPyspike(n, m) = Miss
<1>1. n.op # "UNARY" => n.sub \notin SimpleSubops /\ n.sub \notin UNARY_PYSPIKE_KERNELS
  BY SubOfUnary
<1> DEFINE mm == MulMatRoute(n, m)
           ar == ArangeRoute(n)
           re == RepeatRoute(n, m)
           up == UpscaleRoute(n, m)
           pa == PadRoute(n, m)
           co == ContRoute(n, m)
           cc == ConcatRoute(n, m)
           po == PoolRoute(n, m)
           im == Im2ColRoute(n, m)
           cv == ConvRoute(n, m)
           si == SimpleRoute(n, m)
           un == UnaryRoute(n, m, n.sub)
           sq == UnaryRoute(n, m, n.op)
           bi == BinaryRoute(n, m)
           r == TryPyspike(n, m)
<1>2. r = CASE n.op = "MUL_MAT" -> mm
            [] n.op = "ARANGE" -> ar
            [] n.op = "REPEAT" -> re
            [] n.op = "UPSCALE" -> up
            [] n.op = "PAD" -> pa
            [] n.op \in {"CONT", "DUP"} -> co
            [] n.op = "CONCAT" -> cc
            [] n.op = "POOL_2D" -> po
            [] n.op = "IM2COL" -> im
            [] n.op = "CONV_2D" -> cv
            [] n.op \in SimpleUnary \/ n.sub \in SimpleSubops -> si
            [] n.sub \in UNARY_PYSPIKE_KERNELS -> un
            [] n.op = "SQRT" -> sq
            [] n.op \in BinaryOps -> bi
            [] OTHER -> Miss
  BY Zenon DEF TryPyspike
<1> HIDE DEF mm, ar, re, up, pa, co, cc, po, im, cv, si, un, sq, bi, r
<1>3. /\ n.op = "MUL_MAT" => r = mm
      /\ n.op = "ARANGE" => r = ar
      /\ n.op = "REPEAT" => r = re
      /\ n.op = "UPSCALE" => r = up
      /\ n.op = "PAD" => r = pa
      /\ n.op \in {"CONT", "DUP"} => r = co
      /\ n.op = "CONCAT" => r = cc
      /\ n.op = "POOL_2D" => r = po
      /\ n.op = "IM2COL" => r = im
      /\ n.op = "CONV_2D" => r = cv
  BY <1>1, <1>2 DEF SimpleUnary, BinaryOps
<1>4. n.op \notin Operators =>
              /\ Simple(n) => r = si
              /\ ~Simple(n) /\ n.sub \in UNARY_PYSPIKE_KERNELS => n.op = "UNARY" /\ r = un
              /\ n.op = "SQRT" => r = sq
              /\ n.op \in BinaryOps => r = bi
              /\ ~Simple(n) /\ n.sub \notin UNARY_PYSPIKE_KERNELS /\ n.op # "SQRT" /\ n.op \notin BinaryOps =>
                   r = Miss
  BY <1>1, <1>2 DEF Operators, Simple, SimpleUnary, SimpleSubops, UNARY_PYSPIKE_KERNELS, BinaryOps
<1> QED
  BY <1>3, <1>4 DEF mm, ar, re, up, pa, co, cc, po, im, cv, si, un, sq, bi, r

(* Whether a node reaches the firmware does not depend on the memory: the guards read
   types, shapes, strides and parameters. *)
LEMMA SameRoute ==
  ASSUME NEW n \in NodeType, NEW m, NEW m2, TryPyspike(n, m).to = "call"
  PROVE  TryPyspike(n, m2).to = "call"
<1>1. CASE n.op \in Operators
  <2>1. CASE n.op = "MUL_MAT"
    <3>1. TryPyspike(n, m) = MulMatRoute(n, m) /\ TryPyspike(n, m2) = MulMatRoute(n, m2)
      BY <2>1, RouteArms
    <3> QED
      BY <3>1, MulMatSame
  <2>2. CASE n.op = "ARANGE"
    <3>1. TryPyspike(n, m) = ArangeRoute(n) /\ TryPyspike(n, m2) = ArangeRoute(n)
      BY <2>2, RouteArms
    <3> QED
      BY <3>1
  <2>3. CASE n.op = "REPEAT"
    <3>1. TryPyspike(n, m) = RepeatRoute(n, m) /\ TryPyspike(n, m2) = RepeatRoute(n, m2)
      BY <2>3, RouteArms
    <3> QED
      BY <3>1, RepeatSame
  <2>4. CASE n.op = "UPSCALE"
    <3>1. TryPyspike(n, m) = UpscaleRoute(n, m) /\ TryPyspike(n, m2) = UpscaleRoute(n, m2)
      BY <2>4, RouteArms
    <3> QED
      BY <3>1, UpscaleSame
  <2>5. CASE n.op = "PAD"
    <3>1. TryPyspike(n, m) = PadRoute(n, m) /\ TryPyspike(n, m2) = PadRoute(n, m2)
      BY <2>5, RouteArms
    <3> QED
      BY <3>1, PadSame
  <2>6. CASE n.op \in {"CONT", "DUP"}
    <3>1. TryPyspike(n, m) = ContRoute(n, m) /\ TryPyspike(n, m2) = ContRoute(n, m2)
      BY <2>6, RouteArms
    <3> QED
      BY <3>1, ContSame
  <2>7. CASE n.op = "CONCAT"
    <3>1. TryPyspike(n, m) = ConcatRoute(n, m) /\ TryPyspike(n, m2) = ConcatRoute(n, m2)
      BY <2>7, RouteArms
    <3> QED
      BY <3>1, ConcatSame
  <2>8. CASE n.op = "POOL_2D"
    <3>1. TryPyspike(n, m) = PoolRoute(n, m) /\ TryPyspike(n, m2) = PoolRoute(n, m2)
      BY <2>8, RouteArms
    <3> QED
      BY <3>1, PoolSame
  <2>9. CASE n.op = "IM2COL"
    <3>1. TryPyspike(n, m) = Im2ColRoute(n, m) /\ TryPyspike(n, m2) = Im2ColRoute(n, m2)
      BY <2>9, RouteArms
    <3> QED
      BY <3>1, Im2ColSame
  <2>10. CASE n.op = "CONV_2D"
    <3>1. TryPyspike(n, m) = ConvRoute(n, m) /\ TryPyspike(n, m2) = ConvRoute(n, m2)
      BY <2>10, RouteArms
    <3> QED
      BY <3>1, ConvSame
  <2> QED
    BY <1>1, <2>1, <2>2, <2>3, <2>4, <2>5, <2>6, <2>7, <2>8, <2>9, <2>10 DEF Operators
<1>2. CASE n.op \notin Operators
  <2>1. \/ Simple(n) \/ (~Simple(n) /\ n.sub \in UNARY_PYSPIKE_KERNELS) \/ n.op = "SQRT" \/ n.op \in BinaryOps
    <3>1. ~Simple(n) /\ n.sub \notin UNARY_PYSPIKE_KERNELS /\ n.op # "SQRT" /\ n.op \notin BinaryOps
            => TryPyspike(n, m) = Miss
      BY <1>2, RouteArms
    <3>2. TryPyspike(n, m) # Miss
      BY Guarded
    <3> QED
      BY <3>1, <3>2
  <2>2. CASE Simple(n)
    <3>1. TryPyspike(n, m) = SimpleRoute(n, m) /\ TryPyspike(n, m2) = SimpleRoute(n, m2)
      BY <1>2, <2>2, RouteArms
    <3> QED
      BY <3>1, SimpleSame
  <2>3. CASE ~Simple(n) /\ n.sub \in UNARY_PYSPIKE_KERNELS
    <3>1. TryPyspike(n, m) = UnaryRoute(n, m, n.sub) /\ TryPyspike(n, m2) = UnaryRoute(n, m2, n.sub)
      BY <1>2, <2>3, RouteArms
    <3> QED
      BY <3>1, UnarySame
  <2>4. CASE n.op = "SQRT"
    <3>1. TryPyspike(n, m) = UnaryRoute(n, m, n.op) /\ TryPyspike(n, m2) = UnaryRoute(n, m2, n.op)
      BY <1>2, <2>4, RouteArms
    <3> QED
      BY <3>1, UnarySame
  <2>5. CASE n.op \in BinaryOps
    <3>1. TryPyspike(n, m) = BinaryRoute(n, m) /\ TryPyspike(n, m2) = BinaryRoute(n, m2)
      BY <1>2, <2>5, RouteArms
    <3> QED
      BY <3>1, BinarySame
  <2> QED
    BY <2>1, <2>2, <2>3, <2>4, <2>5
<1> QED
  BY <1>1, <1>2

-----------------------------------------------------------------------------
(* The result of a route, from the answers of its calls. *)

(* What the finished calls of a route returned, where their dumps have a length. *)
Answer(o, c) == c.dump \in Nat => IsSeq(o) /\ Len(o) = c.dump

Answered(o, cs) == IsSeq(o) /\ Len(o) = Len(cs) /\ \A i \in 1..Len(o) : Answer(o[i], cs[i])

(* The result of the route stays inside the destination. *)
Room(n) == Len(RouteResult(n)) \in Nat /\ Len(RouteResult(n)) <= Span(n.dst)

(* The operators whose result is not the encoded dumps one after the other. *)
Other == {"MUL_MAT", "SUM", "CONT", "DUP"}

(* The bytes that a route writes, by operator. *)
LEMMA ResultArms ==
  ASSUME NEW n
  PROVE  /\ n.op = "MUL_MAT" => RouteResult(n) = Encode(n.dst.type, Spliced(n))
         /\ n.op = "SUM" => RouteResult(n) = SubSeq(outs[1], 1, 1)
         /\ n.op \in {"CONT", "DUP"} => RouteResult(n) = outs[1]
         /\ n.op \notin Other => RouteResult(n) = Encode(n.dst.type, FlattenSeq(outs))
<1> DEFINE u == Encode(n.dst.type, Spliced(n))
           v == SubSeq(outs[1], 1, 1)
           w == Encode(n.dst.type, FlattenSeq(outs))
           r == RouteResult(n)
<1>1. r = CASE n.op = "MUL_MAT" -> u
            [] n.op = "SUM" -> v
            [] n.op \in {"CONT", "DUP"} -> outs[1]
            [] OTHER -> w
  BY Zenon DEF RouteResult
<1> HIDE DEF u, v, w, r
<1>2. /\ n.op = "MUL_MAT" => r = u
      /\ n.op = "SUM" => r = v
      /\ n.op \in {"CONT", "DUP"} => r = outs[1]
      /\ n.op \notin Other => r = w
  BY <1>1 DEF Other
<1> QED
  BY <1>2 DEF u, v, w, r

LEMMA Scaled ==
  ASSUME NEW w \in {1, 2}, NEW k \in Nat, NEW e \in Nat, NEW s \in Nat, k <= e, w * e <= s
  PROVE  w * k \in Nat /\ w * k <= s
OBVIOUS

(* A result that is encoded and is no longer than the destination. *)
LEMMA EncodedRoom ==
  ASSUME NEW n \in NodeType, NEW k \in Nat, NEW v, v = [i \in 1..k |-> v[i]],
         RouteResult(n) = Encode(n.dst.type, v), k <= Elems(n.dst.ne),
         Width(n.dst.type) * Elems(n.dst.ne) <= Span(n.dst)
  PROVE  Room(n)
<1>1. Len(RouteResult(n)) = Width(n.dst.type) * k
  BY EncodeLen
<1>2. n.dst \in TensorType
  BY SourceOf
<1>3. Width(n.dst.type) \in {1, 2} /\ Elems(n.dst.ne) \in Nat /\ Span(n.dst) \in Nat
  BY <1>2, WidthNat, ElemsOfTensor, SpanFacts
<1> DEFINE w == Width(n.dst.type)
           e == Elems(n.dst.ne)
           s == Span(n.dst)
<1>4. w \in {1, 2} /\ e \in Nat /\ s \in Nat /\ k <= e /\ w * e <= s
  BY <1>3
<1> HIDE DEF w, e, s
<1>5. w * k \in Nat /\ w * k <= s
  BY <1>4, Scaled
<1> QED
  BY <1>1, <1>5 DEF Room, w, s

(* The results of a route one after the other. *)
LEMMA JoinedRoom ==
  ASSUME NEW n \in NodeType, n.op \notin Other, NEW cs, Answered(outs, cs), NEW l \in Nat, l = Len(cs),
         NEW off \in [0..l -> Nat], off[0] = 0,
         \A k \in 1..l : cs[k].dump \in Nat /\ off[k] = off[k - 1] + cs[k].dump,
         off[l] <= Elems(n.dst.ne), Width(n.dst.type) * Elems(n.dst.ne) <= Span(n.dst)
  PROVE  Room(n)
<1>1. IsSeq(outs) /\ Len(outs) = l /\ DOMAIN outs = 1..l
  BY SeqHasLen DEF Answered
<1>2. \A k \in 1..l : IsSeq(outs[k]) /\ Len(outs[k]) = cs[k].dump
  BY <1>1 DEF Answered, Answer
<1>3. Offsets(off, outs, Len(outs))
  BY <1>1, <1>2 DEF Offsets
<1> DEFINE v == FlattenSeq(outs)
<1>4. IsSeq(v) /\ Len(v) = off[l]
  <2>1. \A i \in DOMAIN outs : IsSeq(outs[i])
    BY <1>1, <1>2
  <2> QED
    BY <1>1, <1>3, <2>1, FlattenLen
<1> DEFINE k == off[l]
<1>5. k \in Nat
  OBVIOUS
<1>6. v = [i \in 1..k |-> v[i]]
  <2> HIDE DEF v, k
  <2> QED
    BY <1>4, SeqHasLen DEF k
<1>7. RouteResult(n) = Encode(n.dst.type, v)
  BY ResultArms
<1>8. k <= Elems(n.dst.ne)
  OBVIOUS
<1> HIDE DEF v, k
<1> QED
  BY <1>5, <1>6, <1>7, <1>8, EncodedRoom

(* One call, encoded; a copy, as it is; a sum, trimmed to its first halfword. *)
LEMMA OneAnswer ==
  ASSUME NEW n \in NodeType, n.op \notin Other, NEW c, Answered(outs, <<c>>),
         c.dump \in Nat, c.dump <= Elems(n.dst.ne), Width(n.dst.type) * Elems(n.dst.ne) <= Span(n.dst)
  PROVE  Room(n)
<1> DEFINE off == [k \in 0..1 |-> IF k = 0 THEN 0 ELSE c.dump]
           cs == <<c>>
<1>1. off \in [0..1 -> Nat] /\ off[0] = 0 /\ off[1] = c.dump
  OBVIOUS
<1>2. 1 = Len(cs) /\ cs[1] = c /\ Answered(outs, cs)
  OBVIOUS
<1> HIDE DEF off, cs
<1>3. \A k \in 1..1 : cs[k].dump \in Nat /\ off[k] = off[k - 1] + cs[k].dump
  BY <1>1, <1>2
<1>4. off[1] <= Elems(n.dst.ne) /\ 1 \in Nat
  BY <1>1
<1> QED
  BY <1>1, <1>2, <1>3, <1>4, JoinedRoom

LEMMA CopyAnswer ==
  ASSUME NEW n \in NodeType, n.op \in {"CONT", "DUP"}, NEW c, Answered(outs, <<c>>),
         c.dump \in Nat, c.dump <= Span(n.dst)
  PROVE  Room(n)
<1> DEFINE cs == <<c>>
<1>1. Len(cs) = 1 /\ cs[1] = c /\ Answered(outs, cs)
  OBVIOUS
<1> HIDE DEF cs
<1>2. Len(outs[1]) = c.dump
  BY <1>1 DEF Answered, Answer
<1> QED
  BY <1>2, ResultArms DEF Room

LEMMA SumAnswer ==
  ASSUME NEW n \in NodeType, n.op = "SUM", NEW c, Answered(outs, <<c>>), c.dump = Bus,
         Elems(n.dst.ne) = 1, Width(n.dst.type) * Elems(n.dst.ne) <= Span(n.dst)
  PROVE  Room(n)
<1> DEFINE cs == <<c>>
<1>1. Len(cs) = 1 /\ cs[1] = c /\ Answered(outs, cs)
  OBVIOUS
<1> HIDE DEF cs
<1>2. Bus \in Nat \ {0}
  BY FirmwareAssumption
<1>3. IsSeq(outs[1]) /\ Len(outs[1]) = Bus
  BY <1>1, <1>2 DEF Answered, Answer
<1>4. Len(SubSeq(outs[1], 1, 1)) = 1
  <2> DEFINE o == outs[1]
             S == {o[i] : i \in DOMAIN o}
  <2>1. o \in Seq(S) /\ Len(o) >= 1
    BY <1>2, <1>3 DEF IsSeq
  <2> HIDE DEF o, S
  <2>2. Len(SubSeq(o, 1, 1)) = 1
    BY <2>1
  <2> QED
    BY <2>2 DEF o
<1>5. Span(n.dst) >= 1
  <2>1. n.dst \in TensorType
    BY SourceOf
  <2>2. Width(n.dst.type) \in {1, 2} /\ Span(n.dst) \in Nat
    BY <2>1, WidthNat, SpanFacts
  <2> QED
    BY <2>2
<1>6. RouteResult(n) = SubSeq(outs[1], 1, 1)
  BY ResultArms
<1>7. Span(n.dst) \in Nat
  BY SourceOf, SpanFacts
<1>8. 1 \in Nat /\ 1 <= Span(n.dst)
  BY <1>5, <1>7
<1> QED
  BY <1>4, <1>6, <1>8, Zenon DEF Room

(* The calls of a route that answer fully leave a result that fits. *)
Fit(n, cs) == IsSeq(cs) /\ (Answered(outs, cs) => Room(n))

LEMMA SingleIsSeq == ASSUME NEW c PROVE IsSeq(<<c>>)
<1> DEFINE s == <<c>>
<1>1. s = [i \in 1..1 |-> s[i]] /\ 1 \in Nat
  OBVIOUS
<1> HIDE DEF s
<1>2. IsSeq(s)
  BY <1>1, VectorIsSeq
<1> QED
  BY <1>2 DEF s

(* One call that asks for no more than the destination holds. *)
LEMMA OneFit ==
  ASSUME NEW n \in NodeType, n.op \notin Other, NEW c, c.dump \in Nat, c.dump <= Elems(n.dst.ne),
         Width(n.dst.type) * Elems(n.dst.ne) <= Span(n.dst)
  PROVE  Fit(n, <<c>>)
BY SingleIsSeq, OneAnswer DEF Fit

(* One call that asks for all that the destination holds. *)
LEMMA ExactFit ==
  ASSUME NEW n \in NodeType, n.op \notin Other, NEW c, c.dump = Elems(n.dst.ne),
         Width(n.dst.type) * Elems(n.dst.ne) <= Span(n.dst)
  PROVE  Fit(n, <<c>>)
<1>1. n.dst \in TensorType
  BY SourceOf
<1>2. Elems(n.dst.ne) \in Nat
  BY <1>1, ElemsOfTensor
<1>3. c.dump \in Nat /\ c.dump <= Elems(n.dst.ne)
  BY <1>2
<1> QED
  BY <1>3, OneFit

-----------------------------------------------------------------------------
(* Every route fits. *)

(* All sources are dense. *)
AllDense(n) == \A i \in DOMAIN n.src : Dense(n.src[i])

(* A dense source is read in full. *)
LEMMA DenseSource ==
  ASSUME NEW n \in NodeType, AllDense(n), NEW k \in 1..2, Len(n.src) >= k
  PROVE  n.src[k] \in TensorType /\ Dense(n.src[k])
<1> DEFINE s == n.src
<1>1. s \in Seq(TensorType)
  BY DEF NodeType
<1>2. \A i \in DOMAIN s : Dense(s[i])
  BY DEF AllDense
<1>3. Len(s) >= k
  OBVIOUS
<1> HIDE DEF s
<1>4. k \in DOMAIN s /\ s[k] \in TensorType
  BY <1>1, <1>3
<1> QED
  BY <1>2, <1>4 DEF s

LEMMA DenseFlat ==
  ASSUME NEW t \in TensorType, Dense(t), NEW m
  PROVE  Len(Flat(t, m)) = Elems(t.ne) /\ Elems(t.ne) \in Nat /\ Elems(t.ne) > 0
BY FlatRead, DenseSpan, ElemsOfTensor

(* What the shape-parameterised calls ask for. *)
LEMMA SimpleDump ==
  ASSUME NEW n \in NodeType, n.op \notin Operators, Simple(n), NEW w, NEW h, NEW data
  PROVE  /\ n.op \in {"SUM_ROWS", "MEAN"} => SimpleCallOf(n, w, h, data).dump = h
         /\ n.op = "SUM" => SimpleCallOf(n, w, h, data).dump = Bus
         /\ n.op \notin {"SUM_ROWS", "MEAN", "SUM"} =>
              SimpleCallOf(n, w, h, data).dump = Len(data) /\ n.op \in SameSize
<1> DEFINE p == n.p
           l == Len(data)
           c1 == SimpleCall("unary_sqr", "SQR", <<w, h>>, data, <<>>, l)
           c2 == SimpleCall("unary_ceil", "CEIL", <<w, h>>, data, <<>>, l)
           c3 == SimpleCall("unary_expm1", "EXPM1", <<w, h>>, data, <<>>, l)
           c4 == SimpleCall("unary_sum_rows", "", <<w, h>>, data, <<>>, h)
           c5 == SimpleCall("unary_norm", "", <<w, h, p[1]>>, data, <<>>, l)
           c6 == SimpleCall("unary_group_norm", "", <<w, h, p[2]>>, data, <<>>, l)
           c7 == SimpleCall("unary_scale", "", <<w, h>>, data, <<p[1]>>, l)
           c8 == SimpleCall("unary_clamp", "", <<w, h>>, data, <<p[1], p[2]>>, l)
           c9 == SimpleCall("unary_mean", "", <<w, h, Inv(w)>>, data, <<>>, h)
           c10 == SimpleCall("unary_sum", "", <<w, h>>, data, <<>>, Bus)
           c11 == SimpleCall("unary_tri", "", <<w, h, p[1]>>, data, <<>>, l)
           r == SimpleCallOf(n, w, h, data)
<1>1. /\ c1.dump = l /\ c2.dump = l /\ c3.dump = l /\ c4.dump = h /\ c5.dump = l /\ c6.dump = l
      /\ c7.dump = l /\ c8.dump = l /\ c9.dump = h /\ c10.dump = Bus /\ c11.dump = l
  <2>1. c1.dump = l
    BY DEF SimpleCall, Call
  <2>2. c2.dump = l
    BY DEF SimpleCall, Call
  <2>3. c3.dump = l
    BY DEF SimpleCall, Call
  <2>4. c4.dump = h
    BY DEF SimpleCall, Call
  <2>5. c5.dump = l
    BY DEF SimpleCall, Call
  <2>6. c6.dump = l
    BY DEF SimpleCall, Call
  <2>7. c7.dump = l
    BY DEF SimpleCall, Call
  <2>8. c8.dump = l
    BY DEF SimpleCall, Call
  <2>9. c9.dump = h
    BY DEF SimpleCall, Call
  <2>10. c10.dump = Bus
    BY DEF SimpleCall, Call
  <2>11. c11.dump = l
    BY DEF SimpleCall, Call
  <2> QED
    BY <2>1, <2>2, <2>3, <2>4, <2>5, <2>6, <2>7, <2>8, <2>9, <2>10, <2>11
<1>2. r = CASE n.op = "SQR" -> c1
            [] n.sub = "CEIL" -> c2
            [] n.sub = "EXPM1" -> c3
            [] n.op = "SUM_ROWS" -> c4
            [] n.op = "NORM" -> c5
            [] n.op = "GROUP_NORM" -> c6
            [] n.op = "SCALE" -> c7
            [] n.op = "CLAMP" -> c8
            [] n.op = "MEAN" -> c9
            [] n.op = "SUM" -> c10
            [] n.op = "TRI" -> c11
  BY Zenon DEF SimpleCallOf
<1>3. n.op # "UNARY" => n.sub # "CEIL" /\ n.sub # "EXPM1"
  BY SubOfUnary DEF SimpleSubops
<1>4. \/ n.op \in SimpleUnary
      \/ n.op = "UNARY" /\ n.sub \in {"CEIL", "EXPM1"}
  BY <1>3 DEF Simple, SimpleSubops
<1> HIDE DEF c1, c2, c3, c4, c5, c6, c7, c8, c9, c10, c11, r, l
<1>5. /\ n.op \in {"SUM_ROWS", "MEAN"} => r.dump = h
      /\ n.op = "SUM" => r.dump = Bus
      /\ n.op \notin {"SUM_ROWS", "MEAN", "SUM"} => r.dump = l
  BY <1>1, <1>2, <1>3, <1>4 DEF SimpleUnary
<1>6. n.op \notin {"SUM_ROWS", "MEAN", "SUM"} => n.op \in SameSize
  BY <1>4 DEF SameSize, SimpleUnary
<1> QED
  BY <1>5, <1>6 DEF r, l

(* The rows of a matrix. *)
LEMMA OutOfRow ==
  ASSUME NEW a \in Nat, NEW b \in Nat, NEW c \in Nat, NEW d \in Nat, a > 0
  PROVE  (a * b * c * d) \div a = b * c * d /\ b * c * d \in Nat
<1>1. b * c \in Nat
  OBVIOUS
<1> DEFINE u == b * c
<1>2. u * d \in Nat
  <2>1. u \in Nat
    BY <1>1
  <2> HIDE DEF u
  <2> QED
    BY <2>1
<1> DEFINE v == u * d
<1>3. a * b * c * d = a * v
  <2>1. a * b * c = a * u
    OBVIOUS
  <2>2. a * b * c * d = (a * u) * d
    BY <2>1
  <2>3. u \in Nat
    BY <1>1
  <2> HIDE DEF u
  <2>4. (a * u) * d = a * (u * d)
    BY <2>3
  <2> QED
    BY <2>2, <2>4
<1>4. v \in Nat
  BY <1>2
<1> HIDE DEF v
<1>5. (a * v) \div a = v
  BY <1>4
<1> QED
  BY <1>3, <1>4, <1>5 DEF v, u

(* The routes, one by one: a shape-parameterised one. *)
LEMMA SimpleFit ==
  ASSUME NEW n \in NodeType, NEW m, NEW m0, Expected(n, m0).is = "ok", AllDense(n),
         n.op \notin Operators, Simple(n), SimpleRoute(n, m).to = "call"
  PROVE  Fit(n, SimpleRoute(n, m).calls)
<1> DEFINE data == Flat(n.src[1], m)
           w == n.src[1].ne[1]
           h == Len(data) \div w
           c == SimpleCallOf(n, w, h, data)
           g == n.dst.type = "F16" /\ Sources(n, 1, F16) /\ Positive(n.src[1])
                /\ Len(data) % w = 0 /\ SimpleGuard(n, h)
<1>1. (SimpleRoute(n, m).to = "call" <=> g) /\ SimpleRoute(n, m).calls = <<c>>
  BY Guarded, Zenon DEF SimpleRoute, OneCall
<1>2. Len(n.src) >= 1 /\ Positive(n.src[1])
  BY <1>1 DEF Sources
<1>3. n.src[1] \in TensorType /\ Dense(n.src[1])
  BY <1>2, DenseSource
<1>4. Len(data) = Elems(n.src[1].ne) /\ Len(data) \in Nat
  BY <1>3, DenseFlat
<1> HIDE DEF data, g
<1>5. CASE n.op = "SUM"
  <2>1. c.dump = Bus
    BY <1>5, SimpleDump
  <2>2. Elems(n.dst.ne) = 1 /\ Width(n.dst.type) * Elems(n.dst.ne) <= Span(n.dst)
    BY <1>2, <1>5, RowsReach
  <2> HIDE DEF c
  <2> QED
    BY <1>1, <1>5, <2>1, <2>2, SumAnswer, SingleIsSeq DEF Fit
<1>6. CASE n.op \in {"SUM_ROWS", "MEAN"}
  <2> DEFINE x == n.src[1].ne[2]
             y == n.src[1].ne[3]
             z == n.src[1].ne[4]
  <2>1. w \in Nat /\ x \in Nat /\ y \in Nat /\ z \in Nat /\ w > 0
    BY <1>2, <1>3, TensorDims DEF Positive
  <2>2. Elems(n.src[1].ne) = w * x * y * z
    BY <1>3, ElemsOfTensor
  <2>3. Elems(n.dst.ne) = x * y * z /\ Width(n.dst.type) * Elems(n.dst.ne) <= Span(n.dst)
    BY <1>2, <1>6, RowsReach
  <2>4. c.dump = h
    BY <1>6, SimpleDump
  <2> HIDE DEF w, x, y, z, c
  <2>5. h = x * y * z /\ h \in Nat
    BY <1>4, <2>1, <2>2, OutOfRow
  <2> HIDE DEF h
  <2>6. c.dump \in Nat /\ c.dump <= Elems(n.dst.ne)
    BY <2>3, <2>4, <2>5
  <2>7. n.op \notin Other
    BY <1>6 DEF Other
  <2> QED
    BY <1>1, <2>3, <2>6, <2>7, OneFit
<1>7. CASE n.op \notin {"SUM_ROWS", "MEAN", "SUM"}
  <2>1. c.dump = Len(data) /\ n.op \in SameSize
    BY <1>7, SimpleDump
  <2>2. Elems(n.dst.ne) = Elems(n.src[1].ne) /\ Width(n.dst.type) * Elems(n.dst.ne) <= Span(n.dst)
    BY <1>2, <2>1, SameSizeReach
  <2> HIDE DEF c
  <2>3. c.dump \in Nat /\ c.dump <= Elems(n.dst.ne)
    BY <1>4, <2>1, <2>2
  <2>4. n.op \notin Other
    BY <2>1 DEF Other, SameSize
  <2> QED
    BY <1>1, <2>2, <2>3, <2>4, OneFit
<1> QED
  BY <1>5, <1>6, <1>7

LEMMA PadFit ==
  ASSUME NEW n \in NodeType, NEW m, NEW m0, Expected(n, m0).is = "ok", n.op = "PAD",
         PadRoute(n, m).to = "call"
  PROVE  Fit(n, PadRoute(n, m).calls)
<1> DEFINE s == n.src[1]
           data == Flat(s, m)
           k == (s.ne[2] + n.p[2]) * (s.ne[1] + n.p[1])
           c == SimpleCall("unary_pad", "", <<s.ne[2], s.ne[1], n.p[1], n.p[2]>>, data, <<>>, k)
           g == /\ n.dst.type = "F16" /\ Sources(n, 1, F16) /\ Positive(s)
                /\ n.p[3] = 0 /\ n.p[4] = 0 /\ Flat2D(s) /\ n.p[1] >= 0 /\ n.p[2] >= 0
                /\ Len(data) = s.ne[2] * s.ne[1]
<1>1. (PadRoute(n, m).to = "call" <=> g) /\ PadRoute(n, m).calls = <<c>>
  BY Guarded, Zenon DEF PadRoute, OneCall
<1>2. Len(n.src) >= 1 /\ n.p[3] = 0 /\ n.p[4] = 0 /\ Flat2D(n.src[1])
  BY <1>1 DEF Sources
<1>3. Width(n.dst.type) * Elems(n.dst.ne) <= Span(n.dst) /\ Elems(n.dst.ne) = k
  BY <1>2, PadReach
<1>4. c.dump = k
  BY DEF SimpleCall, Call
<1> HIDE DEF c, k
<1> QED
  BY <1>1, <1>3, <1>4, ExactFit DEF Other

LEMMA PoolFit ==
  ASSUME NEW n \in NodeType, NEW m, NEW m0, Expected(n, m0).is = "ok", n.op = "POOL_2D",
         PoolRoute(n, m).to = "call"
  PROVE  Fit(n, PoolRoute(n, m).calls)
<1> DEFINE s == n.src[1]
           p == n.p
           data == Flat(s, m)
           tpl == PoolTpl(p[1])
           Outs(i) == ((s.ne[i] - p[i + 1]) \div p[i + 3]) + 1
           k == Outs(1) * Outs(2)
           text == PoolText(tpl, s.ne[2], s.ne[1], p[3], p[2], p[5], p[4])
           key == Key(<<tpl, "">>, <<s.ne[2], s.ne[1], p[3], p[2], p[5], p[4]>>)
           c == Call(text, key, data, <<>>, k)
           g == /\ n.dst.type = "F16" /\ Sources(n, 1, F16) /\ Positive(s)
                /\ p[1] \in {0, 1} /\ p[6] = 0 /\ p[7] = 0 /\ Flat2D(s)
                /\ Len(data) = s.ne[1] * s.ne[2]
                /\ \A i \in 2..5 : p[i] > 0
                /\ Outs(1) > 0 /\ Outs(2) > 0
<1>1. (PoolRoute(n, m).to = "call" <=> g) /\ PoolRoute(n, m).calls = <<c>>
  BY Guarded, Zenon DEF PoolRoute, OneCall
<1>2. Len(n.src) >= 1 /\ p[6] = 0 /\ p[7] = 0 /\ Flat2D(s) /\ \A i \in 2..5 : p[i] > 0
  BY <1>1 DEF Sources
<1>3. /\ Width(n.dst.type) * Elems(n.dst.ne) <= Span(n.dst)
      /\ Elems(n.dst.ne) = (((s.ne[1] - p[2]) \div p[4]) + 1) * (((s.ne[2] - p[3]) \div p[5]) + 1)
  BY <1>2, PoolReach
<1>4. Outs(1) = ((s.ne[1] - p[2]) \div p[4]) + 1 /\ Outs(2) = ((s.ne[2] - p[3]) \div p[5]) + 1
  <2>1. 1 + 1 = 2 /\ 1 + 3 = 4 /\ 2 + 1 = 3 /\ 2 + 3 = 5
    OBVIOUS
  <2> QED
    BY <2>1, Zenon
<1>5. c.dump = k
  BY DEF Call
<1> HIDE DEF c, Outs
<1>6. c.dump = Elems(n.dst.ne)
  BY <1>3, <1>4, <1>5, Zenon
<1> QED
  BY <1>1, <1>3, <1>6, ExactFit DEF Other

LEMMA RepeatFit ==
  ASSUME NEW n \in NodeType, NEW m, NEW m0, Expected(n, m0).is = "ok", n.op = "REPEAT",
         RepeatRoute(n, m).to = "call"
  PROVE  Fit(n, RepeatRoute(n, m).calls)
<1> DEFINE s == n.src[1].ne
           d == n.dst.ne
           data == [i \in 1..Elems(s) |-> m[n.src[1].data + i - 1]]
           c == SimpleCall("unary_repeat", "", s \o d, data, <<>>, Elems(d))
<1>1. RepeatRoute(n, m).calls = <<c>>
  BY Guarded, Zenon DEF RepeatRoute, OneCall
<1>2. c.dump = Elems(d)
  BY DEF SimpleCall, Call
<1>3. Width(n.dst.type) * Elems(n.dst.ne) <= Span(n.dst)
  BY FallbackReach DEF Special
<1> HIDE DEF c
<1> QED
  BY <1>1, <1>2, <1>3, ExactFit DEF Other

LEMMA ArangeFit ==
  ASSUME NEW n \in NodeType, NEW m0, Expected(n, m0).is = "ok", n.op = "ARANGE",
         ArangeRoute(n).to = "call"
  PROVE  Fit(n, ArangeRoute(n).calls)
<1> DEFINE len == n.dst.ne[1]
           c == Call(Text("unary_arange", "", <<len \div LaneWidth, LaneWidth>>),
                     Key(<<"unary_arange", "">>, <<len>>), <<>>, <<>>, len)
           g == /\ n.dst.type = "F16" /\ Positive(n.dst) /\ Elems(n.dst.ne) = len
                /\ len % LaneWidth = 0 /\ n.p[1] = 0 /\ n.p[3] = 1
<1>1. (ArangeRoute(n).to = "call" <=> g) /\ ArangeRoute(n).calls = <<c>>
  BY Guarded, Zenon DEF ArangeRoute
<1>2. c.dump = len
  BY DEF Call
<1>3. Elems(n.dst.ne) = len
  BY <1>1
<1>4. Width(n.dst.type) * Elems(n.dst.ne) <= Span(n.dst)
  <2>1. PICK a : Shaped(a) /\ a.ne = n.dst.ne /\ Expected(n, m0) = WriteTensor(n.dst, m0, a)
    BY ExpectedArms
  <2> QED
    BY <2>1, WrittenReach
<1> HIDE DEF c, len
<1> QED
  BY <1>1, <1>2, <1>3, <1>4, ExactFit DEF Other

(* All dimensions but the first. *)
LEMMA RowsOfTensor ==
  ASSUME NEW t \in TensorType
  PROVE  Elems(Tail(t.ne)) = t.ne[2] * t.ne[3] * t.ne[4]
<1> DEFINE x == Tail(t.ne)
<1>1. t.ne \in Seq(Nat) /\ Len(t.ne) = 4
  BY Shapes
<1>2. t.ne[2] \in Nat /\ t.ne[3] \in Nat /\ t.ne[4] \in Nat
  BY TensorDims
<1>3. DOMAIN x = 1..3 /\ x[1] = t.ne[2] /\ x[2] = t.ne[3] /\ x[3] = t.ne[4]
  <2> DEFINE s == t.ne
  <2>1. s \in Seq(Nat) /\ Len(s) = 4
    BY <1>1
  <2> HIDE DEF s
  <2>2. DOMAIN Tail(s) = 1..3 /\ Tail(s)[1] = s[2] /\ Tail(s)[2] = s[3] /\ Tail(s)[3] = s[4]
    <3> DEFINE y == Tail(s)
    <3>4. s # <<>>
      <4>1. Len(<<>>) = 0
        BY EmptySeq
      <4>2. 0 # 4
        OBVIOUS
      <4> QED
        BY <2>1, <4>1, <4>2, Zenon
    <3>1. y \in Seq(Nat) /\ Len(y) = 3
      BY <2>1, <3>4, HeadTailProperties
    <3>5. \A i \in 1..3 : y[i] = s[i + 1]
      BY <2>1, <3>1, <3>4, HeadTailProperties
    <3> HIDE DEF y
    <3>2. y[1] = s[2] /\ y[2] = s[3] /\ y[3] = s[4]
      BY <3>5
    <3>3. DOMAIN y = 1..3
      BY <3>1
    <3> QED
      BY <3>2, <3>3 DEF y
  <2> QED
    BY <2>2 DEF s
<1> DEFINE a == t.ne[2]
           b == t.ne[3]
           c == t.ne[4]
<1>4. a \in Nat /\ b \in Nat /\ c \in Nat /\ x[1] = a /\ x[2] = b /\ x[3] = c
  BY <1>2, <1>3
<1> HIDE DEF x, a, b, c
<1>5. 3 \in 0..4 /\ \A d \in 1..3 : x[d] \in Int
  BY <1>4
<1>6. Elems(x) = Volume(x)
  BY <1>3, <1>5, ElemsVolume
<1>7. Dim(x, 1) = a /\ Dim(x, 2) = b /\ Dim(x, 3) = c /\ Dim(x, 4) = 1
  BY <1>3, <1>4 DEF Dim
<1>8. Elems(x) = a * b * c * 1
  BY <1>6, <1>7, Zenon DEF Volume
<1>9. a * b * c \in Nat
  BY <1>4, NatProducts
<1>10. a * b * c * 1 = a * b * c
  <2> DEFINE u == a * b * c
  <2>1. u \in Nat
    BY <1>9
  <2> HIDE DEF u
  <2>2. u * 1 = u
    BY <2>1
  <2> QED
    BY <2>2 DEF u
<1> QED
  BY <1>8, <1>10 DEF x, a, b, c

LEMMA FourTimes ==
  ASSUME NEW a \in Nat, NEW b \in Nat, NEW c \in Nat, NEW d \in Nat, NEW w \in Nat
  PROVE  /\ (a * w) * (b * c * d) = w * (a * b * c * d)
         /\ a * (b * c * d) = a * b * c * d
         /\ a * b * c * d \in Nat
<1>1. b * c \in Nat /\ a * b \in Nat
  OBVIOUS
<1>2. b * c * d \in Nat /\ a * b * c \in Nat
  <2> DEFINE u == b * c
             v == a * b
  <2>1. u \in Nat /\ v \in Nat
    BY <1>1
  <2> HIDE DEF u, v
  <2>2. u * d \in Nat /\ v * c \in Nat
    BY <2>1
  <2> QED
    BY <2>2 DEF u, v
<1>3. a * (b * c * d) = a * b * c * d
  <2> DEFINE u == b * c
  <2>1. u \in Nat /\ a * b * c = a * u
    BY <1>1
  <2> HIDE DEF u
  <2>2. a * (u * d) = (a * u) * d
    BY <2>1
  <2> QED
    BY <2>1, <2>2, Zenon DEF u
<1> DEFINE y == b * c * d
<1>4. y \in Nat
  BY <1>2
<1>5. (a * w) * y = w * (a * y) /\ a * y \in Nat
  <2> HIDE DEF y
  <2> QED
    BY <1>4
<1> QED
  BY <1>3, <1>5

LEMMA ContFit ==
  ASSUME NEW n \in NodeType, NEW m, n.op \in {"CONT", "DUP"}, ContRoute(n, m).to = "call"
  PROVE  Fit(n, ContRoute(n, m).calls)
<1> DEFINE g == /\ n.dst.type \in Castable /\ Sources(n, 1, {n.dst.type})
                /\ IsContiguous(n.src[1], 4) /\ IsContiguous(n.dst, 4)
                /\ n.src[1].ne = n.dst.ne /\ Positive(n.dst)
           w == Width(n.dst.type)
           row == n.dst.ne[1] * w
           rows == Elems(Tail(n.dst.ne))
           data == Raw(n.src[1], m)
           c == SimpleCall("unary_cont", "", <<row, rows>>, data, <<>>, row * rows)
<1>1. ContRoute(n, m) = IF g THEN CopyRows(data, row, rows) ELSE Miss
  BY Zenon DEF ContRoute
<1>2. g
  BY <1>1, Guarded
<1>3. n.dst \in TensorType /\ Dense(n.dst)
  BY <1>2, SourceOf DEF Dense
<1>4. Span(n.dst) = w * Elems(n.dst.ne)
  BY <1>3, DenseSpan
<1>5. c.dump = row * rows
  BY DEF SimpleCall, Call
<1>6. ContRoute(n, m).calls = <<c>>
  <2> HIDE DEF g, row, rows, data
  <2>1. ContRoute(n, m) = CopyRows(data, row, rows)
    BY <1>1, <1>2, Zenon
  <2> QED
    BY <2>1, CopyCalls, Zenon
<1>7. row * rows = w * Elems(n.dst.ne) /\ w * Elems(n.dst.ne) \in Nat
  <2> DEFINE a == n.dst.ne[1]
             b == n.dst.ne[2]
             x == n.dst.ne[3]
             d == n.dst.ne[4]
  <2>1. a \in Nat /\ b \in Nat /\ x \in Nat /\ d \in Nat /\ w \in Nat
    BY <1>3, TensorDims, WidthNat
  <2>2. rows = b * x * d /\ Elems(n.dst.ne) = a * b * x * d
    BY <1>3, RowsOfTensor, ElemsOfTensor
  <2>3. Elems(n.dst.ne) \in Nat
    BY <1>3, ElemsOfTensor
  <2> HIDE DEF a, b, x, d, w, rows
  <2>4. (a * w) * (b * x * d) = w * (a * b * x * d)
    BY <2>1, FourTimes
  <2>5. row * rows = w * Elems(n.dst.ne)
    BY <2>2, <2>4, Zenon DEF a
  <2> DEFINE e == Elems(n.dst.ne)
  <2>6. w * e \in Nat
    <3>1. e \in Nat
      BY <2>3
    <3> HIDE DEF e
    <3> QED
      BY <2>1, <3>1
  <2> QED
    BY <2>5, <2>6
<1> HIDE DEF c, row, rows, w
<1>8. c.dump \in Nat /\ c.dump <= Span(n.dst)
  BY <1>4, <1>5, <1>7
<1> QED
  BY <1>6, <1>8, CopyAnswer, SingleIsSeq DEF Fit

LEMMA UpscaleFit ==
  ASSUME NEW n \in NodeType, NEW m, NEW m0, Expected(n, m0).is = "ok", n.op = "UPSCALE",
         UpscaleRoute(n, m).to = "call"
  PROVE  Fit(n, UpscaleRoute(n, m).calls)
<1> DEFINE row == n.dst.ne[1]
           rows == n.dst.ne[2] * n.dst.ne[3] * n.dst.ne[4]
           data == Upscaled(n, m)
           short == Len(Flat(n.src[1], m)) # Elems(n.src[1].ne)
           c == SimpleCall("unary_cont", "", <<row, rows>>, data, <<>>, row * rows)
<1>1. UpscaleRoute(n, m) =
        IF UpscaleGuard(n) THEN IF short THEN Crash ELSE CopyRows(data, row, rows) ELSE Miss
  BY UpscaleArms, Zenon
<1>2. UpscaleRoute(n, m) = CopyRows(data, row, rows)
  <2> HIDE DEF row, rows, data, short
  <2> QED
    BY <1>1, Guarded
<1>3. UpscaleRoute(n, m).calls = <<c>>
  <2> HIDE DEF row, rows, data
  <2> QED
    BY <1>2, CopyCalls, Zenon
<1>4. c.dump = row * rows
  BY DEF SimpleCall, Call
<1>5. n.dst \in TensorType
  BY SourceOf
<1>6. row * rows = Elems(n.dst.ne)
  <2> DEFINE b == n.dst.ne[2]
             x == n.dst.ne[3]
             d == n.dst.ne[4]
  <2>1. row \in Nat /\ b \in Nat /\ x \in Nat /\ d \in Nat /\ 1 \in Nat
    BY <1>5, TensorDims
  <2>2. Elems(n.dst.ne) = row * b * x * d
    BY <1>5, ElemsOfTensor
  <2> HIDE DEF row, b, x, d
  <2>3. row * (b * x * d) = row * b * x * d
    BY <2>1, FourTimes
  <2> QED
    BY <2>2, <2>3 DEF b, x, d
<1>7. Width(n.dst.type) * Elems(n.dst.ne) <= Span(n.dst)
  BY FallbackReach DEF Special
<1> HIDE DEF c, row, rows
<1>8. c.dump = Elems(n.dst.ne)
  BY <1>4, <1>6
<1> QED
  BY <1>3, <1>7, <1>8, ExactFit DEF Other

LEMMA ConcatFit ==
  ASSUME NEW n \in NodeType, NEW m, NEW m0, Expected(n, m0).is = "ok", n.op = "CONCAT",
         ConcatRoute(n, m).to = "call"
  PROVE  Fit(n, ConcatRoute(n, m).calls)
<1> DEFINE a == n.src[1]
           b == n.src[2]
           x == Flat(a, m)
           y == Flat(b, m)
           plane == a.ne[1] * a.ne[2]
           g == /\ n.dst.type \in Castable /\ Sources(n, 2, Castable)
                /\ SubSeq(a.ne, 1, 2) = SubSeq(b.ne, 1, 2) /\ Positive(a)
           g1 == Flat2D(a) /\ Flat2D(b) /\ Len(x) = plane /\ Len(y) = plane
           g2 == /\ n.p[1] = 2 /\ a.ne[4] = 1 /\ b.ne[4] = 1 /\ Positive(b)
                 /\ Len(x) = plane * a.ne[3] /\ Len(y) = plane * b.ne[3]
           c1 == SimpleCall("unary_concat", "", SubSeq(a.ne, 1, 2), x, y, 2 * plane)
           c2 == SimpleCall("unary_concat_channel", "", <<1, a.ne[3], b.ne[3], a.ne[2], a.ne[1]>>,
                            x, y, (a.ne[3] + b.ne[3]) * plane)
           r == ConcatRoute(n, m)
<1>1. r = IF ~g THEN Miss ELSE IF n.p[1] = 0 THEN If(g1, <<c1>>) ELSE If(g2, <<c2>>)
  BY Zenon DEF ConcatRoute
<1>0. r.to = "call"
  BY DEF r
<1>2. c1.dump = 2 * plane
  BY DEF SimpleCall, Call
<1>3. c2.dump = (a.ne[3] + b.ne[3]) * plane
  BY DEF SimpleCall, Call
<1> HIDE DEF c1, c2, r
<1>4. g
  <2> HIDE DEF g, g1, g2
  <2> QED
    BY <1>0, <1>1, Guarded, Zenon
<1>5. Len(n.src) >= 2
  BY <1>4 DEF Sources
<1>6. CASE n.p[1] = 0
  <2>1. r = If(g1, <<c1>>)
    BY <1>1, <1>4, <1>6, Zenon
  <2>2. g1 /\ r.calls = <<c1>>
    <3> HIDE DEF g1
    <3> QED
      BY <1>0, <2>1 DEF If, Route, Miss
  <2>3. a.ne[3] = 1 /\ a.ne[4] = 1 /\ b.ne[4] = 1
    BY <2>2 DEF Flat2D
  <2>4. Width(n.dst.type) * Elems(n.dst.ne) <= Span(n.dst) /\ Elems(n.dst.ne) = 2 * plane
    BY <1>4, <1>5, <1>6, <2>3, ConcatReach
  <2> HIDE DEF g1
  <2> QED
    BY <1>2, <2>2, <2>4, ExactFit DEF Other, r
<1>7. CASE n.p[1] # 0
  <2>1. r = If(g2, <<c2>>)
    BY <1>1, <1>4, <1>7, Zenon
  <2>2. g2 /\ r.calls = <<c2>>
    <3> HIDE DEF g2
    <3> QED
      BY <1>0, <2>1 DEF If, Route, Miss
  <2>3. n.p[1] = 2 /\ a.ne[4] = 1 /\ b.ne[4] = 1
    BY <2>2
  <2>4. /\ Width(n.dst.type) * Elems(n.dst.ne) <= Span(n.dst)
        /\ Elems(n.dst.ne) = (a.ne[3] + b.ne[3]) * plane
    BY <1>4, <1>5, <2>3, ConcatReach
  <2> HIDE DEF g2
  <2> QED
    BY <1>3, <2>2, <2>4, ExactFit DEF Other, r
<1> QED
  BY <1>6, <1>7

LEMMA ParamsSeq ==
  ASSUME NEW n \in NodeType
  PROVE  n.p \in Seq(Int) /\ Len(n.p) = 7
<1> DEFINE p == n.p
<1>1. p \in [1..7 -> Int] /\ 7 \in Nat
  BY DEF NodeType
<1> HIDE DEF p
<1>2. p \in Seq(Int)
  BY <1>1, IntoSeq
<1>3. Len(p) = 7
  BY <1>1, <1>2, LenProperties
<1> QED
  BY <1>2, <1>3 DEF p

(* The guards on the parameters of a convolution and of its patches. *)
LEMMA ConvPlain ==
  ASSUME NEW n \in NodeType, SubSeq(n.p, 1, 6) = <<1, 1, 0, 0, 1, 1>>
  PROVE  PlainWindow(n.p) /\ n.p[1] = 1
<1> DEFINE p == n.p
           q == SubSeq(p, 1, 6)
<1>1. p \in Seq(Int) /\ Len(p) = 7
  BY ParamsSeq
<1>2. q = <<1, 1, 0, 0, 1, 1>>
  OBVIOUS
<1>3. q[1] = p[1] /\ q[2] = p[2] /\ q[3] = p[3] /\ q[4] = p[4] /\ q[5] = p[5] /\ q[6] = p[6]
  <2> HIDE DEF p
  <2> QED
    BY <1>1
<1> HIDE DEF q, p
<1>4. p[1] = 1 /\ p[2] = 1 /\ p[3] = 0 /\ p[4] = 0 /\ p[5] = 1 /\ p[6] = 1
  BY <1>2, <1>3
<1> QED
  BY <1>4 DEF p, PlainWindow

LEMMA PatchPlain ==
  ASSUME NEW n \in NodeType, SubSeq(n.p, 3, 7) = <<0, 0, 1, 1, 1>>, n.p[1] = n.p[2], n.p[1] > 0
  PROVE  PlainWindow(n.p)
<1> DEFINE p == n.p
           q == SubSeq(p, 3, 7)
<1>1. p \in Seq(Int) /\ Len(p) = 7
  BY ParamsSeq
<1>2. q = <<0, 0, 1, 1, 1>>
  OBVIOUS
<1>3. q[1] = p[3] /\ q[2] = p[4] /\ q[3] = p[5] /\ q[4] = p[6]
  <2> HIDE DEF p
  <2> QED
    BY <1>1
<1> HIDE DEF q, p
<1>4. p[3] = 0 /\ p[4] = 0 /\ p[5] = 1 /\ p[6] = 1
  BY <1>2, <1>3
<1>5. p[1] = p[2] /\ p[1] > 0
  BY DEF p
<1> QED
  BY <1>4, <1>5 DEF p, PlainWindow

LEMMA PatchArithmetic ==
  ASSUME NEW s \in Int, NEW t \in Int, NEW c \in Nat, NEW k \in Nat, NEW l \in Nat
  PROVE  s * t * c * k * l = (k * l * c) * s * t * 1
OBVIOUS

LEMMA Im2ColFit ==
  ASSUME NEW n \in NodeType, NEW m, NEW m0, Expected(n, m0).is = "ok", n.op = "IM2COL",
         Im2ColRoute(n, m).to = "call"
  PROVE  Fit(n, Im2ColRoute(n, m).calls)
<1> DEFINE k == n.src[1]
           im == n.src[2]
           p == n.p
           ic == im.ne[3]
           geometry == <<im.ne[2], im.ne[1], k.ne[2], k.ne[1], p[1]>>
           OutOf(i) == (im.ne[i] - k.ne[i]) \div p[1] + 1
           y == Flat(im, m)
           d == OutOf(1) * OutOf(2) * ic * k.ne[1] * k.ne[2]
           c1 == SimpleCall("unary_im2col", "", geometry, <<>>, y, d)
           c2 == SimpleCall("unary_im2col_multich", "", <<ic>> \o geometry, <<>>, y, d)
           g == /\ n.dst.type \in Castable /\ Len(n.src) >= 2
                /\ k.type # Missing /\ im.type \in Castable
                /\ p[1] = p[2] /\ p[1] > 0 /\ SubSeq(p, 3, 7) = <<0, 0, 1, 1, 1>>
                /\ im.ne[4] = 1 /\ k.ne[4] = 1 /\ k.ne[3] = ic /\ Positive(k) /\ Positive(im)
                /\ Len(y) = Elems(im.ne) /\ OutOf(1) > 0 /\ OutOf(2) > 0
           r == Im2ColRoute(n, m)
<1>1. r = If(g, IF ic = 1 THEN <<c1>> ELSE <<c2>>)
  BY Zenon DEF Im2ColRoute
<1>2. c1.dump = d /\ c2.dump = d
  <2>1. c1.dump = d
    BY DEF SimpleCall, Call
  <2>2. c2.dump = d
    BY DEF SimpleCall, Call
  <2> QED
    BY <2>1, <2>2
<1> HIDE DEF c1, c2, r
<1>3. g /\ r.calls = IF ic = 1 THEN <<c1>> ELSE <<c2>>
  <2>1. r.to = "call"
    BY DEF r
  <2> HIDE DEF g, ic
  <2> QED
    BY <1>1, <2>1 DEF If, Route, Miss
<1>4. k \in TensorType /\ im \in TensorType /\ PlainWindow(n.p) /\ im.ne[4] = 1
  BY <1>3, SourceOf, PatchPlain
<1>5. /\ Width(n.dst.type) * Elems(n.dst.ne) <= Span(n.dst)
      /\ Steps(k, im, p, 1) \in Int /\ Steps(k, im, p, 2) \in Int
      /\ Elems(n.dst.ne) = (k.ne[1] * k.ne[2] * im.ne[3])
                           * Steps(k, im, p, 1) * Steps(k, im, p, 2) * im.ne[4]
  BY <1>3, <1>4, WindowReach
<1>6. OutOf(1) = Steps(k, im, p, 1) /\ OutOf(2) = Steps(k, im, p, 2)
  BY Zenon DEF Steps
<1>7. d = Elems(n.dst.ne)
  <2> DEFINE s == Steps(k, im, p, 1)
             t == Steps(k, im, p, 2)
             u == k.ne[1]
             v == k.ne[2]
  <2>1. s \in Int /\ t \in Int /\ u \in Nat /\ v \in Nat /\ ic \in Nat
    BY <1>4, <1>5, TensorDims
  <2>2. Elems(n.dst.ne) = (u * v * ic) * s * t * 1
    BY <1>4, <1>5, Zenon
  <2>3. d = s * t * ic * u * v
    BY <1>6, Zenon
  <2> HIDE DEF s, t, u, v, ic, d
  <2>4. s * t * ic * u * v = (u * v * ic) * s * t * 1
    BY <2>1, PatchArithmetic
  <2> QED
    BY <2>2, <2>3, <2>4, Zenon
<1> HIDE DEF d, g
<1>8. \A c : c.dump = d => Fit(n, <<c>>)
  BY <1>5, <1>7, ExactFit DEF Other
<1> QED
  BY <1>2, <1>3, <1>8 DEF r

LEMMA ConvFit ==
  ASSUME NEW n \in NodeType, NEW m, NEW m0, Expected(n, m0).is = "ok", n.op = "CONV_2D",
         ConvRoute(n, m).to = "call"
  PROVE  Fit(n, ConvRoute(n, m).calls)
<1> DEFINE k == n.src[1]
           im == n.src[2]
           x == Flat(k, m)
           y == Flat(im, m)
           d == (im.ne[1] - k.ne[1] + 1) * (im.ne[2] - k.ne[2] + 1)
           c == SimpleCall("unary_conv_2d", "", <<im.ne[2], im.ne[1], k.ne[2], k.ne[1]>>, x, y, d)
           g == /\ n.dst.type = "F16" /\ Sources(n, 2, F16) /\ SubSeq(n.p, 1, 6) = <<1, 1, 0, 0, 1, 1>>
                /\ Flat2D(k) /\ Flat2D(im) /\ Positive(k) /\ im.ne[1] >= k.ne[1] /\ im.ne[2] >= k.ne[2]
                /\ Len(x) = Elems(k.ne) /\ Len(y) = Elems(im.ne)
           r == ConvRoute(n, m)
<1>1. r = If(g, <<c>>)
  BY Zenon DEF ConvRoute
<1>2. c.dump = d
  BY DEF SimpleCall, Call
<1> HIDE DEF c, r
<1>3. g /\ r.calls = <<c>>
  <2>1. r.to = "call"
    BY DEF r
  <2> HIDE DEF g
  <2> QED
    BY <1>1, <2>1 DEF If, Route, Miss
<1>4. Len(n.src) >= 2 /\ k.ne[4] = 1 /\ im.ne[4] = 1
  BY <1>3 DEF Sources, Flat2D
<1>5. k \in TensorType /\ im \in TensorType /\ PlainWindow(n.p) /\ n.p[1] = 1
  BY <1>3, <1>4, SourceOf, ConvPlain
<1>6. /\ Width(n.dst.type) * Elems(n.dst.ne) <= Span(n.dst)
      /\ Steps(k, im, n.p, 1) \in Int /\ Steps(k, im, n.p, 2) \in Int
      /\ Elems(n.dst.ne) = Steps(k, im, n.p, 1) * Steps(k, im, n.p, 2) * k.ne[4] * im.ne[4]
  BY <1>4, <1>5, WindowReach
<1>7. Steps(k, im, n.p, 1) = im.ne[1] - k.ne[1] + 1 /\ Steps(k, im, n.p, 2) = im.ne[2] - k.ne[2] + 1
  <2> DEFINE u == im.ne[1] - k.ne[1]
             v == im.ne[2] - k.ne[2]
  <2>1. u \in Int /\ v \in Int
    BY <1>5, TensorDims
  <2>2. Steps(k, im, n.p, 1) = u \div 1 + 1 /\ Steps(k, im, n.p, 2) = v \div 1 + 1
    BY <1>5, Zenon DEF Steps
  <2> HIDE DEF u, v
  <2>3. u \div 1 = u /\ v \div 1 = v
    BY <2>1
  <2> QED
    BY <2>2, <2>3, Zenon DEF u, v
<1>8. d = Elems(n.dst.ne)
  <2> DEFINE s == Steps(k, im, n.p, 1)
             t == Steps(k, im, n.p, 2)
  <2>1. s \in Int /\ t \in Int
    BY <1>6
  <2>2. Elems(n.dst.ne) = s * t * 1 * 1
    BY <1>4, <1>6, Zenon
  <2>3. d = s * t
    BY <1>7, Zenon
  <2> HIDE DEF s, t, d
  <2>4. s * t * 1 * 1 = s * t
    BY <2>1
  <2> QED
    BY <2>2, <2>3, <2>4
<1> HIDE DEF d, g
<1> QED
  BY <1>2, <1>3, <1>6, <1>8, ExactFit DEF Other, r

(* Tiles are spliced into the rows of the result, whatever they hold. *)
LEMMA MulMatFit ==
  ASSUME NEW n \in NodeType, NEW m, NEW m0, Expected(n, m0).is = "ok", n.op = "MUL_MAT",
         MulMatRoute(n, m).to = "call"
  PROVE  Fit(n, MulMatRoute(n, m).calls)
<1> DEFINE a == n.src[1]
           b == n.src[2]
           x == Flat(a, m)
           y == Flat(b, m)
           M == a.ne[2]
           N == b.ne[2]
           cs == TileCalls(x, y, M, a.ne[1], N)
           g == /\ n.dst.type \in Castable /\ Sources(n, 2, Castable) /\ Flat2D(a) /\ Flat2D(b)
                /\ a.ne[1] = b.ne[1] /\ a.ne[1] % LaneWidth = 0
                /\ Len(x) = Elems(a.ne) /\ Len(y) = Elems(b.ne)
           r == MulMatRoute(n, m)
<1>1. r = If(g, cs)
  BY Zenon DEF MulMatRoute
<1> HIDE DEF cs, r
<1>2. g /\ r.calls = cs
  <2>1. r.to = "call"
    BY DEF r
  <2> HIDE DEF g
  <2> QED
    BY <1>1, <2>1 DEF If, Route, Miss
<1>3. Len(n.src) >= 2 /\ Flat2D(a) /\ Flat2D(b)
  BY <1>2 DEF Sources
<1>4. a \in TensorType /\ b \in TensorType
  BY <1>3, SourceOf
<1>5. M \in Nat /\ N \in Nat
  BY <1>4, TensorDims
<1>6. IsSeq(cs)
  <2> DEFINE k == Ceiling(M, TileM) * Ceiling(N, TileN)
  <2>1. TileM \in Nat \ {0} /\ TileN \in Nat \ {0}
    BY RouteAssumption
  <2>2. Ceiling(M, TileM) \in Nat /\ Ceiling(N, TileN) \in Nat
    BY <1>5, <2>1, CeilingInt
  <2>3. k \in Nat
    <3> DEFINE u == Ceiling(M, TileM)
               v == Ceiling(N, TileN)
    <3>1. u \in Nat /\ v \in Nat
      BY <2>2
    <3> HIDE DEF u, v
    <3>2. u * v \in Nat
      BY <3>1
    <3> QED
      BY <3>2 DEF u, v
  <2>4. cs = [t \in 1..k |-> cs[t]]
    BY DEF cs, TileCalls
  <2> HIDE DEF k
  <2> QED
    BY <2>3, <2>4, VectorIsSeq
<1>7. Room(n)
  <2> DEFINE k == N * M
             v == Spliced(n)
  <2>1. k \in Nat
    <3> HIDE DEF N, M
    <3> QED
      BY <1>5
  <2>2. v = [i \in 1..k |-> v[i]]
    BY DEF Spliced, Rows
  <2>3. Width(n.dst.type) * Elems(n.dst.ne) <= Span(n.dst) /\ Elems(n.dst.ne) = M * N
    BY <1>3, MatReach
  <2>4. k <= Elems(n.dst.ne)
    <3> HIDE DEF N, M
    <3>1. N * M = M * N /\ N * M \in Nat
      BY <1>5
    <3> QED
      BY <2>3, <3>1
  <2>5. RouteResult(n) = Encode(n.dst.type, v)
    BY ResultArms
  <2> HIDE DEF k, v
  <2> QED
    BY <2>1, <2>2, <2>3, <2>4, <2>5, EncodedRoom
<1> QED
  BY <1>2, <1>6, <1>7 DEF Fit, r

(* The least number of chunks of c that cover l elements. *)
LEMMA CeilingCovers ==
  ASSUME NEW l \in Nat, NEW c \in Nat \ {0}
  PROVE  /\ Ceiling(l, c) \in Nat
         /\ l <= Ceiling(l, c) * c
         /\ \A k \in 1..Ceiling(l, c) : (k - 1) * c < l
<1> DEFINE q == Ceiling(l, c)
           x == l + c - 1
<1>1. q \in Nat
  BY CeilingInt
<1>2. x \in Nat /\ x % c \in 0..c - 1 /\ x = c * (x \div c) + (x % c)
  OBVIOUS
<1>3. q = x \div c
  BY DEF Ceiling
<1> HIDE DEF q
<1>4. c * q \in Nat /\ x - c < c * q /\ c * q <= x
  <2> DEFINE r == x % c
             z == c * q
  <2>1. r \in 0..c - 1 /\ x = z + r /\ x \in Nat
    BY <1>2, <1>3
  <2>2. z \in Nat
    BY <1>1
  <2> HIDE DEF z, r, x
  <2>3. z <= x /\ x - c < z
    BY <2>1, <2>2
  <2> QED
    BY <2>2, <2>3 DEF z
<1>5. l <= c * q /\ c * q < l + c
  <2> DEFINE z == c * q
  <2>1. z \in Nat /\ x - c < z /\ z <= x
    BY <1>4
  <2> HIDE DEF z
  <2>2. l <= z /\ z < l + c
    BY <2>1
  <2> QED
    BY <2>2 DEF z
<1>6. \A k \in 1..q : (k - 1) * c < l
  <2> TAKE k \in 1..q
  <2> DEFINE j == k - 1
             d == q - k
  <2>1. j \in Nat /\ d \in Nat /\ q = j + d + 1
    BY <1>1
  <2> HIDE DEF j, d
  <2>2. c * q = c * j + c * d + c /\ c * d \in Nat /\ c * j \in Nat /\ j * c = c * j
    BY <2>1
  <2>3. c * j < l
    BY <1>5, <2>2
  <2> QED
    BY <2>2, <2>3 DEF j
<1>7. q * c = c * q
  BY <1>1
<1> QED
  BY <1>1, <1>5, <1>6, <1>7 DEF q

(* A slice that ends where the sequence does. *)
LEMMA CutLen ==
  ASSUME NEW x, IsSeq(x), NEW from \in Nat, NEW to \in Nat, from < to, from <= Len(x)
  PROVE  /\ Len(Cut(x, from + 1, to)) \in Nat
         /\ Len(Cut(x, from + 1, to)) = (IF to <= Len(x) THEN to ELSE Len(x)) - from
<1> DEFINE S == {x[i] : i \in DOMAIN x}
           e == Min({to, Len(x)})
<1>1. x \in Seq(S) /\ Len(x) \in Nat
  BY SeqHasLen DEF IsSeq
<1>2. e = IF to <= Len(x) THEN to ELSE Len(x)
  <2> DEFINE l == Len(x)
             s == {to, l}
  <2>1. l \in Nat
    BY <1>1
  <2>2. Min(s) \in s /\ \A y \in s : Min(s) <= y
    <3> HIDE DEF l
    <3>1. s \in SUBSET Nat /\ s # {}
      BY <2>1
    <3> DEFINE a == IF to <= l THEN to ELSE l
    <3>3. a \in s /\ \A y \in s : a <= y
      BY <2>1
    <3>4. \A b \in s : (\A y \in s : b <= y) => b = a
      BY <2>1, <3>3
    <3>5. Min(s) = CHOOSE b \in s : \A y \in s : b <= y
      BY Zenon DEF Min
    <3> HIDE DEF s, a
    <3> QED
      BY <3>3, <3>5
  <2> HIDE DEF l
  <2> QED
    BY <2>1, <2>2 DEF l
<1> HIDE DEF S, e
<1>3. e \in Nat /\ e <= Len(x) /\ from <= e
  BY <1>1, <1>2
<1>4. Len(SubSeq(x, from + 1, e)) = e - from
  <2>1. from + 1 \in 1..Len(x) + 1 /\ e \in from..Len(x)
    BY <1>1, <1>3
  <2> QED
    BY <1>1, <1>3, <2>1
<1> QED
  BY <1>2, <1>3, <1>4 DEF Cut, e

(* An operand cut into chunks leaves a result as long as the operand. *)
LEMMA ChunkedFit ==
  ASSUME NEW n \in NodeType, n.op \notin Other, NEW tpl, NEW name, NEW x, NEW y, IsSeq(x),
         Len(x) <= Elems(n.dst.ne), Width(n.dst.type) * Elems(n.dst.ne) <= Span(n.dst)
  PROVE  Fit(n, Chunked(tpl, name, x, y))
<1> DEFINE l == Len(x)
           q == Ceiling(l, Chunk)
           cs == Chunked(tpl, name, x, y)
           Upto(k) == IF k * Chunk <= l THEN k * Chunk ELSE l
           off == [k \in 0..q |-> Upto(k)]
<1>1. l \in Nat /\ Chunk \in Nat \ {0}
  BY SeqHasLen, RouteAssumption
<1>2. q \in Nat /\ l <= q * Chunk /\ \A k \in 1..q : (k - 1) * Chunk < l
  <2> HIDE DEF l
  <2> QED
    BY <1>1, CeilingCovers
<1>3. IsSeq(cs) /\ Len(cs) = q
  <2>1. cs = [k \in 1..q |-> cs[k]]
    BY DEF Chunked
  <2> HIDE DEF cs, q
  <2> QED
    BY <1>2, <2>1, VectorIsSeq
<1>4. \A k \in 1..q : cs[k].dump = Len(Cut(x, (k - 1) * Chunk + 1, k * Chunk))
  BY DEF Chunked, SimpleCall, Call
<1> HIDE DEF cs, q
<1>5. \A k \in 1..q : cs[k].dump \in Nat /\ Upto(k) = Upto(k - 1) + cs[k].dump
  <2> SUFFICES ASSUME NEW k \in 1..q
               PROVE  cs[k].dump \in Nat /\ Upto(k) = Upto(k - 1) + cs[k].dump
    OBVIOUS
  <2> DEFINE from == (k - 1) * Chunk
             to == k * Chunk
  <2>1. from \in Nat /\ to \in Nat /\ to = from + Chunk /\ from < l
    <3> DEFINE j == k - 1
    <3>1. j \in Nat /\ k = j + 1
      BY <1>2
    <3> HIDE DEF j
    <3>2. j * Chunk \in Nat /\ (j + 1) * Chunk = j * Chunk + Chunk
      BY <1>1, <3>1
    <3>3. from = j * Chunk /\ to = (j + 1) * Chunk
      BY <3>1 DEF j
    <3> QED
      BY <1>1, <1>2, <3>2, <3>3
  <2>2. Upto(k - 1) = from
    <3> HIDE DEF l
    <3> QED
      BY <1>1, <2>1
  <2>3. Upto(k) = IF to <= l THEN to ELSE l
    BY Zenon
  <2> HIDE DEF from, to, l
  <2>4. from < to /\ from <= l
    BY <1>1, <2>1
  <2>5. /\ Len(Cut(x, from + 1, to)) \in Nat
        /\ Len(Cut(x, from + 1, to)) = (IF to <= l THEN to ELSE l) - from
    BY <2>1, <2>4, CutLen DEF l
  <2>6. cs[k].dump = Len(Cut(x, from + 1, to))
    BY <1>4 DEF from, to
  <2> HIDE DEF Upto
  <2> QED
    BY <1>1, <2>1, <2>2, <2>3, <2>5, <2>6
<1>6. \A k \in 0..q : Upto(k) \in Nat
  <2> SUFFICES ASSUME NEW k \in 0..q PROVE Upto(k) \in Nat
    OBVIOUS
  <2>1. k * Chunk \in Nat
    BY <1>1, <1>2
  <2> HIDE DEF l
  <2> QED
    BY <1>1, <2>1
<1>7. Upto(0) = 0 /\ Upto(q) = l
  <2> HIDE DEF l
  <2>1. 0 * Chunk = 0
    BY <1>1
  <2>2. Upto(0) = 0
    BY <1>1, <2>1
  <2>3. q * Chunk \in Nat
    BY <1>1, <1>2
  <2>4. Upto(q) = l
    <3> DEFINE z == q * Chunk
    <3>1. z \in Nat /\ l <= z
      BY <1>2, <2>3
    <3>2. Upto(q) = IF z <= l THEN z ELSE l
      OBVIOUS
    <3> HIDE DEF z, Upto
    <3> QED
      BY <1>1, <3>1, <3>2
  <2> QED
    BY <2>2, <2>4
<1> HIDE DEF Upto
<1>8. /\ off \in [0..q -> Nat] /\ off[0] = 0 /\ off[q] = l
      /\ \A k \in 1..q : cs[k].dump \in Nat /\ off[k] = off[k - 1] + cs[k].dump
  <2>1. off \in [0..q -> Nat] /\ \A k \in 0..q : off[k] = Upto(k)
    BY <1>6
  <2>2. 0 \in 0..q /\ q \in 0..q /\ \A k \in 1..q : k \in 0..q /\ k - 1 \in 0..q
    BY <1>2
  <2> HIDE DEF off
  <2> QED
    BY <1>5, <1>7, <2>1, <2>2
<1> HIDE DEF off
<1>9. off[q] <= Elems(n.dst.ne)
  BY <1>8
<1>10. ASSUME Answered(outs, cs) PROVE Room(n)
  BY <1>2, <1>3, <1>8, <1>9, <1>10, JoinedRoom
<1> QED
  BY <1>3, <1>10 DEF Fit, cs

LEMMA UnaryFit ==
  ASSUME NEW n \in NodeType, NEW m, NEW m0, Expected(n, m0).is = "ok", AllDense(n),
         n.op \in {"UNARY", "SQRT"}, NEW name, UnaryRoute(n, m, name).to = "call"
  PROVE  Fit(n, UnaryRoute(n, m, name).calls)
<1> DEFINE x == Flat(n.src[1], m)
           cs == Chunked("unary_intrin1", name, x, <<>>)
           g == /\ n.dst.type \in Castable /\ Sources(n, 1, Castable)
                /\ Len(x) > 0 /\ Len(x) % LaneWidth = 0
           r == UnaryRoute(n, m, name)
<1>1. r = If(g, cs)
  BY Zenon DEF UnaryRoute
<1>2. g /\ r.calls = cs
  <2>1. r.to = "call"
    BY DEF r
  <2> HIDE DEF g, cs, r
  <2> QED
    BY <1>1, <2>1 DEF If, Route, Miss
<1>3. Len(n.src) >= 1
  BY <1>2 DEF Sources
<1>4. n.src[1] \in TensorType /\ Dense(n.src[1])
  BY <1>3, DenseSource
<1>5. IsSeq(x) /\ Len(x) = Elems(n.src[1].ne)
  BY <1>4, DenseFlat, FlatRead
<1>6. Elems(n.dst.ne) = Elems(n.src[1].ne) /\ Width(n.dst.type) * Elems(n.dst.ne) <= Span(n.dst)
  BY <1>3, SameSizeReach DEF SameSize
<1>7. n.dst \in TensorType /\ Elems(n.dst.ne) \in Nat
  BY SourceOf, ElemsOfTensor
<1> HIDE DEF x
<1>8. Len(x) <= Elems(n.dst.ne) /\ n.op \notin Other
  BY <1>5, <1>6, <1>7 DEF Other
<1> HIDE DEF g, r
<1>9. Fit(n, cs)
  BY <1>5, <1>6, <1>8, ChunkedFit
<1> QED
  BY <1>2, <1>9 DEF r

LEMMA BinaryFit ==
  ASSUME NEW n \in NodeType, NEW m, NEW m0, Expected(n, m0).is = "ok", AllDense(n),
         n.op \in BinaryOps, BinaryRoute(n, m).to = "call"
  PROVE  Fit(n, BinaryRoute(n, m).calls)
<1> DEFINE a == n.src[1]
           b == n.src[2]
           x == Flat(a, m)
           y == Flat(b, m)
           z == IF Len(x) = Len(y) THEN y ELSE BroadcastSrcTo(a, b, y)
           cs == Chunked("binary_intrin1", n.op, x, z)
           g == /\ n.dst.type \in Castable /\ Sources(n, 2, Castable)
                /\ Len(x) > 0 /\ Len(y) > 0 /\ (Len(x) = Len(y) \/ CanBroadcast(a, b, y))
                /\ Len(z) = Len(x) /\ Len(x) % LaneWidth = 0
           r == BinaryRoute(n, m)
<1>1. r = If(g, cs)
  BY Zenon DEF BinaryRoute
<1>2. g /\ r.calls = cs
  <2>1. r.to = "call"
    BY DEF r
  <2> HIDE DEF g, cs, r
  <2> QED
    BY <1>1, <2>1 DEF If, Route, Miss
<1>3. Len(n.src) >= 2 /\ Len(n.src) >= 1
  BY <1>2 DEF Sources
<1>4. a \in TensorType /\ Dense(a) /\ Positive(b)
  BY <1>3, DenseSource DEF Dense
<1>5. IsSeq(x) /\ Len(x) = Elems(a.ne)
  BY <1>4, DenseFlat, FlatRead
<1>6. Elems(a.ne) <= Elems(n.dst.ne) /\ Width(n.dst.type) * Elems(n.dst.ne) <= Span(n.dst)
  BY <1>3, <1>4, BroadcastReach
<1> HIDE DEF x, z
<1>7. Len(x) <= Elems(n.dst.ne) /\ n.op \notin Other
  BY <1>5, <1>6 DEF Other, BinaryOps
<1> HIDE DEF g, r
<1>8. Fit(n, cs)
  BY <1>5, <1>6, <1>7, ChunkedFit
<1> QED
  BY <1>2, <1>8 DEF r

(* Every route of a node that NumPy computes from dense sources fits. *)
LEMMA RouteFit ==
  ASSUME NEW n \in NodeType, NEW m, NEW m0, Expected(n, m0).is = "ok", AllDense(n),
         TryPyspike(n, m).to = "call"
  PROVE  Fit(n, TryPyspike(n, m).calls)
<1>1. CASE n.op \in Operators
  <2>1. CASE n.op = "MUL_MAT"
    <3>1. TryPyspike(n, m) = MulMatRoute(n, m)
      BY <2>1, RouteArms
    <3> QED
      BY <2>1, <3>1, MulMatFit
  <2>2. CASE n.op = "ARANGE"
    <3>1. TryPyspike(n, m) = ArangeRoute(n)
      BY <2>2, RouteArms
    <3> QED
      BY <2>2, <3>1, ArangeFit
  <2>3. CASE n.op = "REPEAT"
    <3>1. TryPyspike(n, m) = RepeatRoute(n, m)
      BY <2>3, RouteArms
    <3> QED
      BY <2>3, <3>1, RepeatFit
  <2>4. CASE n.op = "UPSCALE"
    <3>1. TryPyspike(n, m) = UpscaleRoute(n, m)
      BY <2>4, RouteArms
    <3> QED
      BY <2>4, <3>1, UpscaleFit
  <2>5. CASE n.op = "PAD"
    <3>1. TryPyspike(n, m) = PadRoute(n, m)
      BY <2>5, RouteArms
    <3> QED
      BY <2>5, <3>1, PadFit
  <2>6. CASE n.op \in {"CONT", "DUP"}
    <3>1. TryPyspike(n, m) = ContRoute(n, m)
      BY <2>6, RouteArms
    <3> QED
      BY <2>6, <3>1, ContFit
  <2>7. CASE n.op = "CONCAT"
    <3>1. TryPyspike(n, m) = ConcatRoute(n, m)
      BY <2>7, RouteArms
    <3> QED
      BY <2>7, <3>1, ConcatFit
  <2>8. CASE n.op = "POOL_2D"
    <3>1. TryPyspike(n, m) = PoolRoute(n, m)
      BY <2>8, RouteArms
    <3> QED
      BY <2>8, <3>1, PoolFit
  <2>9. CASE n.op = "IM2COL"
    <3>1. TryPyspike(n, m) = Im2ColRoute(n, m)
      BY <2>9, RouteArms
    <3> QED
      BY <2>9, <3>1, Im2ColFit
  <2>10. CASE n.op = "CONV_2D"
    <3>1. TryPyspike(n, m) = ConvRoute(n, m)
      BY <2>10, RouteArms
    <3> QED
      BY <2>10, <3>1, ConvFit
  <2> QED
    BY <1>1, <2>1, <2>2, <2>3, <2>4, <2>5, <2>6, <2>7, <2>8, <2>9, <2>10 DEF Operators
<1>2. CASE n.op \notin Operators
  <2>1. \/ Simple(n) \/ (~Simple(n) /\ n.sub \in UNARY_PYSPIKE_KERNELS) \/ n.op = "SQRT" \/ n.op \in BinaryOps
    <3>1. ~Simple(n) /\ n.sub \notin UNARY_PYSPIKE_KERNELS /\ n.op # "SQRT" /\ n.op \notin BinaryOps
            => TryPyspike(n, m) = Miss
      BY <1>2, RouteArms
    <3>2. TryPyspike(n, m) # Miss
      BY Guarded
    <3> QED
      BY <3>1, <3>2
  <2>2. CASE Simple(n)
    <3>1. TryPyspike(n, m) = SimpleRoute(n, m)
      BY <1>2, <2>2, RouteArms
    <3> QED
      BY <1>2, <2>2, <3>1, SimpleFit
  <2>3. CASE ~Simple(n) /\ n.sub \in UNARY_PYSPIKE_KERNELS
    <3>1. TryPyspike(n, m) = UnaryRoute(n, m, n.sub) /\ n.op \in {"UNARY", "SQRT"}
      BY <1>2, <2>3, RouteArms
    <3> QED
      BY <3>1, UnaryFit
  <2>4. CASE n.op = "SQRT"
    <3>1. TryPyspike(n, m) = UnaryRoute(n, m, n.op) /\ n.op \in {"UNARY", "SQRT"}
      BY <1>2, <2>4, RouteArms
    <3> QED
      BY <3>1, UnaryFit
  <2>5. CASE n.op \in BinaryOps
    <3>1. TryPyspike(n, m) = BinaryRoute(n, m)
      BY <1>2, <2>5, RouteArms
    <3> QED
      BY <2>5, <3>1, BinaryFit
  <2> QED
    BY <2>1, <2>2, <2>3, <2>4, <2>5
<1> QED
  BY <1>1, <1>2

-----------------------------------------------------------------------------
(* The walk makes the calls of its route. *)

(* The calls of cs after the first k. *)
Rest(cs, k) == [i \in 1..Len(cs) - k |-> cs[k + i]]

(* Making one call more. *)
LEMMA RestSeq ==
  ASSUME NEW cs, IsSeq(cs), NEW k \in 0..Len(cs)
  PROVE  /\ Rest(cs, 0) = cs
         /\ Rest(cs, k) = <<>> => k = Len(cs)
         /\ Rest(cs, k) # <<>> => /\ k < Len(cs)
                                  /\ Rest(cs, k)[1] = cs[k + 1]
                                  /\ Tail(Rest(cs, k)) = Rest(cs, k + 1)
<1> DEFINE l == Len(cs)
           r == Rest(cs, k)
<1>1. l \in Nat /\ cs = [i \in 1..l |-> cs[i]] /\ k \in 0..l
  BY SeqHasLen
<1>2. Rest(cs, 0) = cs
  <2>1. Rest(cs, 0) = [i \in 1..l - 0 |-> cs[0 + i]]
    BY DEF Rest
  <2> HIDE DEF l
  <2>2. l - 0 = l /\ \A i \in 1..l : 0 + i = i
    BY <1>1
  <2>3. [i \in 1..l - 0 |-> cs[0 + i]] = [i \in 1..l |-> cs[i]]
    BY <2>2
  <2> QED
    BY <1>1, <2>1, <2>3
<1>3. r = [i \in 1..l - k |-> cs[k + i]]
  BY DEF Rest
<1> HIDE DEF l
<1>4. l - k \in Nat /\ r = [i \in 1..l - k |-> r[i]]
  BY <1>1, <1>3
<1> HIDE DEF r
<1>5. IsSeq(r) /\ Len(r) = l - k /\ DOMAIN r = 1..l - k
  BY <1>4, VectorIsSeq
<1>6. ASSUME r = <<>> PROVE k = l
  <2>1. Len(r) = 0
    BY <1>6, EmptySeq
  <2> QED
    BY <1>1, <1>5, <2>1
<1>7. ASSUME r # <<>>
      PROVE  k < l /\ r[1] = cs[k + 1] /\ Tail(r) = Rest(cs, k + 1)
  <2> DEFINE S == {r[i] : i \in DOMAIN r}
             t == Tail(r)
  <2>1. r \in Seq(S)
    BY <1>5 DEF IsSeq
  <2>2. /\ t \in Seq(S) /\ Len(t) = Len(r) - 1
        /\ \A i \in 1..Len(t) : t[i] = r[i + 1]
    <3> HIDE DEF S
    <3> QED
      BY <1>7, <2>1, HeadTailProperties
  <2>3. Len(t) \in Nat /\ DOMAIN t = 1..Len(t) /\ t = [i \in 1..Len(t) |-> t[i]]
    <3> HIDE DEF S, t
    <3> QED
      BY <2>2, LenProperties
  <2> HIDE DEF S, t
  <2>4. Len(t) = l - (k + 1) /\ k < l
    BY <1>1, <1>5, <2>2, <2>3
  <2>5. \A i \in 1..l - (k + 1) : t[i] = cs[(k + 1) + i]
    <3> TAKE i \in 1..l - (k + 1)
    <3>1. t[i] = r[i + 1]
      BY <2>2, <2>4
    <3>2. i + 1 \in 1..l - k /\ k + (i + 1) = (k + 1) + i
      BY <1>1, <2>4
    <3> QED
      BY <1>3, <3>1, <3>2
  <2>6. t = [i \in 1..l - (k + 1) |-> cs[(k + 1) + i]]
    BY <2>3, <2>4, <2>5
  <2>7. 1 \in 1..l - k
    BY <1>1, <2>4
  <2>8. r[1] = cs[k + 1]
    BY <1>3, <2>7
  <2> QED
    BY <2>4, <2>6, <2>8 DEF Rest, l, t
<1> QED
  BY <1>2, <1>6, <1>7 DEF l, r

(* A route in progress: the node is of the graph, its calls are those of its route on the
   memory as it stands, the calls to make follow the calls made, and each made call
   answered with its dump. *)
RouteInv ==
  /\ pc \in {"call", "host"} => node \in Nodes
  /\ pc = "call" =>
       LET cs == TryPyspike(node, ram).calls
       IN /\ TryPyspike(node, ram).to = "call"
          /\ IsSeq(outs) /\ Len(outs) \in 0..Len(cs)
          /\ calls = Rest(cs, Len(outs))
          /\ \A i \in 1..Len(outs) : Answer(outs[i], cs[i])

LEMMA RouteInit == Init => RouteInv
BY DEF Init, RouteInv

(* A node of a computable graph, whatever has become of the memory since. *)
LEMMA ComputableFit ==
  ASSUME GraphsComputable, NEW n \in Nodes, NEW m, TryPyspike(n, m).to = "call"
  PROVE  Fit(n, TryPyspike(n, m).calls)
<1>1. n \in NodeType
  BY RouteAssumption
<1>2. TryPyspike(n, Image).to = "call"
  BY <1>1, SameRoute
<1>3. Expected(n, Image).is = "ok" /\ AllDense(n)
  BY <1>2 DEF GraphsComputable, AllDense
<1> QED
  BY <1>1, <1>3, RouteFit

(* Every step keeps it. *)
LEMMA RouteStep == RouteInv /\ [Next]_vars => RouteInv'
<1> SUFFICES ASSUME RouteInv, [Next]_vars
             PROVE  RouteInv'
  OBVIOUS
<1>1. CASE Take
  <2>1. PICK n \in Nodes : /\ node' = n /\ pc' = TryPyspike(n, ram).to
                           /\ calls' = TryPyspike(n, ram).calls
    BY <1>1 DEF Take
  <2>2. outs' = <<>> /\ ram' = ram
    BY <1>1 DEF Take
  <2>3. ASSUME pc' = "call"
        PROVE  /\ IsSeq(outs') /\ Len(outs') = 0
               /\ IsSeq(calls') /\ calls' = Rest(calls', 0) /\ Len(calls') \in Nat
    <3>1. IsSeq(TryPyspike(n, ram).calls)
      BY RouteCanonical DEF CanonicalCalls, IsSeq
    <3>2. IsSeq(calls') /\ Len(calls') \in Nat
      BY <2>1, <3>1, SeqHasLen
    <3>3. 0 \in 0..Len(calls')
      BY <3>2
    <3>4. Rest(calls', 0) = calls'
      BY <3>2, <3>3, RestSeq
    <3>5. <<>> = [i \in 1..0 |-> <<>>[i]]
      OBVIOUS
    <3>6. IsSeq(<<>>) /\ Len(<<>>) = 0
      <4> DEFINE e == <<>>
      <4>1. e = [i \in 1..0 |-> e[i]] /\ 0 \in Nat
        OBVIOUS
      <4> HIDE DEF e
      <4>2. IsSeq(e) /\ Len(e) = 0
        BY <4>1, VectorIsSeq
      <4> QED
        BY <4>2 DEF e
    <3> QED
      BY <2>2, <3>2, <3>4, <3>6
  <2>4. ASSUME pc' = "call"
        PROVE  /\ TryPyspike(node', ram').to = "call" /\ calls' = TryPyspike(node', ram').calls
    BY <2>1, <2>2, <2>4
  <2>5. pc' = "call" =>
       LET cs == TryPyspike(node', ram').calls
       IN /\ TryPyspike(node', ram').to = "call"
          /\ IsSeq(outs') /\ Len(outs') \in 0..Len(cs)
          /\ calls' = Rest(cs, Len(outs'))
          /\ \A i \in 1..Len(outs') : Answer(outs'[i], cs[i])
    BY <2>3, <2>4
  <2> QED
    BY <2>1, <2>5 DEF RouteInv
<1>2. CASE BuildKernel
  BY <1>2 DEF BuildKernel, RouteInv
<1>3. CASE RunKernel
  <2> DEFINE cs == TryPyspike(node, ram).calls
             k == Len(outs)
             o == RunPyspike(elves[calls[1].key], calls[1])
  <2>1. /\ pc = "call" /\ calls # <<>> /\ pc' = pc /\ node' = node /\ ram' = ram
        /\ outs' = Append(outs, o) /\ calls' = Tail(calls)
    BY <1>3 DEF RunKernel, CallPending
  <2>2. /\ node \in Nodes /\ TryPyspike(node, ram).to = "call"
        /\ IsSeq(outs) /\ k \in 0..Len(cs) /\ calls = Rest(cs, k)
        /\ \A i \in 1..k : Answer(outs[i], cs[i])
    BY <2>1 DEF RouteInv
  <2>3. IsSeq(cs)
    BY <2>2, RouteCanonical DEF CanonicalCalls, IsSeq
  <2>4. k < Len(cs) /\ calls[1] = cs[k + 1] /\ Tail(calls) = Rest(cs, k + 1)
    <3> HIDE DEF cs, k
    <3> QED
      BY <2>1, <2>2, <2>3, RestSeq
  <2>5. /\ IsSeq(outs') /\ Len(outs') = k + 1 /\ k \in Nat
        /\ \A i \in 1..k : outs'[i] = outs[i]
        /\ outs'[k + 1] = o
    <3> HIDE DEF o
    <3> QED
      BY <2>1, <2>2, OneMore
  <2>6. Answer(o, cs[k + 1])
    BY <2>4, RunLen DEF Answer
  <2> HIDE DEF cs, k, o
  <2>7. Len(cs) \in Nat
    BY <2>3, SeqHasLen
  <2>8. Len(outs') \in 0..Len(cs)
    BY <2>4, <2>5, <2>7
  <2>9. \A i \in 1..Len(outs') : Answer(outs'[i], cs[i])
    <3> TAKE i \in 1..Len(outs')
    <3>1. i \in 1..k \/ i = k + 1
      BY <2>5
    <3> QED
      BY <2>2, <2>5, <2>6, <3>1
  <2>10. TryPyspike(node', ram') = TryPyspike(node, ram)
    BY <2>1
  <2>11. calls' = Rest(cs, Len(outs'))
    BY <2>1, <2>4, <2>5
  <2> QED
    BY <2>1, <2>2, <2>5, <2>8, <2>9, <2>10, <2>11 DEF RouteInv, cs
<1>4. CASE CallFails
  BY <1>4 DEF CallFails, CallPending, RouteInv
<1>5. CASE FinishRoute
  BY <1>5 DEF FinishRoute, Settle, RouteInv
<1>6. CASE NumPyFallback
  BY <1>6 DEF NumPyFallback, Settle, RouteInv
<1>7. CASE UNCHANGED vars
  BY <1>7 DEF vars, RouteInv
<1> QED
  BY <1>1, <1>2, <1>3, <1>4, <1>5, <1>6, <1>7 DEF Next

(* A step that changes the memory completes a node and stays inside its destination. *)
LEMMA DestinationStep ==
  GraphsComputable /\ RouteInv /\ [Next]_vars =>
    [ram' # ram => /\ settled' \in {"spike", "ok"}
                   /\ \A a \in DOMAIN ram : ram'[a] # ram[a] => a \in Extent(node.dst)]_vars
<1> SUFFICES ASSUME GraphsComputable, RouteInv, [Next]_vars, ram' # ram
             PROVE  /\ settled' \in {"spike", "ok"}
                    /\ \A a \in DOMAIN ram : ram'[a] # ram[a] => a \in Extent(node.dst)
  OBVIOUS
<1>1. CASE FinishRoute
  <2> DEFINE cs == TryPyspike(node, ram).calls
             k == Len(outs)
  <2>1. /\ pc = "call" /\ calls = <<>> /\ settled' = "spike"
        /\ ram' = Store(ram, node.dst.data, RouteResult(node))
    BY <1>1 DEF FinishRoute, Settle
  <2>2. /\ node \in Nodes /\ TryPyspike(node, ram).to = "call"
        /\ IsSeq(outs) /\ k \in 0..Len(cs) /\ calls = Rest(cs, k)
        /\ \A i \in 1..k : Answer(outs[i], cs[i])
    BY <2>1 DEF RouteInv
  <2>3. Fit(node, cs)
    BY <2>2, ComputableFit
  <2>4. k = Len(cs)
    <3>1. IsSeq(cs)
      BY <2>3 DEF Fit
    <3> HIDE DEF cs, k
    <3> QED
      BY <2>1, <2>2, <3>1, RestSeq
  <2>5. Answered(outs, cs)
    BY <2>2, <2>4 DEF Answered
  <2>6. Room(node)
    BY <2>3, <2>5 DEF Fit
  <2>7. node.dst \in TensorType
    BY <2>2, RouteAssumption, SourceOf
  <2>8. Inside(ram, ram', node.dst)
    BY <2>1, <2>6, <2>7, StoreInside DEF Room
  <2> QED
    BY <2>1, <2>8 DEF Inside
<1>2. CASE NumPyFallback
  <2>1. pc = "host" /\ Fallback(node, ram).is = "ok" /\ ram' = Fallback(node, ram).x /\ settled' = "ok"
    BY <1>2 DEF NumPyFallback, Settle
  <2>2. node \in NodeType
    BY <2>1, RouteAssumption DEF RouteInv
  <2>3. Inside(ram, ram', node.dst)
    BY <2>1, <2>2, FallbackInside
  <2> QED
    BY <2>1, <2>3 DEF Inside
<1>3. ram' = ram \/ FinishRoute \/ NumPyFallback
  BY DEF Next, vars, Take, BuildKernel, RunKernel, CallFails
<1> QED
  BY <1>1, <1>2, <1>3

(* Only a step that completes a node writes to the memory, and only inside the tensor of the
   node, for every graph whose firmware nodes NumPy would compute from dense sources, and for
   every memory, chunk, tile and bus geometry: no partial result of a route that fails halfway,
   and no padding of a bus word, reaches a neighbouring tensor. *)
THEOREM DestinationOnly == ASSUME GraphsComputable PROVE Spec => OnlyDestinationWritten
<1>1. Init => RouteInv
  BY RouteInit
<1>2. RouteInv /\ [Next]_vars => RouteInv'
  BY RouteStep
<1>3. RouteInv /\ [Next]_vars =>
    [ram' # ram => /\ settled' \in {"spike", "ok"}
                   /\ \A a \in DOMAIN ram : ram'[a] # ram[a] => a \in Extent(node.dst)]_vars
  BY DestinationStep
<1> QED
  BY <1>1, <1>2, <1>3, PTL DEF Spec, OnlyDestinationWritten
================================================================================
