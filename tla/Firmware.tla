-------------------------------- MODULE Firmware --------------------------------
(***************************************************************************)
(* One firmware call of the runner (examples/ggml-rpc-server/              *)
(* pyspike_runner.py): the kernel text rendered from a template, its cache *)
(* key, the DDR sections that carry the operands through the hex files,    *)
(* and what each template stores at the result address.  Sizes count       *)
(* halfwords.  The kernels are modelled on tensors that end below their    *)
(* L2_RESULT, so that a result row never lands on an operand row.          *)
(***************************************************************************)
EXTENDS HostCompute

CONSTANTS
  Bus,       \* halfwords of a DDR bus word: _FP16_PER_BUS_WORD
  LaneWidth, \* columns of the elementwise kernels: WIDTH
  Spus       \* SPU_NUM_PER_NEST

ASSUME FirmwareAssumption == {Bus, LaneWidth, Spus} \subseteq Nat \ {0}

Text(tpl, name, c) == [tpl |-> tpl, name |-> name, c |-> c]
Key(op, ne) == [op |-> op, ne |-> ne]

(* A call: the text it renders, the key it caches it under, its two operand sections and the
   size of the dump it asks for. *)
Call(text, key, a, b, dump) == [text |-> text, key |-> key, a |-> a, b |-> b, dump |-> dump]

(* Mutant: the constants baked into a kernel are left out of its key. *)
SimpleCallByShape(tpl, name, c, a, b, dump) ==
  Call(Text(tpl, name, c), Key(<<tpl, name>>, SubSeq(c, 1, Min({2, Len(c)}))), a, b, dump)

(* The runners whose key repeats every parameter of the template. *)
SimpleCall(tpl, name, c, a, b, dump) ==
  Call(Text(tpl, name, c), Key(<<tpl, name>>, c), a, b, dump)

(***************************** the hex files *****************************)

Zeros(n) == [i \in 1..n |-> 0]
Padding(n) == (Bus - (n % Bus)) % Bus
BusPadded(s) == s \o Zeros(Padding(Len(s)))

(* _reverse_fp16_per_bus_word, on whole bus words. *)
ReverseBusWords(s) == [i \in DOMAIN s |-> s[Bus * ((i - 1) \div Bus) + Bus - ((i - 1) % Bus)]]

(* Host to DDR: padded and reversed into the init file, reversed again as it is loaded. *)
WriteHexSection(data) == ReverseBusWords(BusPadded(data))
LoadHex(file) == ReverseBusWords(file)

(* DDR to host: a dump of n halfwords at the result address, where an untouched DDR reads
   zero, then decoded and trimmed. *)
SaveHex(stored, n) ==
  ReverseBusWords(BusPadded([i \in 1..n |-> IF i \in DOMAIN stored THEN stored[i] ELSE 0]))
DecodeHex(file, n) == SubSeq(ReverseBusWords(file), 1, n)

(****************************** the kernels ******************************)

(* A kernel stores n rows of w elements, each a function of its row and column; operands are
   read by offset, and L2 beyond a section reads zero. *)
Rows(n, w, F(_, _)) == [i \in 1..(n * w) |-> F((i - 1) \div w, (i - 1) % w)]
L2(s, off) == IF off + 1 \in DOMAIN s THEN s[off + 1] ELSE 0
Line(s, w, r) == [i \in 1..w |-> L2(s, r * w + i - 1)]

(* Templates whose rows go to the SPUs in equal shares: a remainder gets no SPU. *)
Shared(h) == Spus * (h \div Spus)

(* Elementwise; the generic two take HEIGHT rows of LaneWidth, the others <<w, h>>. *)
unary_intrin1(c, A, fn) == Rows(c[1], LaneWidth, LAMBDA r, i : Fn(fn, L2(A, r * LaneWidth + i)))
binary_intrin1(c, A, B, fn) ==
  Rows(c[1], LaneWidth, LAMBDA r, i : Fn2(fn, L2(A, r * LaneWidth + i), L2(B, r * LaneWidth + i)))
unary_sqr(c, A) == Rows(c[2], c[1], LAMBDA r, i : Fn("SQR", L2(A, r * c[1] + i)))
unary_ceil(c, A) == Rows(c[2], c[1], LAMBDA r, i : Fn("CEIL", L2(A, r * c[1] + i)))
unary_expm1(c, A) == Rows(Shared(c[2]), c[1], LAMBDA r, i : Fn("EXPM1", L2(A, r * c[1] + i)))
unary_scale(c, A, B) == Rows(c[2], c[1], LAMBDA r, i : L2(A, r * c[1] + i) * L2(B, 0))
unary_clamp(c, A, B) ==
  Rows(c[2], c[1], LAMBDA r, i : Max({Min({L2(A, r * c[1] + i), L2(B, 1)}), L2(B, 0)}))

(* Row by row, <<w, h, ...>>; a sum is stored with the rest of its bus word. *)
unary_sum_rows(c, A) == Rows(c[2], 1, LAMBDA r, i : Total(Line(A, c[1], r)))
unary_mean(c, A) == Rows(Shared(c[2]), 1, LAMBDA r, i : Total(Line(A, c[1], r)) * c[3])
unary_norm(c, A) == Rows(c[2], c[1], LAMBDA r, i : Normal(Line(A, c[1], r), i + 1, c[3]))
unary_group_norm(c, A) ==
  Rows(1, c[1] * c[2], LAMBDA r, i : Normal(Line(A, c[1] * c[2], 0), i + 1, c[3]))
unary_sum(c, A) == <<Total(Line(A, c[1] * c[2], 0))>> \o Zeros(Bus - 1)

(* The smaller dimension is both the count and the pitch of the rows that unary_tri walks. *)
Kept(type, r, i) ==
  CASE type = 0 -> i >= r
    [] type = 1 -> i > r
    [] type = 2 -> i <= r
    [] type = 3 -> i < r
unary_tri(c, A) ==
  LET n == Min({c[1], c[2]})
  IN Rows(n, n, LAMBDA r, i : IF Kept(c[3], r, i) THEN L2(A, r * n + i) ELSE 0)

(* <<rows, cols, right, bottom>> *)
unary_pad(c, A) ==
  Rows(c[1] + c[4], c[2] + c[3],
       LAMBDA r, i : IF r < c[1] /\ i < c[2] THEN L2(A, r * c[2] + i) ELSE 0)

(* <<row length, rows>>, then <<cols, rows>> and <<1, a's channels, b's, rows, cols>>. *)
unary_cont(c, A) == Rows(c[2], c[1], LAMBDA r, i : L2(A, r * c[1] + i))
unary_concat(c, A, B) ==
  Rows(c[2], 2 * c[1],
       LAMBDA r, i : IF i < c[1] THEN L2(A, r * c[1] + i) ELSE L2(B, r * c[1] + i - c[1]))
unary_concat_channel(c, A, B) ==
  LET plane == c[4] * c[5]
  IN Rows(c[2] + c[3], plane,
          LAMBDA r, i : IF r < c[2] THEN L2(A, r * plane + i) ELSE L2(B, (r - c[2]) * plane + i))

(* The four source dimensions, then the four of the result, whose rows are r. *)
unary_repeat(c, A) ==
  LET Plane(r) == (r \div (c[6] * c[7])) % c[4]
      Sheet(r) == ((r \div c[6]) % c[7]) % c[3]
  IN Rows(c[6] * c[7] * c[8], c[5],
          LAMBDA r, i : L2(A, ((Plane(r) * c[3] + Sheet(r)) * c[2] + ((r % c[6]) % c[2])) * c[1]
                              + (i % c[1])))
unary_arange(c) == Rows(c[1], c[2], LAMBDA r, i : r * c[2] + i)

(* <<h, w, out h, out w, window h, window w, stride h, stride w>> and 1/(window). *)
PoolLine(c, A, r, i) ==
  Rows(c[5], c[6], LAMBDA y, x : L2(A, (r * c[7] + y) * c[2] + i * c[8] + x))
unary_pool_2d_max(c, A) == Rows(c[3], c[4], LAMBDA r, i : Greatest(PoolLine(c, A, r, i)))
unary_pool_2d_avg(c, A) == Rows(c[3], c[4], LAMBDA r, i : Total(PoolLine(c, A, r, i)) * c[9])

(* <<h, w, kernel h, kernel w>>; the kernel is the first operand. *)
unary_conv_2d(c, A, B) ==
  Rows(c[1] - c[3] + 1, c[2] - c[4] + 1,
       LAMBDA r, i : Total(Rows(c[3], c[4], LAMBDA y, x :
                                  L2(A, y * c[4] + x) * L2(B, (r + y) * c[2] + i + x))))

(* <<h, w, kernel h, kernel w, stride>>: OUT_W and OUT_H are those of a stride of one. *)
unary_im2col(c, B) ==
  LET ow == c[2] - c[4] + 1
  IN Rows(ow * (c[1] - c[3] + 1), c[3] * c[4],
          LAMBDA p, i : L2(B, ((p \div ow) * c[5] + (i \div c[4])) * c[2]
                              + ((p % ow) * c[5]) + (i % c[4])))

(* The same after the channels, with the output size that the stride gives. *)
unary_im2col_multich(c, B) ==
  LET ow == (c[3] - c[5]) \div c[6] + 1
      oh == (c[2] - c[4]) \div c[6] + 1
  IN Rows(ow * oh, c[1] * c[4] * c[5],
          LAMBDA p, i : L2(B, (i \div (c[4] * c[5])) * c[2] * c[3]
                              + ((p \div ow) * c[6] + ((i \div c[5]) % c[4])) * c[3]
                              + ((p % ow) * c[6]) + (i % c[5])))

(* <<rows of A, common length, rows of B>> *)
mul_mat(c, A, B) == Rows(c[1], c[3], LAMBDA r, i : Dot(Line(A, c[2], r), Line(B, c[2], i)))

(* What a kernel leaves at the result address. *)
Kernel(t, A, B) ==
  CASE t.tpl = "unary_intrin1"        -> unary_intrin1(t.c, A, t.name)
    [] t.tpl = "binary_intrin1"       -> binary_intrin1(t.c, A, B, t.name)
    [] t.tpl = "unary_sqr"            -> unary_sqr(t.c, A)
    [] t.tpl = "unary_ceil"           -> unary_ceil(t.c, A)
    [] t.tpl = "unary_expm1"          -> unary_expm1(t.c, A)
    [] t.tpl = "unary_scale"          -> unary_scale(t.c, A, B)
    [] t.tpl = "unary_clamp"          -> unary_clamp(t.c, A, B)
    [] t.tpl = "unary_sum_rows"       -> unary_sum_rows(t.c, A)
    [] t.tpl = "unary_mean"           -> unary_mean(t.c, A)
    [] t.tpl = "unary_norm"           -> unary_norm(t.c, A)
    [] t.tpl = "unary_group_norm"     -> unary_group_norm(t.c, A)
    [] t.tpl = "unary_sum"            -> unary_sum(t.c, A)
    [] t.tpl = "unary_tri"            -> unary_tri(t.c, A)
    [] t.tpl = "unary_pad"            -> unary_pad(t.c, A)
    [] t.tpl = "unary_cont"           -> unary_cont(t.c, A)
    [] t.tpl = "unary_concat"         -> unary_concat(t.c, A, B)
    [] t.tpl = "unary_concat_channel" -> unary_concat_channel(t.c, A, B)
    [] t.tpl = "unary_repeat"         -> unary_repeat(t.c, A)
    [] t.tpl = "unary_arange"         -> unary_arange(t.c)
    [] t.tpl = "unary_pool_2d_max"    -> unary_pool_2d_max(t.c, A)
    [] t.tpl = "unary_pool_2d_avg"    -> unary_pool_2d_avg(t.c, A)
    [] t.tpl = "unary_conv_2d"        -> unary_conv_2d(t.c, A, B)
    [] t.tpl = "unary_im2col"         -> unary_im2col(t.c, B)
    [] t.tpl = "unary_im2col_multich" -> unary_im2col_multich(t.c, B)
    [] t.tpl = "mul_mat"              -> mul_mat(t.c, A, B)

(* _run_pyspike: the kernel that the cache holds, on the operands of this call. *)
RunPyspike(text, call) ==
  LET stored == Kernel(text, LoadHex(WriteHexSection(call.a)), LoadHex(WriteHexSection(call.b)))
  IN DecodeHex(SaveHex(stored, call.dump), call.dump)
================================================================================
