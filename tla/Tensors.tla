-------------------------------- MODULE Tensors --------------------------------
(***************************************************************************)
(* The tensors of the ggml RPC server and the NumPy views on them          *)
(* (examples/ggml-rpc-server/ddr_backend.py).  Memory is a function from   *)
(* addresses to halfwords: an fp16 element is one halfword, a 32-bit       *)
(* element is two, of which the first carries the value here.  An array is *)
(* a shape in ggml's order (ne[1] innermost), as long as NumPy's ndim, and *)
(* its elements in row-major order.                                        *)
(***************************************************************************)
EXTENDS Integers, Sequences, SequencesExt, FiniteSetsExt

(******************************* arrays **********************************)

Total(s) == FoldLeft(LAMBDA x, y : x + y, 0, s)
Elems(ne) == FoldLeft(LAMBDA x, y : x * y, 1, ne)
Stride(ne, d) == Elems(SubSeq(ne, 1, d - 1))

(* The coordinates of the n-th element, and the position of an element. *)
Coord(ne, n) == [d \in DOMAIN ne |-> (n \div Stride(ne, d)) % ne[d]]
Offset(strides, c) == Total([d \in DOMAIN c |-> c[d] * strides[d]])
At(a, c) == a.v[1 + Offset([d \in DOMAIN a.ne |-> Stride(a.ne, d)], c)]

Array(ne, F(_)) == [ne |-> ne, v |-> [n \in 1..Elems(ne) |-> F(Coord(ne, n - 1))]]
Each(a, F(_)) == [a EXCEPT !.v = [n \in DOMAIN @ |-> F(@[n])]]
Row(a, c) == [i \in 1..a.ne[1] |-> At(a, [c EXCEPT ![1] = i - 1])]
EachRow(a, F(_)) == Array([a.ne EXCEPT ![1] = 1], LAMBDA c : F(Row(a, c)))
Reshaped(a, ne) == [a EXCEPT !.ne = ne]

(* NumPy's broadcast of two operands, aligned at the innermost dimension. *)
Dim(ne, d) == IF d \in DOMAIN ne THEN ne[d] ELSE 1
Broadcastable(x, y) == \A d \in DOMAIN x \cap DOMAIN y : x[d] = y[d] \/ x[d] = 1 \/ y[d] = 1
Broadened(x, y) ==
  [d \in DOMAIN x \cup DOMAIN y |-> IF Dim(x, d) = 1 THEN Dim(y, d) ELSE Dim(x, d)]
Clipped(ne, c) == [d \in DOMAIN ne |-> IF ne[d] = 1 THEN 0 ELSE c[d]]
Broadcast(a, b, F(_, _)) ==
  Array(Broadened(a.ne, b.ne),
        LAMBDA c : F(At(a, Clipped(a.ne, c)), At(b, Clipped(b.ne, c))))

(****************************** tensors **********************************)

(* The types with a NumPy dtype; a tensor of another type is a quantized one, or, under the
   type Missing, an id that is not in the tensor table of the graph. *)
NumPyTypes == {"F16", "F32", "I32"}
Missing == "missing"
Width(type) == IF type = "F16" THEN 1 ELSE 2

(* The second halfword of a 32-bit element. *)
Low == 9999
Encode(type, v) ==
  IF Width(type) = 1 THEN v
  ELSE [i \in 1..(2 * Len(v)) |-> IF i % 2 = 1 THEN v[(i + 1) \div 2] ELSE Low]

NDim(t) == Max({1} \cup {d \in 1..4 : t.ne[d] # 1})
Shape(t) == SubSeq(t.ne, 1, NDim(t))

(* tensor_nbytes: it bounds the memory that a view or a permuted tensor spans. *)
Span(t) == Max({0} \cup {t.nb[d] * t.ne[d] : d \in 1..4})
Extent(t) == t.data .. t.data + Span(t) - 1

IsContiguous(t, ndim) ==
  /\ t.nb[1] = Width(t.type)
  /\ \A d \in 2..ndim : t.nb[d] = t.nb[d - 1] * t.ne[d - 1]

View(t, m) == Array(Shape(t), LAMBDA c : m[t.data + Offset(t.nb, c)])

(* The span of a tensor in memory order, whatever its strides are. *)
Raw(t, m) == [i \in 1..Span(t) |-> m[t.data + i - 1]]
Flat(t, m) == [i \in 1..(Span(t) \div Width(t.type)) |-> m[t.data + Width(t.type) * (i - 1)]]

(* A slice assignment of a bytearray that keeps its length. *)
Store(m, at, units) ==
  [i \in DOMAIN m |-> IF i \in at .. at + Len(units) - 1 THEN units[i - at + 1] ELSE m[i]]

(******************************* outcomes ********************************)

(* What a step of the NumPy backend ends with: a value, nothing to write, or an exception. *)
Ok(x) == [is |-> "ok", x |-> x]
Nothing == [is |-> "nop", x |-> <<>>]
NotImplemented == [is |-> "unsupported", x |-> <<>>]
Raises == [is |-> "errored", x |-> <<>>]
Unless(cond, r) == IF cond THEN Raises ELSE r

(* _resolve_srcs: views of the sources, or the first exception. *)
ResolveSrcs(src, m) ==
  LET Bad == {i \in DOMAIN src : src[i].type \notin NumPyTypes}
  IN IF Bad = {} THEN Ok([i \in DOMAIN src |-> View(src[i], m)])
     ELSE IF src[Min(Bad)].type = Missing THEN Raises ELSE NotImplemented

(* write_tensor: only contiguous destinations; an array of another shape is reshaped if it
   has as many elements. *)
WriteTensor(t, m, a) ==
  IF t.type \notin NumPyTypes \/ ~IsContiguous(t, NDim(t)) THEN NotImplemented
  ELSE Unless(Elems(a.ne) # Elems(t.ne), Ok(Store(m, t.data, Encode(t.type, a.v))))
================================================================================
