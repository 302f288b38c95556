------------------------------ MODULE MCGraphRoute ------------------------------
(***************************************************************************)
(* Instances for GraphRoute: F16 data at 0..31, F32 data at 32..55 (each   *)
(* element followed by its second halfword), results from 56 on.           *)
(***************************************************************************)
EXTENDS GraphRoute

MCImage ==
  [i \in 0..95 |-> IF i \in 56..95 THEN 0
                   ELSE IF i \in 32..55 /\ i % 2 = 1 THEN Low ELSE ((i * 7) % 11) - 3]

Strided(type, ne, nb, data) == [type |-> type, ne |-> ne, nb |-> nb, data |-> data]
Tensor(type, ne, data) ==
  Strided(type, ne, [d \in 1..4 |-> Width(type) * Stride(ne, d)], data)
H(ne, data) == Tensor("F16", ne, data)
F(ne, data) == Tensor("F32", ne, data)
DstH(ne) == H(ne, 56)
DstF(ne) == F(ne, 56)
Params(p) == [i \in 1..7 |-> IF i \in DOMAIN p THEN p[i] ELSE 0]
Node(op, p, src, dst) == [op |-> op, sub |-> "", p |-> Params(p), src |-> src, dst |-> dst]
Unary(sub, src, dst) == [Node("UNARY", <<>>, <<src>>, dst) EXCEPT !.sub = sub]

Vec(n) == <<n, 1, 1, 1>>
Mat(w, h) == <<w, h, 1, 1>>
Scalar == Vec(1)
X == H(Mat(4, 2), 0)
Y == H(Mat(4, 2), 8)
XF == F(Mat(4, 2), 32)
Transposed == Strided("F16", Mat(2, 3), <<3, 1, 6, 6>>, 0)
Gapped == Strided("F16", Mat(2, 2), <<1, 3, 6, 6>>, 0)
Quantized == Tensor("Q4_0", Vec(4), 0)
Absent == Tensor(Missing, Vec(4), 0)

ElementNodes ==
  {Unary(sub, X, DstH(X.ne)) : sub \in {"ABS", "RELU", "SILU", "ELU", "no such function", "CEIL", "EXPM1"}}
  \cup {Unary("NEG", XF, DstF(X.ne)), Unary("STEP", X, X), Unary("TANH", H(Vec(6), 56), H(Vec(6), 0)),
        Unary("SGN", H(Vec(3), 0), DstF(Vec(3))), Unary("EXPM1", H(Vec(4), 0), DstH(Vec(4))),
        Unary("ABS", Quantized, DstH(Vec(4))), Unary("ABS", Absent, DstH(Vec(4))),
        Unary("ABS", X, Tensor("I32", X.ne, 56))}
  \cup {Node("ADD", <<>>, <<X, Y>>, DstH(X.ne)),
        Node("SUB", <<>>, <<X, Y>>, X),
        Node("MUL", <<>>, <<XF, H(Vec(4), 8)>>, DstF(X.ne)),
        Node("DIV", <<>>, <<X, H(Mat(1, 2), 8)>>, DstH(X.ne)),
        Node("ACC", <<>>, <<X, F(Scalar, 32)>>, DstH(X.ne)),
        Node("ADD", <<>>, <<X, H(Mat(3, 2), 8)>>, DstH(X.ne)),
        Node("SQRT", <<>>, <<XF>>, DstH(X.ne)),
        Node("LOG", <<>>, <<X>>, DstH(X.ne)),
        Node("ADD1", <<>>, <<X, H(Scalar, 9)>>, DstH(X.ne)),
        Node("GLU", <<>>, <<X>>, DstH(Mat(2, 2))),
        Node("GLU", <<>>, <<H(Mat(3, 2), 0)>>, DstH(Mat(2, 2))),
        Node("GLU", <<>>, <<H(Vec(5), 0)>>, DstH(Vec(2))),
        Node("LEAKY_RELU", <<2>>, <<X>>, DstH(X.ne)),
        Node("FILL", <<5>>, <<X>>, DstF(Vec(3)))}

RowNodes ==
  {Node("SQR", <<>>, <<X>>, DstH(X.ne)), Node("SQR", <<>>, <<XF>>, DstF(X.ne)),
   Node("SUM_ROWS", <<>>, <<X>>, DstH(Mat(1, 2))),
   Node("NORM", <<1>>, <<X>>, DstH(X.ne)), Node("NORM", <<2>>, <<X>>, DstH(X.ne)),
   Node("GROUP_NORM", <<1, 1>>, <<H(Vec(4), 0)>>, DstH(Vec(4))),
   Node("GROUP_NORM", <<2, 1>>, <<H(Vec(4), 0)>>, DstH(Vec(4))),
   Node("SCALE", <<2, 0>>, <<X>>, X), Node("SCALE", <<2, 1>>, <<X>>, DstH(X.ne)),
   Node("SCALE", <<3, 0>>, <<H(Vec(2), 0)>>, DstH(Vec(2))),
   Node("CLAMP", <<-1, 3>>, <<X>>, DstH(X.ne)),
   Node("MEAN", <<>>, <<X>>, DstH(Mat(1, 2))),
   Node("MEAN", <<>>, <<H(Mat(4, 3), 0)>>, DstH(Mat(1, 3))),
   Node("SUM", <<>>, <<H(Mat(3, 2), 0)>>, DstH(Scalar)),
   Node("ARGMAX", <<>>, <<X>>, Tensor("I32", Vec(2), 56)),
   Node("SOFT_MAX", <<2>>, <<X>>, DstH(X.ne)),
   Node("SOFT_MAX", <<1>>, <<X, Y>>, DstH(X.ne)),
   Node("COUNT_EQUAL", <<>>, <<X, Y>>, Tensor("I32", Scalar, 56)),
   Node("GROUP_NORM", <<0, 1>>, <<X>>, DstH(X.ne)),
   Node("L2_NORM", <<1>>, <<X>>, DstH(X.ne))}
  \cup {Node("TRI", <<type>>, <<H(Mat(3, 3), 0)>>, DstH(Mat(3, 3))) : type \in 0..4}

MoveNodes ==
  {Node("PAD", <<1, 2, 0, 0>>, <<H(Mat(3, 2), 0)>>, DstH(Mat(4, 4))),
   Node("PAD", <<0, 1, 0, 1>>, <<H(<<2, 2, 1, 2>>, 0)>>, DstH(<<2, 3, 1, 3>>)),
   Node("REPEAT", <<>>, <<H(<<2, 1, 2, 1>>, 0)>>, DstH(<<4, 2, 2, 1>>)),
   Node("REPEAT", <<>>, <<H(Mat(2, 2), 0)>>, DstH(<<4, 2, 3, 1>>)),
   Node("CONT", <<>>, <<X>>, DstH(X.ne)), Node("CONT", <<>>, <<Transposed>>, DstH(Mat(2, 3))),
   Node("DUP", <<>>, <<XF>>, DstF(X.ne)), Node("CPY", <<>>, <<XF>>, DstH(X.ne)),
   Node("UPSCALE", <<0>>, <<H(Mat(2, 2), 0)>>, DstF(Mat(4, 4))),
   Node("UPSCALE", <<0>>, <<Gapped>>, DstH(Mat(4, 2))),
   Node("UPSCALE", <<1>>, <<H(Mat(2, 2), 0)>>, DstH(Mat(4, 2))),
   Node("CONCAT", <<0>>, <<H(Mat(3, 2), 0), F(Mat(3, 2), 32)>>, DstH(Mat(6, 2))),
   Node("CONCAT", <<0>>, <<X, H(Mat(2, 2), 8)>>, DstH(Mat(6, 2))),
   Node("CONCAT", <<1>>, <<X, H(Mat(4, 1), 8)>>, DstH(Mat(4, 3))),
   Node("CONCAT", <<2>>, <<H(<<2, 1, 2, 1>>, 0), H(<<2, 1, 3, 1>>, 8)>>, DstF(<<2, 1, 5, 1>>)),
   Node("ARANGE", <<0, 6, 1>>, <<>>, DstH(Vec(6))), Node("ARANGE", <<0, 6, 2>>, <<>>, DstH(Vec(3))),
   Node("GET_ROWS", <<>>, <<X, Tensor("I32", Vec(1), 36)>>, DstH(Vec(4))),
   Node("GET_ROWS", <<>>, <<X, Tensor("I32", Vec(1), 38)>>, DstH(Vec(4))),
   Node("CONCAT", <<-1>>, <<X, Y>>, DstH(<<4, 4, 1, 1>>)),
   Node("PAD", <<0, 0, 0, -1>>, <<X>>, DstH(Mat(4, 1))),
   Node("REPEAT", <<>>, <<H(<<1, 2, 2, 1>>, 0)>>, DstF(Mat(2, 2))),
   Node("GET_ROWS", <<>>, <<H(<<2, 2, 2, 1>>, 0), Tensor("I32", Vec(1), 36)>>, DstH(<<2, 2, 1, 1>>)),
   Node("DIAG_MASK_ZERO", <<0>>, <<H(Vec(3), 0)>>, DstH(Mat(3, 3))),
   Node("DIAG_MASK_INF", <<0>>, <<H(Mat(3, 3), 0)>>, DstH(Mat(3, 3))),
   Node("DIAG_MASK_ZERO", <<1>>, <<H(Mat(3, 3), 0)>>, DstH(Mat(3, 3))),
   Node("RESHAPE", <<>>, <<X>>, H(Mat(2, 4), 0))}

WindowNodes ==
  {Node("POOL_2D", <<op, 2, 2, 2, 1, 0, 0>>, <<H(Mat(5, 3), 0)>>, DstH(Mat(2, 2))) : op \in {0, 1}}
  \cup
  {Node("POOL_2D", <<1, 1, 3, 2, 1, 0, 0>>, <<H(Mat(5, 3), 0)>>, DstH(Mat(3, 1))),
   Node("POOL_2D", <<0, 2, 2, 1, 1, 1, 0>>, <<H(<<3, 2, 2, 1>>, 0)>>, DstH(<<4, 1, 2, 1>>)),
   Node("CONV_2D", <<1, 1, 0, 0, 1, 1>>, <<H(Mat(2, 2), 0), H(Mat(4, 3), 4)>>, DstH(Mat(3, 2))),
   Node("CONV_2D", <<2, 1, 0, 0, 1, 1>>, <<H(Mat(2, 2), 0), H(Mat(4, 3), 4)>>, DstH(Mat(2, 2))),
   Node("CONV_2D_DW", <<1, 1, 0, 0, 1, 1>>, <<H(<<2, 1, 1, 2>>, 0), H(<<3, 1, 2, 1>>, 4)>>,
        DstH(<<2, 1, 2, 1>>)),
   Node("CONV_2D_DW", <<1, 1, 0, 0, 1, 1>>, <<H(<<2, 1, 2, 1>>, 0), H(<<3, 1, 2, 1>>, 4)>>,
        DstH(<<2, 1, 2, 1>>)),
   Node("CONV_2D", <<1, 1, 1, 0, 1, 1>>, <<H(<<2, 1, 1, 2>>, 0), H(<<2, 1, 2, 2>>, 4)>>,
        DstH(<<3, 1, 2, 2>>)),
   Node("CONV_2D", <<0, 1, 0, 0, 1, 1>>, <<H(Mat(2, 2), 0), H(Mat(4, 3), 4)>>, DstH(Mat(3, 2))),
   Node("IM2COL", <<1, 1, 0, 0, 1, 1, 1>>, <<H(<<2, 1, 1, 2>>, 0), H(<<2, 1, 1, 2>>, 4)>>,
        DstH(<<2, 1, 1, 2>>)),
   Node("POOL_2D", <<0, 2, 1, 1, 1, 0, 0>>, <<H(<<3, 1, 1, 2>>, 0)>>, DstH(<<2, 1, 1, 2>>)),
   Node("POOL_2D", <<0, 0, 1, 1, 1, 0, 0>>, <<H(<<3, 1, 1, 2>>, 0)>>, DstH(<<4, 1, 1, 2>>)),
   Node("IM2COL", <<1, 1, 0, 0, 1, 1, 1>>, <<H(Mat(2, 2), 0), F(Mat(4, 3), 32)>>, DstH(<<4, 3, 2, 1>>)),
   Node("IM2COL", <<2, 2, 0, 0, 1, 1, 1>>, <<H(<<2, 1, 2, 1>>, 0), H(<<4, 3, 2, 1>>, 0)>>,
        DstH(<<4, 2, 2, 1>>)),
   Node("IM2COL", <<1, 1, 1, 0, 1, 1, 1>>, <<H(Mat(2, 2), 0), H(Mat(3, 2), 4)>>, DstH(<<4, 4, 1, 1>>)),
   Node("IM2COL", <<1, 1, 0, 0, 1, 1, 0>>, <<H(Mat(2, 2), 0), H(Mat(3, 2), 4)>>, DstH(Mat(4, 2)))}

MatNodes ==
  {Node("MUL_MAT", <<>>, <<H(Mat(2, 3), 0), H(Mat(2, 3), 8)>>, DstH(Mat(3, 3))),
   Node("MUL_MAT", <<>>, <<H(Mat(4, 2), 0), F(Mat(4, 1), 32)>>, DstF(Vec(2))),
   Node("MUL_MAT", <<>>, <<H(Mat(3, 2), 0), H(Mat(3, 2), 8)>>, DstH(Mat(2, 2))),
   Node("MUL_MAT", <<>>, <<Gapped, H(Mat(2, 2), 8)>>, DstH(Mat(2, 2))),
   Node("MUL_MAT", <<>>, <<H(<<2, 2, 1, 1>>, 0), H(<<2, 2, 2, 1>>, 8)>>, DstH(<<2, 2, 2, 1>>)),
   Node("MUL_MAT", <<>>, <<H(<<2, 2, 2, 1>>, 0), H(Vec(2), 8)>>, DstH(<<2, 2, 1, 1>>)),
   Node("OUT_PROD", <<>>, <<H(Mat(2, 2), 0), H(Mat(3, 1), 8)>>, DstH(<<2, 3, 2, 1>>))}

(* A graph may name fewer sources than the operator reads. *)
SourcelessNodes ==
  {Node("SQR", <<>>, <<>>, DstH(X.ne)), Node("CONT", <<>>, <<>>, DstH(X.ne)),
   Node("ADD", <<>>, <<X>>, DstH(X.ne))}

(* Nor does a tensor have to hold an element. *)
Empty == H(Mat(0, 2), 0)
EmptyNodes ==
  {Node("SQR", <<>>, <<Empty>>, DstH(Empty.ne)), Node("CONT", <<>>, <<Empty>>, DstH(Empty.ne)),
   Node("ARGMAX", <<>>, <<Empty>>, DstH(Vec(2))), Node("SOFT_MAX", <<1>>, <<Empty>>, DstH(Empty.ne)),
   Node("ADD", <<>>, <<Empty, H(Mat(1, 2), 0)>>, DstH(Empty.ne)),
   Node("MUL_MAT", <<>>, <<H(<<2, 1, 0, 1>>, 0), H(<<2, 1, 1, 1>>, 8)>>, DstH(<<1, 1, 0, 1>>)),
   Node("REPEAT", <<>>, <<Empty>>, DstH(Mat(4, 2))), Node("UPSCALE", <<0>>, <<Empty>>, DstH(Mat(4, 4)))}

ASSUME GraphsComputable
ASSUME OperandsInside

MCNodes ==
  SourcelessNodes \cup EmptyNodes \cup ElementNodes \cup RowNodes \cup MoveNodes \cup WindowNodes \cup MatNodes

(* One channel, a stride of two. *)
MCStridedPatch ==
  {Node("IM2COL", <<2, 2, 0, 0, 1, 1, 1>>, <<H(Mat(2, 2), 0), H(Mat(6, 4), 0)>>, DstH(<<4, 3, 2, 1>>))}
  \cup MatNodes \cup WindowNodes
================================================================================
