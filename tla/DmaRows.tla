------------------------------- MODULE DmaRows -------------------------------
(***************************************************************************)
(* Row-by-row block transfers between the flat memories of the GTX NPU.    *)
(*                                                                         *)
(* A memory is a function from addresses to values.  One address is one    *)
(* element: the byte widths of the external (L2, DDR) and the on-chip (L1) *)
(* element types are abstracted, because every transfer moves whole        *)
(* elements.  A row is a record [d, s, n]: n elements from source address  *)
(* s to destination address d.                                             *)
(***************************************************************************)
EXTENDS Integers, Sequences, SequencesExt

(* The h rows of a strided 2D transfer, first row first. *)
Grid(d0, dstride, s0, sstride, h, len) ==
  [i \in 1..h |-> [d |-> d0 + (i - 1) * dstride,
                   s |-> s0 + (i - 1) * sstride,
                   n |-> len]]

(* dst after one row has been copied into it from src. *)
PutRow(dst, src, r) ==
  [a \in DOMAIN dst |->
     IF a \in r.d .. (r.d + r.n - 1) THEN src[r.s + (a - r.d)] ELSE dst[a]]

(* Rows copied in order from another memory: where they overlap, the last row wins. *)
CopyRows(dst, src, rows) ==
  FoldLeft(LAMBDA m, r : PutRow(m, src, r), dst, rows)

(* Rows copied in order within one memory: a row reads what earlier rows wrote. *)
MoveRows(mem, rows) ==
  FoldLeft(LAMBDA m, r : PutRow(m, m, r), mem, rows)

(* n elements moved at once within one memory, both windows wrapping round its end. *)
MoveWrapped(mem, d, s, n) ==
  LET size == Cardinality(DOMAIN mem)
      offsets(a) == {o \in 0 .. (n - 1) : (d + o) % size = a}
  IN [a \in DOMAIN mem |->
        IF offsets(a) = {} THEN mem[a] ELSE mem[(s + Max(offsets(a))) % size]]

(* The addresses of the rows' sources and of their destinations. *)
SourceCells(rows) == UNION {rows[i].s .. (rows[i].s + rows[i].n - 1) : i \in DOMAIN rows}
TargetCells(rows) == UNION {rows[i].d .. (rows[i].d + rows[i].n - 1) : i \in DOMAIN rows}
=============================================================================
