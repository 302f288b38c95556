------------------------------ MODULE MCRpcServer ------------------------------
(***************************************************************************)
(* A small instance of RpcServer for TLC: buffers of one and three bytes   *)
(* where pointers advance by two, so that an alignment, a size and a       *)
(* length each make a difference.                                          *)
(***************************************************************************)
EXTENDS RpcServer, TLC

CONSTANTS s1, s2

(* One client allocates, frees, reads and lets the server write; the other one frees the
   same buffers and writes to them itself. *)
MemoryClients ==
  s1 :> {"HELLO", "ALLOC_BUFFER", "FREE_BUFFER", "GET_TENSOR", "COPY_TENSOR", "BUFFER_GET_BASE",
         "GET_DEVICE_MEMORY", "GRAPH_COMPUTE", "GRAPH_RECOMPUTE", Undecodable} @@
  s2 :> {"HELLO", "FREE_BUFFER", "SET_TENSOR"}
MemoryGraphs(T) == {<<[src |-> t, dst |-> t, key |-> NoKey]>> : t \in T}

(* One client computes in its buffer, the other clears and frees it, and computes there too: a graph
   that has failed at its first node when it comes to the one that needs a kernel. *)
GraphClients == s1 :> {"HELLO", "ALLOC_BUFFER", "GRAPH_COMPUTE"} @@
                s2 :> {"HELLO", "FREE_BUFFER", "BUFFER_CLEAR", "GRAPH_COMPUTE"}
KernelGraphs(T) == {<<Missing, n>> : n \in [src : T, dst : T, key : Keys]}
================================================================================
