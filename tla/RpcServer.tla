------------------------------- MODULE RpcServer -------------------------------
(***************************************************************************)
(* The ggml RPC server of examples/ggml-rpc-server: one thread per         *)
(* connection, all on one table of device buffers and one directory of     *)
(* compiled kernels.  A client computes the address of a tensor from the   *)
(* pointer it was given, so a tensor carries here, as a ghost, the buffer  *)
(* it was computed from (home).  What an operator computes is left open:   *)
(* a node of a graph yields some bytes, or fails.                          *)
(***************************************************************************)
EXTENDS KernelCache, Integers, Sequences, FiniteSetsExt

CONSTANTS Val,          \* bytes
          Sizes,        \* what clients ask for: sizes of buffers,
          Offsets,      \*   offsets of tensors in them,
          Skips,        \*   offsets into tensors,
          Lengths,      \*   and lengths of what is read or written there
          Devices,      \* the device indices clients use, of which the server has 0
          Cmds,         \* the commands the client of each session sends
          Graphs(_),    \* the graphs over a set of tensors that clients send
          Alignment,    \* DEFAULT_ALIGNMENT
          Tidy,         \* the pointer granularity of alloc, 8 in the code
          FirstPtr,     \* the first pointer of a device
          UsePyspike,   \* RPC_USE_PYSPIKE
          MaxPtr,       \* bound: clients stop allocating at this pointer
          MaxInFlight   \* bound: requests sent and not yet received

ASSUME AllocAssumption ==
  /\ Sizes \subseteq Nat /\ Offsets \subseteq Nat /\ Skips \subseteq Nat /\ Lengths \subseteq Nat
  /\ Alignment \in Nat \ {0} /\ Tidy \in Nat \ {0}
  /\ FirstPtr \in Nat /\ FirstPtr % Tidy = 0

VARIABLES buffers,      \* DeviceMemory.buffers: pointer |-> the bytearray behind it, and its size
          nextPtr,      \* _next_ptr
          allocated,    \* bytes in use, as the server counts them
          issued,       \* history: every pointer ever handed out, with its size
          inbox,        \* requests on their way to each session
          outbox,       \* responses on their way to each client, by command
          awaiting,     \* the command each client waits for, if any
          hung,         \* the client has closed its end
          thr           \* each session's thread

memVars == <<buffers, nextPtr, allocated, issued>>
connVars == <<inbox, outbox, awaiting, hung>>
vars == <<memVars, connVars, thr, kernelVars>>

(****************************** wire protocol ******************************)

(* wire_protocol.ONE_WAY: a request whose sender does not wait. *)
ONE_WAY == {"SET_TENSOR", "GRAPH_COMPUTE", "GRAPH_RECOMPUTE"}

(* Requests the server answers whatever they ask: sizes it knows, tensors it initialises
   later, hashes its empty cache never holds, and HELLO, which has no handler. *)
PlainCmds == {"HELLO", "DEVICE_COUNT", "GET_ALIGNMENT", "GET_MAX_SIZE", "INIT_TENSOR",
              "GET_ALLOC_SIZE", "SET_TENSOR_HASH"}

(* A request that names a command unknown here, or whose payload has the size another
   version of the protocol gives it. *)
Undecodable == "undecodable"

(* An rpc_tensor: its address lies off bytes into the buffer home, and it spans len bytes. *)
Tensors(P) == [home : P, off : Offsets, len : Lengths]
data(t) == t.home + t.off

(* What each request carries once its payload is unpacked. *)
Requests(P) ==
  [cmd : PlainCmds \cup {"GRAPH_RECOMPUTE", Undecodable}] \cup
  [cmd : {"GET_DEVICE_MEMORY"}, device : Devices] \cup
  [cmd : {"ALLOC_BUFFER"}, device : Devices, size : Sizes] \cup
  [cmd : {"FREE_BUFFER", "BUFFER_GET_BASE"}, ptr : P] \cup
  [cmd : {"BUFFER_CLEAR"}, ptr : P, value : Val] \cup
  [cmd : {"SET_TENSOR", "GET_TENSOR"}, tensor : Tensors(P), offset : Skips] \cup
  [cmd : {"COPY_TENSOR"}, src : Tensors(P), dst : Tensors(P)] \cup
  [cmd : {"GRAPH_COMPUTE"}, device : Devices, nodes : Graphs(Tensors(P))]

(* A node of a graph that has no entry in the table of tensors sent with it. *)
Missing == [key |-> "missing"]

None == "none"
NoRequest == [cmd |-> None]
Thread(at, req, node, n) == [at |-> at, req |-> req, node |-> node, n |-> n]

Init ==
  /\ buffers = <<>> /\ nextPtr = FirstPtr /\ allocated = 0 /\ issued = {}
  /\ inbox = [s \in Sessions |-> <<>>]
  /\ outbox = [s \in Sessions |-> <<>>]
  /\ awaiting = [s \in Sessions |-> None]
  /\ hung = [s \in Sessions |-> FALSE]
  /\ thr = [s \in Sessions |-> Thread("closed", NoRequest, 0, 0)]
  /\ KernelInit

(********************************* clients *********************************)

(* A connection is accepted: a new session, in a thread of its own. *)
Connect(s) ==
  /\ thr[s].at = "closed"
  /\ thr' = [thr EXCEPT ![s] = Thread("hello", NoRequest, 0, 0)]
  /\ inbox' = [inbox EXCEPT ![s] = <<>>]
  /\ outbox' = [outbox EXCEPT ![s] = <<>>]
  /\ awaiting' = [awaiting EXCEPT ![s] = None]
  /\ hung' = [hung EXCEPT ![s] = FALSE]
  /\ UNCHANGED <<memVars, kernelVars>>

(* A client sends a request over pointers it, or a client it shares them with, was given;
   some may have been freed.  It waits for the answer to a request that has one. *)
Send(s) ==
  /\ thr[s].at # "closed" /\ ~hung[s] /\ awaiting[s] = None
  /\ Len(inbox[s]) < MaxInFlight
  /\ \E r \in Requests({i.ptr : i \in issued}) :
       /\ r.cmd \in Cmds[s] /\ (r.cmd = "ALLOC_BUFFER" => nextPtr < MaxPtr)
       /\ inbox' = [inbox EXCEPT ![s] = Append(@, r)]
       /\ awaiting' = [awaiting EXCEPT ![s] = IF r.cmd \in ONE_WAY \cup {Undecodable} THEN None ELSE r.cmd]
  /\ UNCHANGED <<memVars, outbox, hung, thr, kernelVars>>

Receive(s) ==
  /\ outbox[s] # <<>> /\ ~hung[s]
  /\ outbox' = [outbox EXCEPT ![s] = Tail(@)]
  /\ awaiting' = [awaiting EXCEPT ![s] = None]
  /\ UNCHANGED <<memVars, inbox, hung, thr, kernelVars>>

HangUp(s) ==
  /\ thr[s].at # "closed"
  /\ hung' = [hung EXCEPT ![s] = TRUE]
  /\ UNCHANGED <<memVars, inbox, outbox, awaiting, thr, kernelVars>>

(********************************* sessions ********************************)

(* serve: any exception a handler lets out, and the client's end, close the session. *)
Close(s) ==
  /\ thr' = [thr EXCEPT ![s] = Thread("closed", NoRequest, 0, 0)]
  /\ inbox' = [inbox EXCEPT ![s] = <<>>]
  /\ UNCHANGED <<outbox, awaiting, hung>>

(* The handler returns without a response. *)
Done(s) ==
  /\ thr' = [thr EXCEPT ![s] = Thread("recv", NoRequest, 0, 0)]
  /\ UNCHANGED connVars

(* wp.send_response: sendall to a client that has gone may raise. *)
Respond(s) ==
  \/ /\ ~hung[s]
     /\ thr' = [thr EXCEPT ![s] = Thread("recv", NoRequest, 0, 0)]
     /\ outbox' = [outbox EXCEPT ![s] = Append(@, thr[s].req.cmd)]
     /\ UNCHANGED <<inbox, awaiting, hung>>
  \/ hung[s] /\ (Done(s) \/ Close(s))

Goto(s, at, n) == thr' = [thr EXCEPT ![s] = Thread(at, @.req, @.node, n)] /\ UNCHANGED connVars
Handling(s, cmd) == thr[s].at = "handle" /\ thr[s].req.cmd = cmd

(* recv_request: a request arrives, and is decoded or ends the session. *)
Recv(s) ==
  LET r == Head(inbox[s]) IN
  /\ thr[s].at \in {"hello", "recv"} /\ inbox[s] # <<>>
  /\ \/ /\ r.cmd # Undecodable
        /\ thr[s].at = "hello" => r.cmd = "HELLO"
        /\ thr' = [thr EXCEPT ![s] = Thread("handle", r, 0, 0)]
        /\ inbox' = [inbox EXCEPT ![s] = Tail(@)]
        /\ UNCHANGED <<outbox, awaiting, hung>>
     \/ /\ r.cmd = Undecodable \/ (thr[s].at = "hello" /\ r.cmd # "HELLO")
        /\ Close(s)
  /\ UNCHANGED <<memVars, kernelVars>>

(* The socket of a client that hung up delivers what it still holds, or is reset. *)
RecvEnd(s) ==
  /\ thr[s].at \in {"hello", "recv"} /\ hung[s]
  /\ Close(s)
  /\ UNCHANGED <<memVars, kernelVars>>

AnswerPlain(s) ==
  /\ thr[s].at = "handle" /\ thr[s].req.cmd \in PlainCmds
  /\ Respond(s)
  /\ UNCHANGED <<memVars, kernelVars>>

(* self.server.devices[device] raises for a device the server does not have. *)
GetDeviceMemory(s) ==
  /\ Handling(s, "GET_DEVICE_MEMORY")
  /\ IF thr[s].req.device = 0 THEN Respond(s) ELSE Close(s)
  /\ UNCHANGED <<memVars, kernelVars>>

(****************************** device memory ******************************)

Larger(a, b) == IF a >= b THEN a ELSE b
RoundUp(n, m) == ((n + m - 1) \div m) * m

(* Mutants: rounds the next pointer down, or not at all. *)
Advance_RoundsDown(ptr, size) == ((ptr + Larger(size, Alignment)) \div Tidy) * Tidy
Advance_Untidy(ptr, size) == ptr + Larger(size, Alignment)

(* Where the next buffer goes: past this one, and 8-byte aligned. *)
Advance(ptr, size) == RoundUp(ptr + Larger(size, Alignment), Tidy)

Covers(p, addr) == p <= addr /\ addr < p + buffers[p].size
Holders(addr) == {p \in DOMAIN buffers : Covers(p, addr)}

(* buffer_for_data_addr: the first buffer, in the order they were allocated, that holds
   the address. *)
Find(addr) == CHOOSE p \in Holders(addr) : \A q \in Holders(addr) : p <= q
Known(addr) == Holders(addr) # {}

(* The allocation itself, under the lock.  Python may run out of memory for the bytes,
   when the next pointer has already moved. *)
AllocBuffer(s) ==
  LET size == Larger(thr[s].req.size, 1) IN
  /\ Handling(s, "ALLOC_BUFFER")
  /\ \/ /\ thr[s].req.device = 0
        /\ buffers' = [p \in DOMAIN buffers \cup {nextPtr} |->
                         IF p = nextPtr THEN [size |-> size, bytes |-> [i \in 1 .. size |-> 0]]
                         ELSE buffers[p]]
        /\ allocated' = allocated + size
        /\ issued' = issued \cup {[ptr |-> nextPtr, size |-> size]}
        /\ nextPtr' = Advance(nextPtr, size)
        /\ Respond(s)
     \/ /\ thr[s].req.device = 0
        /\ nextPtr' = Advance(nextPtr, size)
        /\ UNCHANGED <<buffers, allocated, issued>>
        /\ Close(s)
     \/ thr[s].req.device # 0 /\ UNCHANGED memVars /\ Close(s)
  /\ UNCHANGED kernelVars

(* Mutant: gets the buffer where it should pop it. *)
Without_Get(ptr) == buffers

Without(ptr) == [p \in DOMAIN buffers \ {ptr} |-> buffers[p]]

(* free: the buffer is popped under the lock; a pointer not in the table is only logged. *)
FreeBuffer(s) ==
  /\ Handling(s, "FREE_BUFFER")
  /\ \/ /\ thr[s].req.ptr \in DOMAIN buffers
        /\ Goto(s, "freed", buffers[thr[s].req.ptr].size)
        /\ buffers' = Without(thr[s].req.ptr)
     \/ /\ thr[s].req.ptr \notin DOMAIN buffers
        /\ Respond(s)
        /\ UNCHANGED buffers
  /\ UNCHANGED <<nextPtr, allocated, issued, kernelVars>>

(* The account is settled after the lock is released. *)
SettleFree(s) ==
  /\ thr[s].at = "freed"
  /\ allocated' = allocated - thr[s].n
  /\ Respond(s)
  /\ UNCHANGED <<buffers, nextPtr, issued, kernelVars>>

BufferGetBase(s) ==
  /\ Handling(s, "BUFFER_GET_BASE")
  /\ IF thr[s].req.ptr \in DOMAIN buffers THEN Respond(s) ELSE Close(s)
  /\ UNCHANGED <<memVars, kernelVars>>

(* Python's slice assignment: bytes written past the end of a bytearray extend it. *)
Splice(old, off, new) ==
  [i \in 1 .. Larger(Len(old), off + Len(new)) |->
     IF off < i /\ i <= off + Len(new) THEN new[i - off] ELSE old[i]]

(* The bytes some way past an address are overwritten, in the buffer that holds it. *)
StoreAt(addr, skip, new) ==
  LET p == Find(addr)
  IN  buffers' = [buffers EXCEPT ![p].bytes = Splice(@, (addr - p) + skip, new)]
Store(addr, new) == StoreAt(addr, 0, new)

(* The bytes from an address to the end of its buffer. *)
Room(addr) == Len(buffers[Find(addr)].bytes) - (addr - Find(addr))

BufferClear(s) ==
  LET p == thr[s].req.ptr IN
  /\ Handling(s, "BUFFER_CLEAR")
  /\ \/ /\ p \in DOMAIN buffers
        /\ buffers' = [buffers EXCEPT ![p].bytes = [i \in 1 .. Len(@) |-> thr[s].req.value]]
        /\ Respond(s)
     \/ p \notin DOMAIN buffers /\ UNCHANGED buffers /\ Close(s)
  /\ UNCHANGED <<nextPtr, allocated, issued, kernelVars>>

(* Mutant: answers the error although its sender does not wait. *)
Overflow_Answers(s) == Respond(s)

Overflow(s) == Done(s)

(* One-way: data that does not fit is dropped, with a log entry. *)
SetTensor(s) ==
  LET t == thr[s].req.tensor
      fits == thr[s].req.offset + t.len <= Room(data(t))
  IN  /\ Handling(s, "SET_TENSOR")
      /\ \/ /\ Known(data(t)) /\ fits
            /\ \E bytes \in [1 .. t.len -> Val] : StoreAt(data(t), thr[s].req.offset, bytes)
            /\ Done(s)
         \/ Known(data(t)) /\ ~fits /\ UNCHANGED buffers /\ Overflow(s)
         \/ ~Known(data(t)) /\ UNCHANGED buffers /\ Close(s)
      /\ UNCHANGED <<nextPtr, allocated, issued, kernelVars>>

(* A range that does not fit is answered with no bytes. *)
GetTensor(s) ==
  /\ Handling(s, "GET_TENSOR")
  /\ IF Known(data(thr[s].req.tensor)) THEN Respond(s) ELSE Close(s)
  /\ UNCHANGED <<memVars, kernelVars>>

(* Mutant: the source and the destination change places. *)
Copy_Swapped(src, dst) == Store(src, SubSeq(buffers[Find(dst)].bytes, dst - Find(dst) + 1, Len(buffers[Find(dst)].bytes)))

(* As many bytes as both buffers hold from there on. *)
Copy(src, dst) ==
  LET from == src - Find(src)
      nbytes == IF Room(src) < Room(dst) THEN Room(src) ELSE Room(dst)
  IN  Store(dst, SubSeq(buffers[Find(src)].bytes, from + 1, from + nbytes))

CopyTensor(s) ==
  LET src == data(thr[s].req.src)
      dst == data(thr[s].req.dst)
  IN  /\ Handling(s, "COPY_TENSOR")
      /\ \/ Known(src) /\ Known(dst) /\ Copy(src, dst) /\ Respond(s)
         \/ ~(Known(src) /\ Known(dst)) /\ UNCHANGED buffers /\ Close(s)
      /\ UNCHANGED <<nextPtr, allocated, issued, kernelVars>>

(********************************** graphs *********************************)

node(s) == thr[s].req.nodes[thr[s].node]

(* The walk goes on, whatever became of the node, and ends without a response. *)
NextNode(s) ==
  /\ thr' = [thr EXCEPT ![s] = IF @.node < Len(@.req.nodes)
                               THEN Thread("node", @.req, @.node + 1, 0)
                               ELSE Thread("recv", NoRequest, 0, 0)]
  /\ UNCHANGED connVars

GraphCompute(s) ==
  /\ Handling(s, "GRAPH_COMPUTE")
  /\ IF thr[s].req.device = 0 THEN NextNode(s) ELSE Close(s)
  /\ UNCHANGED <<memVars, kernelVars>>

GraphRecompute(s) ==
  /\ Handling(s, "GRAPH_RECOMPUTE")
  /\ Done(s)
  /\ UNCHANGED <<memVars, kernelVars>>

(* A node not in the table, or whose sources are not in any buffer, is an error. *)
NodeError(s) ==
  /\ thr[s].at \in {"node", "numpy"}
  /\ node(s) # Missing => ~Known(data(node(s).src))
  /\ NextNode(s)
  /\ UNCHANGED <<memVars, kernelVars>>

(* _try_pyspike: the source is read and a kernel is called with its bytes. *)
NodeSpike(s) ==
  /\ thr[s].at = "node" /\ node(s) # Missing
  /\ UsePyspike /\ node(s).key # NoKey /\ Known(data(node(s).src))
  /\ Goto(s, "kernel", 0)
  /\ CallKernel(s, node(s).key)
  /\ UNCHANGED memVars

(* Without a kernel for it, the node is computed by NumPy. *)
NodeNumpy(s) ==
  /\ thr[s].at = "node" /\ node(s) # Missing
  /\ ~UsePyspike \/ node(s).key = NoKey
  /\ Goto(s, "numpy", 0)
  /\ UNCHANGED <<memVars, kernelVars>>

(* The kernel's dump is as long as the source; a short one that the route cannot reshape
   fails the node.  A runner that raises is caught, and NumPy computes the node. *)
KernelAnswers(s) ==
  /\ thr[s].at = "kernel"
  /\ \/ call[s].at = "ok" /\ (Goto(s, "write", node(s).src.len) \/ NextNode(s))
     \/ call[s].at = "failed" /\ Goto(s, "numpy", 0)
  /\ KernelReturns(s)
  /\ UNCHANGED memVars

(* gc.compute over fresh views of the sources: a result, nothing to do, or an exception. *)
NumpyCompute(s) ==
  /\ thr[s].at = "numpy" /\ Known(data(node(s).src))
  /\ Goto(s, "write", node(s).dst.len) \/ NextNode(s)
  /\ UNCHANGED <<memVars, kernelVars>>

(* Mutant: the destination is looked up outside the handler that contains errors. *)
WriteGone_Raises(s) == Close(s)

(* The destination's buffer was freed while the node was computed: the node fails, on the
   pyspike route as well. *)
WriteGone(s) == NextNode(s)

WriteResult(s) ==
  /\ thr[s].at = "write"
  /\ \/ /\ Known(data(node(s).dst))
        /\ \E bytes \in [1 .. thr[s].n -> Val] : Store(data(node(s).dst), bytes)
        /\ NextNode(s)
     \/ /\ ~Known(data(node(s).dst))
        /\ WriteGone(s)
        /\ UNCHANGED buffers
  /\ UNCHANGED <<nextPtr, allocated, issued, kernelVars>>

(******************************* specification *****************************)

KernelStep(s) == thr[s].at = "kernel" /\ UNCHANGED <<memVars, connVars, thr>>

(* What a session's thread does on its own, the timeouts of its processes included. *)
SessionStep(s) ==
  \/ Recv(s) \/ RecvEnd(s) \/ AnswerPlain(s) \/ GetDeviceMemory(s)
  \/ AllocBuffer(s) \/ FreeBuffer(s) \/ SettleFree(s) \/ BufferGetBase(s) \/ BufferClear(s)
  \/ SetTensor(s) \/ GetTensor(s) \/ CopyTensor(s)
  \/ GraphCompute(s) \/ GraphRecompute(s) \/ NodeError(s) \/ NodeSpike(s) \/ NodeNumpy(s)
  \/ KernelAnswers(s) \/ NumpyCompute(s) \/ WriteResult(s)
  \/ (KernelThread(s) /\ KernelStep(s))

ClientStep(s) == Connect(s) \/ Send(s) \/ Receive(s) \/ HangUp(s)
ToolStep(s) == KernelTools(s) /\ KernelStep(s)
OrphanStep(k) == (OrphanWrites(k) \/ OrphanDies(k)) /\ UNCHANGED <<memVars, connVars, thr>>

Next ==
  \/ \E s \in Sessions : SessionStep(s) \/ ClientStep(s) \/ ToolStep(s)
  \/ \E k \in Keys : OrphanStep(k)

(* Threads run and sleep fairly; clients, compilers and simulators promise nothing. *)
Fairness == \A s \in Sessions : WF_vars(SessionStep(s))

Spec == Init /\ [][Next]_vars
FairSpec == Spec /\ Fairness

(******************************** properties *******************************)

TypeOK ==
  /\ KernelTypeOK
  /\ nextPtr \in Nat /\ allocated \in Int
  /\ issued \subseteq [ptr : {p \in Nat : p % Tidy = 0}, size : Nat \ {0}]
  /\ \A p \in DOMAIN buffers : [ptr |-> p, size |-> buffers[p].size] \in issued
  /\ \A s \in Sessions :
       /\ \A i \in 1 .. Len(inbox[s]) : inbox[s][i] \in Requests({b.ptr : b \in issued})
       /\ thr[s].req \in {NoRequest} \cup Requests({b.ptr : b \in issued})

(* An address that was computed inside a buffer never finds another one: DeviceMemory.alloc
   never hands out bytes it has handed out before, so a tensor of a freed buffer is refused
   by buffer_for_data_addr and not read from, or written to, a newer buffer. *)
AddressesAreOwned ==
  \A i \in issued : \A addr \in i.ptr .. i.ptr + i.size - 1 : Holders(addr) \subseteq {i.ptr}

(* The server's account is the size of the live buffers plus that of the frees whose
   second half, outside the lock, is still to come (free, free_bytes). *)
Accounted ==
  LET freeing == {s \in Sessions : thr[s].at = "freed"}
  IN  allocated = MapThenSumSet(LAMBDA p : buffers[p].size, DOMAIN buffers)
                + MapThenSumSet(LAMBDA s : thr[s].n, freeing)

(* What a client finds in its socket is the answer it waits for: no handler answers a
   one-way command or answers twice, on its error paths too (ONE_WAY, send_response). *)
AnswersMatch ==
  \A s \in Sessions : outbox[s] # <<>> => outbox[s] = <<awaiting[s]>>

(* The pointers a request names as where to write. *)
Named(r) ==
  CASE r.cmd = "BUFFER_CLEAR"  -> {r.ptr}
    [] r.cmd = "SET_TENSOR"    -> {r.tensor.home}
    [] r.cmd = "COPY_TENSOR"   -> {r.dst.home}
    [] r.cmd = "GRAPH_COMPUTE" -> {r.nodes[i].dst.home : i \in {j \in DOMAIN r.nodes : r.nodes[j] # Missing}}
    [] OTHER                   -> {}

(* The bytes of a buffer change only by a request about that very buffer, whatever other
   sessions free and allocate between the address's lookup and its computation. *)
WritesStayHome ==
  [][\A p \in DOMAIN buffers : p \in DOMAIN buffers' /\ buffers'[p] # buffers[p] =>
       \E s \in Sessions : p \in Named(thr[s].req)]_vars

(* graph_compute's "Failures are logged but don't kill the session": no step of a graph's
   walk closes the session, whatever its kernels, sources and destinations do. *)
GraphFailuresContained ==
  [][\A s \in Sessions : thr[s].at \in {"node", "kernel", "numpy", "write"} => thr'[s].at # "closed"]_vars

(* Every request that has an answer gets it, or its session is closed, however the
   compiler and the simulator behave for the graphs queued before it. *)
EveryRequestAnswered ==
  \A s \in Sessions : awaiting[s] # None ~> (outbox[s] # <<>> \/ awaiting[s] = None \/ thr[s].at = "closed")
================================================================================
