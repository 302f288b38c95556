---------------------------- MODULE RpcServerProofs ----------------------------
(***************************************************************************)
(* Proofs about RpcServer, for every number of sessions and kernels, every *)
(* alignment, and whatever sizes and graphs clients send.                  *)
(***************************************************************************)
EXTENDS RpcServer, FoldProofs, SequenceTheorems

(* Rounding up does not round down. *)
LEMMA RoundUpCovers ==
  ASSUME NEW n \in Nat, NEW m \in Nat \ {0}
  PROVE  RoundUp(n, m) \in Nat /\ RoundUp(n, m) >= n
<1> DEFINE q == (n + m - 1) \div m
<1>1. q \in Nat /\ (n + m - 1) % m \in 0 .. m - 1
  OBVIOUS
<1>2. n + m - 1 = (m * q) + ((n + m - 1) % m)
  OBVIOUS
<1>3. q * m \in Nat /\ m * q = q * m
  BY <1>1
<1> QED
  BY <1>1, <1>2, <1>3 DEF RoundUp

(* The next pointer lies past the buffer that was just allocated. *)
LEMMA AdvanceCovers ==
  ASSUME NEW ptr \in Nat, NEW size \in Nat
  PROVE  Advance(ptr, size) \in Nat /\ Advance(ptr, size) >= ptr + size
<1>1. Larger(size, Alignment) \in Nat /\ Larger(size, Alignment) >= size
  BY AllocAssumption DEF Larger
<1>2. ptr + Larger(size, Alignment) \in Nat
  BY <1>1
<1>3. /\ RoundUp(ptr + Larger(size, Alignment), Tidy) \in Nat
      /\ RoundUp(ptr + Larger(size, Alignment), Tidy) >= ptr + Larger(size, Alignment)
  BY <1>2, AllocAssumption, RoundUpCovers
<1> QED
  BY <1>1, <1>3 DEF Advance

-----------------------------------------------------------------------------
(* Requests, over any pointers. *)
AllRequests == UNION {Requests(P) : P \in SUBSET Nat}

(* What a request carries: pointers among those it was made over, and an answer or none. *)
LEMMA RequestFacts ==
  ASSUME NEW r \in AllRequests
  PROVE  /\ r.cmd # None
         /\ r.cmd = "ALLOC_BUFFER" => r.size \in Nat
<1>1. PICK P \in SUBSET Nat : r \in Requests(P)
  BY DEF AllRequests
<1>2. \/ r.cmd \in PlainCmds \cup {"GRAPH_RECOMPUTE", Undecodable, "GET_DEVICE_MEMORY", "FREE_BUFFER",
                                   "BUFFER_GET_BASE", "BUFFER_CLEAR", "SET_TENSOR", "GET_TENSOR",
                                   "COPY_TENSOR", "GRAPH_COMPUTE"}
      \/ r.cmd = "ALLOC_BUFFER" /\ r.size \in Sizes
  BY <1>1 DEF Requests
<1> QED
  BY <1>2, AllocAssumption DEF None, PlainCmds, Undecodable

(* Threads and inboxes hold requests. *)
RequestsOK ==
  /\ thr = [s \in Sessions |-> thr[s]]
  /\ \A s \in Sessions : thr[s].req \in AllRequests \cup {NoRequest}
  /\ inbox \in [Sessions -> Seq(AllRequests)]

(* How a handler leaves its connection: it keeps its request or drops it. *)
Settles(s) ==
  Done(s) \/ Close(s) \/ Respond(s) \/ NextNode(s) \/ \E at, n : Goto(s, at, n)

(* A step that moves one thread over requests it has keeps all requests well formed. *)
LEMMA SettlesKeepsRequests ==
  ASSUME RequestsOK, NEW s \in Sessions, Settles(s)
  PROVE  RequestsOK'
<1>1. CASE Done(s)
  BY <1>1 DEF Done, RequestsOK, Thread, connVars
<1>2. CASE Close(s)
  BY <1>2 DEF Close, RequestsOK, Thread
<1>3. CASE Respond(s)
  <2>1. CASE /\ thr' = [thr EXCEPT ![s] = Thread("recv", NoRequest, 0, 0)]
             /\ inbox' = inbox
    BY <2>1 DEF RequestsOK, Thread
  <2> QED
    BY <1>1, <1>2, <1>3, <2>1 DEF Respond
<1>4. CASE NextNode(s)
  BY <1>4 DEF NextNode, RequestsOK, Thread, connVars
<1>5. ASSUME NEW at, NEW n, Goto(s, at, n) PROVE RequestsOK'
  BY <1>5 DEF Goto, RequestsOK, Thread, connVars
<1> QED
  BY <1>1, <1>2, <1>3, <1>4, <1>5 DEF Settles

(* Every step of a session but the receipt of a request settles its connection so, or,
   inside the runner, leaves all connections alone. *)
LEMMA SessionSettles ==
  ASSUME NEW s \in Sessions, SessionStep(s), ~Recv(s)
  PROVE  Settles(s) \/ UNCHANGED <<thr, connVars>>
<1>1. CASE RecvEnd(s) \/ AnswerPlain(s) \/ GetDeviceMemory(s)
  BY <1>1 DEF RecvEnd, AnswerPlain, GetDeviceMemory, Settles
<1>2. CASE AllocBuffer(s) \/ FreeBuffer(s) \/ SettleFree(s)
  BY <1>2 DEF AllocBuffer, FreeBuffer, SettleFree, Settles
<1>3. CASE BufferGetBase(s) \/ BufferClear(s) \/ SetTensor(s) \/ GetTensor(s) \/ CopyTensor(s)
  BY <1>3 DEF BufferGetBase, BufferClear, SetTensor, Overflow, GetTensor, CopyTensor, Settles
<1>4. CASE GraphCompute(s) \/ GraphRecompute(s) \/ NodeError(s) \/ NodeSpike(s) \/ NodeNumpy(s)
  BY <1>4 DEF GraphCompute, GraphRecompute, NodeError, NodeSpike, NodeNumpy, Settles
<1>5. CASE KernelAnswers(s) \/ NumpyCompute(s) \/ WriteResult(s)
  BY <1>5 DEF KernelAnswers, NumpyCompute, WriteResult, WriteGone, Settles
<1>6. CASE KernelStep(s)
  BY <1>6 DEF KernelStep
<1> QED
  BY <1>1, <1>2, <1>3, <1>4, <1>5, <1>6 DEF SessionStep

-----------------------------------------------------------------------------
(* What was handed out lies below the next pointer and does not overlap, and the table
   holds only what was handed out. *)
PointersOK ==
  /\ nextPtr \in Nat
  /\ issued \subseteq [ptr : Nat, size : Nat \ {0}]
  /\ \A i \in issued : i.ptr + i.size <= nextPtr
  /\ \A i, j \in issued : i = j \/ i.ptr + i.size <= j.ptr \/ j.ptr + j.size <= i.ptr

TableOK == \A p \in DOMAIN buffers : [ptr |-> p, size |-> buffers[p].size] \in issued

MemoryInv == RequestsOK /\ PointersOK /\ TableOK

(* Overwriting bytes of a buffer changes neither the table's pointers nor their sizes. *)
LEMMA BytesKeepTable ==
  ASSUME TableOK, NEW p, NEW bytes, issued' = issued,
         buffers' = [buffers EXCEPT ![p].bytes = bytes]
  PROVE  TableOK'
<1>1. DOMAIN buffers' = DOMAIN buffers
  OBVIOUS
<1>2. ASSUME NEW q \in DOMAIN buffers PROVE buffers'[q].size = buffers[q].size
  <2>1. CASE q = p
    <3>1. buffers'[q] = [buffers[q] EXCEPT !.bytes = bytes]
      BY <2>1
    <3> QED
      BY <3>1
  <2>2. CASE q # p
    BY <2>2
  <2> QED
    BY <2>1, <2>2
<1> QED
  BY <1>1, <1>2 DEF TableOK

(* Writing a tensor changes neither the table's pointers nor their sizes. *)
LEMMA StoreKeepsTable ==
  ASSUME TableOK, NEW addr, NEW skip, NEW bytes, issued' = issued, StoreAt(addr, skip, bytes)
  PROVE  TableOK'
BY BytesKeepTable DEF StoreAt

(* The allocation under the lock, and the frees, keep the table in order. *)
LEMMA AllocKeepsPointers ==
  ASSUME MemoryInv, NEW s \in Sessions, AllocBuffer(s)
  PROVE  PointersOK' /\ TableOK'
<1> DEFINE size == Larger(thr[s].req.size, 1)
           new == [ptr |-> nextPtr, size |-> size]
<1>1. thr[s].req # NoRequest
  BY DEF AllocBuffer, Handling, NoRequest, None
<1>2. thr[s].req.size \in Nat
  BY <1>1, RequestFacts DEF MemoryInv, RequestsOK, AllocBuffer, Handling
<1>3. size \in Nat \ {0}
  BY <1>2 DEF Larger
<1>4. nextPtr \in Nat
  BY DEF MemoryInv, PointersOK
<1>5. Advance(nextPtr, size) \in Nat /\ Advance(nextPtr, size) >= nextPtr + size
  BY <1>3, <1>4, AdvanceCovers
<1> HIDE DEF size
<1>6. CASE /\ buffers' = [p \in DOMAIN buffers \cup {nextPtr} |->
                            IF p = nextPtr THEN [size |-> size, bytes |-> [i \in 1 .. size |-> 0]]
                            ELSE buffers[p]]
           /\ issued' = issued \cup {new}
           /\ nextPtr' = Advance(nextPtr, size)
  <2>1. new \in [ptr : Nat, size : Nat \ {0}] /\ new.ptr = nextPtr /\ new.size = size
    BY <1>3, <1>4
  <2>2. \A i \in issued : i.ptr \in Nat /\ i.size \in Nat /\ i.ptr + i.size <= nextPtr
    BY DEF MemoryInv, PointersOK
  <2>3. \A i \in issued' : i.ptr + i.size <= nextPtr'
    <3>1. \A i \in issued : i.ptr + i.size <= nextPtr'
      BY <1>3, <1>4, <1>5, <1>6, <2>2
    <3>2. new.ptr + new.size <= nextPtr'
      BY <1>3, <1>4, <1>5, <1>6, <2>1
    <3> QED
      BY <1>6, <3>1, <3>2
  <2>4. \A i, j \in issued' : i = j \/ i.ptr + i.size <= j.ptr \/ j.ptr + j.size <= i.ptr
    <3>1. \A i \in issued : i.ptr + i.size <= new.ptr
      BY <2>1, <2>2
    <3> QED
      BY <1>6, <3>1 DEF MemoryInv, PointersOK
  <2>5. PointersOK'
    BY <1>5, <1>6, <2>1, <2>3, <2>4 DEF MemoryInv, PointersOK
  <2>6. TableOK'
    BY <1>6 DEF MemoryInv, TableOK
  <2> QED
    BY <2>5, <2>6
<1>7. CASE nextPtr' = Advance(nextPtr, size) /\ UNCHANGED <<buffers, issued>>
  <2>1. \A i \in issued : i.ptr \in Nat /\ i.size \in Nat /\ i.ptr + i.size <= nextPtr
    BY DEF MemoryInv, PointersOK
  <2>2. \A i \in issued : i.ptr + i.size <= nextPtr'
    BY <1>3, <1>4, <1>5, <1>7, <2>1
  <2> QED
    BY <1>5, <1>7, <2>2 DEF MemoryInv, PointersOK, TableOK
<1>8. CASE UNCHANGED memVars
  BY <1>8 DEF MemoryInv, PointersOK, TableOK, memVars
<1> QED
  BY <1>6, <1>7, <1>8 DEF AllocBuffer, size

(* Popping a buffer leaves the rest of the table as it was. *)
LEMMA FreeKeepsTable ==
  ASSUME TableOK, NEW ptr, buffers' = Without(ptr), issued' = issued
  PROVE  TableOK'
BY DEF TableOK, Without

(* Every step of a session keeps the pointers and the table in order. *)
LEMMA SessionKeepsPointers ==
  ASSUME MemoryInv, NEW s \in Sessions, SessionStep(s)
  PROVE  PointersOK' /\ TableOK'
<1> USE DEF memVars
<1>1. CASE AllocBuffer(s)
  BY <1>1, AllocKeepsPointers
<1>2. CASE FreeBuffer(s)
  BY <1>2, FreeKeepsTable DEF FreeBuffer, MemoryInv, PointersOK, TableOK
<1>3. CASE SettleFree(s)
  BY <1>3 DEF SettleFree, MemoryInv, PointersOK, TableOK
<1>4. CASE BufferClear(s)
  BY <1>4, BytesKeepTable DEF BufferClear, MemoryInv, PointersOK, TableOK
<1>5. CASE SetTensor(s)
  <2>1. PointersOK'
    BY <1>5 DEF SetTensor, MemoryInv, PointersOK
  <2>2. issued' = issued
    BY <1>5 DEF SetTensor
  <2>3. CASE UNCHANGED buffers
    BY <2>1, <2>2, <2>3 DEF MemoryInv, TableOK
  <2>4. CASE \E addr, skip, bytes : StoreAt(addr, skip, bytes)
    BY <2>1, <2>2, <2>4, StoreKeepsTable DEF MemoryInv
  <2> QED
    BY <1>5, <2>3, <2>4 DEF SetTensor
<1>6. CASE CopyTensor(s)
  <2>1. PointersOK'
    BY <1>6 DEF CopyTensor, MemoryInv, PointersOK
  <2>2. issued' = issued
    BY <1>6 DEF CopyTensor
  <2>3. CASE UNCHANGED buffers
    BY <2>1, <2>2, <2>3 DEF MemoryInv, TableOK
  <2>4. CASE \E addr, skip, bytes : StoreAt(addr, skip, bytes)
    BY <2>1, <2>2, <2>4, StoreKeepsTable DEF MemoryInv
  <2> QED
    BY <1>6, <2>3, <2>4 DEF CopyTensor, Copy, Store
<1>7. CASE WriteResult(s)
  <2>1. PointersOK'
    BY <1>7 DEF WriteResult, MemoryInv, PointersOK
  <2>2. issued' = issued
    BY <1>7 DEF WriteResult
  <2>3. CASE UNCHANGED buffers
    BY <2>1, <2>2, <2>3 DEF MemoryInv, TableOK
  <2>4. CASE \E addr, skip, bytes : StoreAt(addr, skip, bytes)
    BY <2>1, <2>2, <2>4, StoreKeepsTable DEF MemoryInv
  <2> QED
    BY <1>7, <2>3, <2>4 DEF WriteResult, Store
<1>8. CASE UNCHANGED memVars
  BY <1>8 DEF MemoryInv, PointersOK, TableOK
<1>9. Recv(s) \/ RecvEnd(s) \/ AnswerPlain(s) \/ GetDeviceMemory(s) \/ BufferGetBase(s) \/ GetTensor(s)
        => UNCHANGED memVars
  BY DEF Recv, RecvEnd, AnswerPlain, GetDeviceMemory, BufferGetBase, GetTensor
<1>10. GraphCompute(s) \/ GraphRecompute(s) \/ NodeError(s) \/ NodeSpike(s) \/ NodeNumpy(s)
        \/ KernelAnswers(s) \/ NumpyCompute(s) \/ KernelStep(s) => UNCHANGED memVars
  BY DEF GraphCompute, GraphRecompute, NodeError, NodeSpike, NodeNumpy, KernelAnswers, NumpyCompute, KernelStep
<1> QED
  BY <1>1, <1>2, <1>3, <1>4, <1>5, <1>6, <1>7, <1>8, <1>9, <1>10 DEF SessionStep

(* A request that is received is the head of its inbox. *)
LEMMA RecvKeepsRequests ==
  ASSUME RequestsOK, NEW s \in Sessions, Recv(s)
  PROVE  RequestsOK'
<1>1. CASE Close(s)
  BY <1>1, SettlesKeepsRequests DEF Settles
<1>2. CASE /\ thr' = [thr EXCEPT ![s] = Thread("handle", Head(inbox[s]), 0, 0)]
           /\ inbox' = [inbox EXCEPT ![s] = Tail(@)]
           /\ inbox[s] # <<>>
  <2>1. Head(inbox[s]) \in AllRequests /\ Tail(inbox[s]) \in Seq(AllRequests)
    BY <1>2 DEF RequestsOK
  <2> QED
    BY <1>2, <2>1 DEF RequestsOK, Thread
<1> QED
  BY <1>1, <1>2 DEF Recv

(* What a client sends is over pointers that were handed out. *)
LEMMA ClientKeepsRequests ==
  ASSUME MemoryInv, NEW s \in Sessions, ClientStep(s)
  PROVE  RequestsOK'
<1>1. CASE Connect(s)
  <2>1. /\ thr' = [thr EXCEPT ![s] = Thread("hello", NoRequest, 0, 0)]
        /\ inbox' = [inbox EXCEPT ![s] = <<>>]
    BY <1>1 DEF Connect
  <2>2. RequestsOK
    BY DEF MemoryInv
  <2>3. \A t \in Sessions : thr'[t].req \in AllRequests \cup {NoRequest}
    BY <2>1, <2>2 DEF RequestsOK, Thread
  <2>4. inbox' \in [Sessions -> Seq(AllRequests)]
    BY <2>1, <2>2 DEF RequestsOK
  <2> QED
    BY <2>1, <2>2, <2>3, <2>4 DEF RequestsOK
<1>2. CASE Send(s)
  <2>1. PICK r \in Requests({i.ptr : i \in issued}) : inbox' = [inbox EXCEPT ![s] = Append(@, r)]
    BY <1>2 DEF Send
  <2>2. {i.ptr : i \in issued} \in SUBSET Nat
    BY DEF MemoryInv, PointersOK
  <2>3. r \in AllRequests
    BY <2>1, <2>2 DEF AllRequests
  <2> QED
    BY <1>2, <2>1, <2>3 DEF Send, MemoryInv, RequestsOK
<1>3. CASE Receive(s) \/ HangUp(s)
  BY <1>3 DEF Receive, HangUp, MemoryInv, RequestsOK
<1> QED
  BY <1>1, <1>2, <1>3 DEF ClientStep

(* A client's step touches no buffer. *)
LEMMA ClientKeepsMemory ==
  ASSUME NEW s \in Sessions, ClientStep(s)
  PROVE  UNCHANGED memVars
BY DEF ClientStep, Connect, Send, Receive, HangUp

(* The invariant holds throughout. *)
LEMMA MemoryInvStep ==
  ASSUME MemoryInv, [Next]_vars
  PROVE  MemoryInv'
<1>1. ASSUME NEW s \in Sessions, SessionStep(s) PROVE MemoryInv'
  <2>1. RequestsOK'
    <3>1. CASE Recv(s)
      BY <3>1, RecvKeepsRequests DEF MemoryInv
    <3>2. CASE Settles(s)
      BY <3>2, SettlesKeepsRequests DEF MemoryInv
    <3>3. CASE UNCHANGED <<thr, connVars>>
      BY <3>3 DEF MemoryInv, RequestsOK, connVars
    <3> QED
      BY <1>1, <3>1, <3>2, <3>3, SessionSettles
  <2> QED
    BY <1>1, <2>1, SessionKeepsPointers DEF MemoryInv
<1>2. ASSUME NEW s \in Sessions, ClientStep(s) PROVE MemoryInv'
  <2>1. UNCHANGED memVars
    BY <1>2, ClientKeepsMemory
  <2>2. PointersOK' /\ TableOK'
    BY <2>1 DEF MemoryInv, PointersOK, TableOK, memVars
  <2> QED
    BY <1>2, <2>2, ClientKeepsRequests DEF MemoryInv
<1>3. CASE UNCHANGED <<memVars, connVars, thr>>
  BY <1>3 DEF MemoryInv, RequestsOK, PointersOK, TableOK, memVars, connVars
<1>4. ASSUME NEW s \in Sessions, ToolStep(s) PROVE UNCHANGED <<memVars, connVars, thr>>
  BY <1>4 DEF ToolStep, KernelStep
<1>5. ASSUME NEW k \in Keys, OrphanStep(k) PROVE UNCHANGED <<memVars, connVars, thr>>
  BY <1>5 DEF OrphanStep
<1>6. UNCHANGED vars => UNCHANGED <<memVars, connVars, thr>>
  BY DEF vars
<1> QED
  BY <1>1, <1>2, <1>3, <1>4, <1>5, <1>6 DEF Next

(* Two buffers never hold the same address, nor a buffer one of a buffer before it. *)
LEMMA OwnedByPointers ==
  ASSUME PointersOK, TableOK
  PROVE  AddressesAreOwned
<1> SUFFICES ASSUME NEW i \in issued, NEW addr \in i.ptr .. i.ptr + i.size - 1,
                    NEW p \in DOMAIN buffers, Covers(p, addr)
             PROVE  p = i.ptr
  BY DEF AddressesAreOwned, Holders
<1> DEFINE j == [ptr |-> p, size |-> buffers[p].size]
<1>1. j \in issued /\ j.ptr = p /\ j.size = buffers[p].size
  BY DEF TableOK
<1>2. i.ptr \in Nat /\ i.size \in Nat /\ j.ptr \in Nat /\ j.size \in Nat
  BY <1>1 DEF PointersOK
<1>3. i = j \/ i.ptr + i.size <= j.ptr \/ j.ptr + j.size <= i.ptr
  BY <1>1 DEF PointersOK
<1>4. j.ptr <= addr /\ addr < j.ptr + j.size /\ i.ptr <= addr /\ addr < i.ptr + i.size
  BY <1>1, <1>2 DEF Covers
<1> HIDE DEF j
<1>5. i = j
  BY <1>2, <1>3, <1>4
<1> QED
  BY <1>1, <1>5

(* No address a client computed in a buffer, freed or not, ever finds another buffer. *)
THEOREM BuffersNeverAlias == Spec => []AddressesAreOwned
<1>1. Init => MemoryInv
  BY AllocAssumption DEF Init, MemoryInv, RequestsOK, PointersOK, TableOK, Thread
<1>2. MemoryInv /\ [Next]_vars => MemoryInv'
  BY MemoryInvStep
<1>3. MemoryInv => AddressesAreOwned
  BY OwnedByPointers DEF MemoryInv
<1> QED
  BY <1>1, <1>2, <1>3, PTL DEF Spec

-----------------------------------------------------------------------------
(* A conversation: where the one request that has an answer is, if there is one. *)
TwoWay(r) == r.cmd \notin ONE_WAY \cup {Undecodable}
Busy(s) == thr[s].at \notin {"closed", "hello", "recv"}
OneWayUpTo(s, n) == \A i \in 1 .. n : ~TwoWay(inbox[s][i])
HandlesOneWay(s) == Busy(s) => ~TwoWay(thr[s].req)

Unasked(s) ==
  /\ awaiting[s] = None /\ outbox[s] = <<>>
  /\ OneWayUpTo(s, Len(inbox[s])) /\ HandlesOneWay(s)

Queued(s) ==
  /\ inbox[s] # <<>> /\ outbox[s] = <<>>
  /\ TwoWay(inbox[s][Len(inbox[s])]) /\ inbox[s][Len(inbox[s])].cmd = awaiting[s]
  /\ OneWayUpTo(s, Len(inbox[s]) - 1) /\ HandlesOneWay(s)

Handled(s) ==
  /\ Busy(s) /\ TwoWay(thr[s].req) /\ thr[s].req.cmd = awaiting[s]
  /\ inbox[s] = <<>> /\ outbox[s] = <<>>

Answered(s) ==
  ~Busy(s) /\ inbox[s] = <<>> /\ outbox[s] = <<awaiting[s]>> /\ awaiting[s] # None

(* The session ended, or its client had gone, before the answer was sent. *)
Dropped(s) == ~Busy(s) /\ inbox[s] = <<>> /\ outbox[s] = <<>> /\ awaiting[s] # None

(* A thread that is past a handler's first step still holds the request that began it. *)
Underway(s) ==
  /\ Busy(s) => thr[s].req \in AllRequests
  /\ thr[s].at = "freed" => thr[s].req.cmd = "FREE_BUFFER"
  /\ thr[s].at \in {"node", "kernel", "numpy", "write"} => thr[s].req.cmd = "GRAPH_COMPUTE"

Conversation(s) ==
  /\ Unasked(s) \/ Queued(s) \/ Handled(s) \/ Answered(s) \/ Dropped(s)
  /\ Underway(s)

ConnTypes ==
  /\ RequestsOK
  /\ \A s \in Sessions : thr[s] = Thread(thr[s].at, thr[s].req, thr[s].node, thr[s].n)
  /\ outbox = [s \in Sessions |-> outbox[s]]
  /\ awaiting = [s \in Sessions |-> awaiting[s]]

ConversationInv == ConnTypes /\ \A s \in Sessions : Conversation(s)

(* The answer to the request at hand. *)
LEMMA RespondAnswers ==
  ASSUME ConversationInv, NEW s \in Sessions, Busy(s), TwoWay(thr[s].req), Respond(s)
  PROVE  Conversation(s)'
<1>1. Handled(s)
  BY DEF ConversationInv, Conversation, Unasked, Queued, Answered, Dropped, HandlesOneWay
<1>2. awaiting[s] # None
  BY <1>1, RequestFacts DEF Handled, ConversationInv, Conversation, Underway
<1>3. CASE ~hung[s]
  BY <1>1, <1>2, <1>3 DEF Respond, Handled, Conversation, Answered, Busy, Underway, Thread,
                    ConversationInv, ConnTypes, RequestsOK, connVars
<1>4. CASE Done(s) \/ Close(s)
  BY <1>1, <1>2, <1>4 DEF Done, Close, Handled, Conversation, Dropped, Busy, Underway, Thread,
                    ConversationInv, ConnTypes, RequestsOK, connVars
<1> QED
  BY <1>3, <1>4 DEF Respond

(* A step of a one-way handler, or its end, leaves the conversation where it is. *)
LEMMA OneWayGoesOn ==
  ASSUME ConversationInv, NEW s \in Sessions, Busy(s), ~TwoWay(thr[s].req),
         UNCHANGED connVars, NEW at, NEW n, NEW m,
         \/ /\ thr' = [thr EXCEPT ![s] = Thread(at, thr[s].req, m, n)]
            /\ at = "freed" => thr[s].req.cmd = "FREE_BUFFER"
            /\ at \in {"node", "kernel", "numpy", "write"} => thr[s].req.cmd = "GRAPH_COMPUTE"
         \/ thr' = [thr EXCEPT ![s] = Thread("recv", NoRequest, 0, 0)]
  PROVE  Conversation(s)'
<1>1. thr'[s].at \in {"closed", "hello", "recv"} \/ thr'[s].req = thr[s].req
  BY DEF ConversationInv, ConnTypes, RequestsOK, Thread
<1>2. Underway(s)'
  BY DEF ConversationInv, ConnTypes, RequestsOK, Conversation, Underway, Busy, Thread
<1>3. CASE Unasked(s)
  BY <1>1, <1>2, <1>3 DEF Unasked, Conversation, HandlesOneWay, OneWayUpTo, Busy, TwoWay, connVars
<1>4. CASE Queued(s)
  BY <1>1, <1>2, <1>4 DEF Queued, Conversation, HandlesOneWay, OneWayUpTo, Busy, TwoWay, connVars
<1> QED
  BY <1>3, <1>4 DEF ConversationInv, Conversation, Handled, Answered, Dropped

(* Closing a session leaves its client with the answer it was sent, or with none. *)
LEMMA CloseEnds ==
  ASSUME ConversationInv, NEW s \in Sessions, Close(s)
  PROVE  Conversation(s)'
<1>1. /\ ~Busy(s)' /\ Underway(s)' /\ inbox'[s] = <<>>
      /\ outbox'[s] = outbox[s] /\ awaiting'[s] = awaiting[s]
  BY DEF Close, ConversationInv, ConnTypes, RequestsOK, Busy, Underway, Thread
<1>2. CASE Unasked(s)
  BY <1>1, <1>2 DEF Unasked, Conversation, HandlesOneWay, OneWayUpTo, Busy
<1>3. CASE Queued(s)
  <2>1. inbox[s][Len(inbox[s])] \in AllRequests
    BY <1>3 DEF Queued, ConversationInv, ConnTypes, RequestsOK
  <2>2. awaiting[s] # None
    BY <1>3, <2>1, RequestFacts DEF Queued
  <2> QED
    BY <1>1, <1>3, <2>2 DEF Queued, Dropped, Conversation, Busy
<1>4. CASE Handled(s)
  <2>1. awaiting[s] # None
    BY <1>4, RequestFacts DEF Handled, ConversationInv, Conversation, Underway
  <2> QED
    BY <1>1, <1>4, <2>1 DEF Handled, Dropped, Conversation, Busy
<1>5. CASE Answered(s) \/ Dropped(s)
  BY <1>1, <1>5 DEF Answered, Dropped, Conversation, Busy
<1> QED
  BY <1>2, <1>3, <1>4, <1>5 DEF ConversationInv, Conversation

(* The first half of a free keeps its request at hand. *)
LEMMA FreeGoesOn ==
  ASSUME ConversationInv, NEW s \in Sessions, NEW n,
         Handling(s, "FREE_BUFFER"), Goto(s, "freed", n)
  PROVE  Conversation(s)'
<1>1. Handled(s)
  BY DEF Handling, ConversationInv, Conversation, Unasked, Queued, Answered, Dropped, HandlesOneWay, Busy,
         TwoWay, ONE_WAY, Undecodable
<1> QED
  BY <1>1 DEF Handling, Goto, Handled, Conversation, Busy, Underway, Thread, ConversationInv, ConnTypes,
              RequestsOK, TwoWay, connVars

(* What is left of a queue when its head is taken. *)
LEMMA QueueTail ==
  ASSUME NEW S, NEW q \in Seq(S), q # <<>>
  PROVE  /\ Head(q) = q[1] /\ Head(q) \in S /\ Len(q) \in Nat \ {0}
         /\ Len(Tail(q)) = Len(q) - 1 /\ \A i \in 1 .. Len(q) - 1 : Tail(q)[i] = q[i + 1]
         /\ Len(q) = 1 => Tail(q) = <<>>
         /\ Len(q) # 1 => Tail(q) # <<>> /\ Tail(q)[Len(Tail(q))] = q[Len(q)]
<1>1. Len(q) \in Nat \ {0} /\ Head(q) = q[1]
  BY EmptySeq
<1>2. /\ Head(q) \in S /\ Tail(q) \in Seq(S) /\ Len(Tail(q)) = Len(q) - 1
      /\ \A i \in 1 .. Len(Tail(q)) : Tail(q)[i] = q[i + 1]
  BY HeadTailProperties
<1> DEFINE t == Tail(q)
<1>3. Len(t) = 0 <=> t = <<>>
  <2>1. t \in Seq(S) /\ Len(<<>>) = 0
    BY <1>2, EmptySeq
  <2>2. t # <<>> => Len(t) \in Nat \ {0}
    BY <2>1, EmptySeq
  <2> HIDE DEF t
  <2> QED
    BY <2>1, <2>2
<1>4. ASSUME Len(q) # 1 PROVE Tail(q) # <<>> /\ Tail(q)[Len(Tail(q))] = q[Len(q)]
  <2>1. Len(q) - 1 \in 1 .. Len(Tail(q))
    BY <1>1, <1>2, <1>4
  <2>2. Tail(q)[Len(q) - 1] = q[(Len(q) - 1) + 1]
    BY <1>2, <2>1
  <2>3. (Len(q) - 1) + 1 = Len(q)
    BY <1>1
  <2> QED
    BY <1>1, <1>2, <1>3, <1>4, <2>2, <2>3
<1> QED
  BY <1>1, <1>2, <1>3, <1>4

(* Receiving a request moves it, and the answer due to it if there is one, to its handler. *)
LEMMA RecvMoves ==
  ASSUME ConversationInv, NEW s \in Sessions, Recv(s)
  PROVE  Conversation(s)'
<1>1. CASE Close(s)
  BY <1>1, CloseEnds
<1>2. CASE /\ thr' = [thr EXCEPT ![s] = Thread("handle", Head(inbox[s]), 0, 0)]
           /\ inbox' = [inbox EXCEPT ![s] = Tail(@)]
           /\ UNCHANGED <<outbox, awaiting, hung>>
           /\ inbox[s] # <<>> /\ ~Busy(s)
  <2> DEFINE q == inbox[s]
  <2>1. q \in Seq(AllRequests) /\ q # <<>>
    BY <1>2 DEF ConversationInv, ConnTypes, RequestsOK
  <2>2. /\ Head(q) = q[1] /\ Head(q) \in AllRequests /\ Len(q) \in Nat \ {0}
        /\ Len(Tail(q)) = Len(q) - 1 /\ \A i \in 1 .. Len(q) - 1 : Tail(q)[i] = q[i + 1]
        /\ Len(q) = 1 => Tail(q) = <<>>
        /\ Len(q) # 1 => Tail(q) # <<>> /\ Tail(q)[Len(Tail(q))] = q[Len(q)]
    BY <2>1, QueueTail
  <2>3. thr'[s].at = "handle" /\ thr'[s].req = q[1] /\ inbox'[s] = Tail(q)
    BY <1>2, <2>2 DEF ConversationInv, ConnTypes, RequestsOK, Thread
  <2>4. outbox'[s] = outbox[s] /\ awaiting'[s] = awaiting[s]
    BY <1>2
  <2>5. Busy(s)' /\ Underway(s)'
    BY <2>2, <2>3 DEF Busy, Underway
  <2> HIDE DEF q
  <2>6. CASE Unasked(s)
    <3>1. \A i \in 1 .. Len(q) : ~TwoWay(q[i])
      BY <2>6 DEF Unasked, OneWayUpTo, q
    <3>2. Unasked(s)'
      BY <2>2, <2>3, <2>4, <2>6, <3>1 DEF Unasked, OneWayUpTo, HandlesOneWay, TwoWay
    <3> QED
      BY <2>5, <3>2 DEF Conversation
  <2>7. CASE Queued(s) /\ Len(q) = 1
    BY <2>2, <2>3, <2>4, <2>5, <2>7 DEF Queued, Handled, Conversation, TwoWay, q
  <2>8. CASE Queued(s) /\ Len(q) # 1
    <3>1. (\A i \in 1 .. Len(q) - 1 : ~TwoWay(q[i])) /\ TwoWay(q[Len(q)]) /\ q[Len(q)].cmd = awaiting[s]
      BY <2>8 DEF Queued, OneWayUpTo, q
    <3>2. Tail(q)[Len(Tail(q))] = q[Len(q)] /\ Tail(q) # <<>>
      BY <2>2, <2>8
    <3>3. Queued(s)'
      BY <2>2, <2>3, <2>4, <2>8, <3>1, <3>2 DEF Queued, OneWayUpTo, HandlesOneWay, TwoWay
    <3> QED
      BY <2>5, <3>3 DEF Conversation
  <2> QED
    BY <1>2, <2>1, <2>6, <2>7, <2>8 DEF ConversationInv, Conversation, Handled, Answered, Dropped, q
<1> QED
  BY <1>1, <1>2 DEF Recv, Busy

(* The conversation of a session depends on nothing but its own part of the state. *)
LEMMA OthersGoOn ==
  ASSUME ConversationInv, NEW t \in Sessions,
         thr'[t] = thr[t], inbox'[t] = inbox[t], outbox'[t] = outbox[t], awaiting'[t] = awaiting[t]
  PROVE  Conversation(t)'
<1>1. /\ Unasked(t)' = Unasked(t) /\ Queued(t)' = Queued(t) /\ Handled(t)' = Handled(t)
      /\ Answered(t)' = Answered(t) /\ Dropped(t)' = Dropped(t) /\ Underway(t)' = Underway(t)
  BY DEF Unasked, Queued, Handled, Answered, Dropped, Underway, HandlesOneWay, OneWayUpTo, Busy, TwoWay
<1> QED
  BY <1>1 DEF ConversationInv, Conversation

(* A client asks only when nothing is due to it, and takes only what is. *)
LEMMA ClientTalks ==
  ASSUME MemoryInv, ConversationInv, NEW s \in Sessions, ClientStep(s)
  PROVE  Conversation(s)'
<1>1. CASE Connect(s)
  <2>1. /\ ~Busy(s)' /\ Underway(s)' /\ inbox'[s] = <<>> /\ outbox'[s] = <<>> /\ awaiting'[s] = None
    BY <1>1 DEF Connect, ConversationInv, ConnTypes, RequestsOK, Busy, Underway, Thread
  <2> QED
    BY <2>1 DEF Conversation, Unasked, OneWayUpTo, HandlesOneWay, Busy
<1>2. CASE Send(s)
  <2>1. PICK r \in Requests({i.ptr : i \in issued}) :
          /\ inbox' = [inbox EXCEPT ![s] = Append(@, r)]
          /\ awaiting' = [awaiting EXCEPT ![s] = IF r.cmd \in ONE_WAY \cup {Undecodable} THEN None ELSE r.cmd]
    BY <1>2 DEF Send
  <2>2. r \in AllRequests
    <3>1. {i.ptr : i \in issued} \in SUBSET Nat
      BY DEF MemoryInv, PointersOK
    <3> QED
      BY <2>1, <3>1 DEF AllRequests
  <2> DEFINE q == inbox[s]
  <2>3. q \in Seq(AllRequests) /\ inbox'[s] = Append(q, r)
    BY <2>1 DEF ConversationInv, ConnTypes, RequestsOK
  <2>4. Unasked(s)
    <3>1. awaiting[s] = None
      BY <1>2 DEF Send
    <3>2. ~Handled(s)
      BY <3>1, RequestFacts DEF Handled, ConversationInv, Conversation, Underway
    <3>3. ~Queued(s)
      <4>1. ASSUME q # <<>> PROVE q[Len(q)] \in AllRequests
        BY <2>3, <4>1
      <4> QED
        BY <3>1, <4>1, RequestFacts DEF Queued
    <3> QED
      BY <3>1, <3>2, <3>3 DEF ConversationInv, Conversation, Answered, Dropped
  <2>5. /\ Len(q) \in Nat /\ Len(Append(q, r)) = Len(q) + 1 /\ Append(q, r) # <<>>
        /\ Append(q, r)[Len(q) + 1] = r /\ \A i \in 1 .. Len(q) : Append(q, r)[i] = q[i]
    BY <2>2, <2>3
  <2>6. \A i \in 1 .. Len(q) : ~TwoWay(q[i])
    BY <2>4 DEF Unasked, OneWayUpTo
  <2>7. /\ thr' = thr /\ outbox' = outbox /\ Underway(s)'
        /\ awaiting'[s] = IF TwoWay(r) THEN r.cmd ELSE None
    BY <1>2, <2>1 DEF Send, ConversationInv, ConnTypes, Conversation, Underway, Busy, TwoWay
  <2> HIDE DEF q
  <2>8. CASE TwoWay(r)
    <3>1. Queued(s)'
      BY <2>3, <2>4, <2>5, <2>6, <2>7, <2>8 DEF Queued, Unasked, OneWayUpTo, HandlesOneWay, Busy, TwoWay
    <3> QED
      BY <2>7, <3>1 DEF Conversation
  <2>9. CASE ~TwoWay(r)
    <3>1. Unasked(s)'
      BY <2>3, <2>4, <2>5, <2>6, <2>7, <2>9 DEF Unasked, OneWayUpTo, HandlesOneWay, Busy, TwoWay
    <3> QED
      BY <2>7, <3>1 DEF Conversation
  <2> QED
    BY <2>8, <2>9
<1>3. CASE Receive(s)
  <2>1. Answered(s)
    BY <1>3 DEF Receive, ConversationInv, Conversation, Unasked, Queued, Handled, Dropped
  <2>2. outbox' = [outbox EXCEPT ![s] = Tail(@)] /\ awaiting' = [awaiting EXCEPT ![s] = None]
    BY <1>3 DEF Receive
  <2>3. Tail(outbox[s]) = <<>>
    <3>1. Tail(<<awaiting[s]>>) = <<>>
      OBVIOUS
    <3> QED
      BY <2>1, <3>1 DEF Answered
  <2>4. outbox'[s] = <<>> /\ awaiting'[s] = None
    BY <2>2, <2>3 DEF ConversationInv, ConnTypes
  <2>5. /\ ~Busy(s)' /\ Underway(s)' /\ inbox'[s] = <<>>
    BY <1>3, <2>1 DEF Receive, Answered, ConversationInv, Conversation, Busy, Underway
  <2> QED
    BY <2>4, <2>5 DEF Conversation, Unasked, OneWayUpTo, HandlesOneWay, Busy
<1>4. CASE HangUp(s)
  BY <1>4, OthersGoOn DEF HangUp
<1> QED
  BY <1>1, <1>2, <1>3, <1>4 DEF ClientStep

(* What a handler does to its conversation: it answers, or goes on in silence. *)
Answers(s) == Busy(s) /\ TwoWay(thr[s].req) /\ Respond(s)

Frees(s) == Handling(s, "FREE_BUFFER") /\ \E n : Goto(s, "freed", n)

InGraph == {"node", "kernel", "numpy", "write"}

StaysSilent(s) ==
  /\ Busy(s) /\ ~TwoWay(thr[s].req) /\ UNCHANGED connVars
  /\ \/ /\ thr[s].req.cmd = "GRAPH_COMPUTE"
        /\ \E at \in InGraph : \E m, n : thr' = [thr EXCEPT ![s] = Thread(at, thr[s].req, m, n)]
     \/ thr' = [thr EXCEPT ![s] = Thread("recv", NoRequest, 0, 0)]

(* Every handler keeps the conversation of its own session. *)
LEMMA HandlersTalk ==
  ASSUME ConversationInv, NEW s \in Sessions, SessionStep(s)
  PROVE  Recv(s) \/ Close(s) \/ Answers(s) \/ Frees(s) \/ StaysSilent(s) \/ UNCHANGED <<thr, connVars>>
<1> USE DEF Busy, TwoWay, ONE_WAY, Undecodable
<1>1. CASE RecvEnd(s)
  BY <1>1 DEF RecvEnd
<1>2. CASE AnswerPlain(s)
  BY <1>2 DEF AnswerPlain, PlainCmds, Answers
<1>3. CASE GetDeviceMemory(s) \/ BufferGetBase(s) \/ GetTensor(s)
  BY <1>3 DEF GetDeviceMemory, BufferGetBase, GetTensor, Handling, Answers
<1>4. CASE AllocBuffer(s)
  BY <1>4 DEF AllocBuffer, Handling, Answers
<1>5. CASE FreeBuffer(s)
  BY <1>5 DEF FreeBuffer, Handling, Answers, Frees
<1>6. CASE SettleFree(s)
  BY <1>6 DEF SettleFree, Answers, ConversationInv, Conversation, Underway
<1>7. CASE BufferClear(s) \/ CopyTensor(s)
  BY <1>7 DEF BufferClear, CopyTensor, Handling, Answers
<1>8. CASE SetTensor(s)
  BY <1>8 DEF SetTensor, Overflow, Handling, Done, StaysSilent
<1>9. CASE GraphRecompute(s)
  BY <1>9 DEF GraphRecompute, Handling, Done, StaysSilent
<1>10. ASSUME thr[s].req.cmd = "GRAPH_COMPUTE", Busy(s), NextNode(s) PROVE StaysSilent(s)
  <2>1. thr[s].node < Len(thr[s].req.nodes) \/ ~(thr[s].node < Len(thr[s].req.nodes))
    OBVIOUS
  <2> QED
    BY <1>10, <2>1 DEF NextNode, StaysSilent, InGraph
<1>11. ASSUME thr[s].req.cmd = "GRAPH_COMPUTE", Busy(s), NEW at \in InGraph, NEW n, Goto(s, at, n)
       PROVE  StaysSilent(s)
  BY <1>11 DEF Goto, StaysSilent
<1>12. thr[s].at \in InGraph => thr[s].req.cmd = "GRAPH_COMPUTE" /\ Busy(s)
  BY DEF ConversationInv, Conversation, Underway, InGraph
<1>13. CASE GraphCompute(s)
  BY <1>10, <1>13 DEF GraphCompute, Handling
<1>14. CASE NodeError(s) \/ NodeSpike(s) \/ NodeNumpy(s)
  BY <1>10, <1>11, <1>12, <1>14 DEF NodeError, NodeSpike, NodeNumpy, InGraph
<1>15. CASE KernelAnswers(s) \/ NumpyCompute(s) \/ WriteResult(s)
  BY <1>10, <1>11, <1>12, <1>15 DEF KernelAnswers, NumpyCompute, WriteResult, WriteGone, InGraph
<1>16. CASE KernelStep(s)
  BY <1>16 DEF KernelStep
<1> QED
  BY <1>1, <1>2, <1>3, <1>4, <1>5, <1>6, <1>7, <1>8, <1>9, <1>13, <1>14, <1>15, <1>16 DEF SessionStep

(* So does every step of a session's thread. *)
LEMMA SessionTalks ==
  ASSUME ConversationInv, NEW s \in Sessions, SessionStep(s)
  PROVE  Conversation(s)'
<1>1. CASE Recv(s) \/ Close(s)
  BY <1>1, RecvMoves, CloseEnds
<1>2. CASE Answers(s)
  BY <1>2, RespondAnswers DEF Answers
<1>3. CASE Frees(s)
  BY <1>3, FreeGoesOn DEF Frees
<1>4. CASE StaysSilent(s)
  BY <1>4, OneWayGoesOn DEF StaysSilent, InGraph
<1>5. CASE UNCHANGED <<thr, connVars>>
  BY <1>5, OthersGoOn DEF connVars
<1> QED
  BY <1>1, <1>2, <1>3, <1>4, <1>5, HandlersTalk

(* A step belongs to one session: the others' connections do not change, and the shape of
   the connections does not either. *)
Alone(s) ==
  /\ \A t \in Sessions \ {s} : /\ thr'[t] = thr[t] /\ inbox'[t] = inbox[t]
                               /\ outbox'[t] = outbox[t] /\ awaiting'[t] = awaiting[t]
  /\ thr'[s] = Thread(thr'[s].at, thr'[s].req, thr'[s].node, thr'[s].n)
  /\ outbox' = [t \in Sessions |-> outbox'[t]] /\ awaiting' = [t \in Sessions |-> awaiting'[t]]

(* A step of one session leaves the connections of the others alone. *)
LEMMA StepsAreAlone ==
  ASSUME ConversationInv, NEW s \in Sessions, SessionStep(s) \/ ClientStep(s)
  PROVE  Alone(s)
<1> USE DEF ConversationInv, ConnTypes, RequestsOK, Thread, connVars
<1>1. CASE Done(s) \/ Close(s)
  BY <1>1 DEF Done, Close, Alone
<1>2. CASE Respond(s)
  BY <1>1, <1>2 DEF Respond, Alone
<1>3. CASE NextNode(s)
  BY <1>3 DEF NextNode, Alone
<1>4. ASSUME NEW at, NEW n, Goto(s, at, n) PROVE Alone(s)
  BY <1>4 DEF Goto, Alone
<1>5. CASE Settles(s)
  BY <1>1, <1>2, <1>3, <1>4, <1>5 DEF Settles
<1>6. CASE UNCHANGED <<thr, connVars>>
  BY <1>6 DEF Alone
<1>7. CASE Recv(s)
  BY <1>1, <1>7 DEF Recv, Alone
<1>8. CASE Connect(s)
  BY <1>8 DEF Connect, Alone
<1>9. CASE Send(s)
  BY <1>9 DEF Send, Alone
<1>10. CASE Receive(s) \/ HangUp(s)
  BY <1>10 DEF Receive, HangUp, Alone
<1> QED
  BY <1>5, <1>6, <1>7, <1>8, <1>9, <1>10, SessionSettles DEF ClientStep

(* The conversation invariant holds throughout. *)
LEMMA ConversationStep ==
  ASSUME MemoryInv, ConversationInv, [Next]_vars
  PROVE  ConversationInv'
<1>1. RequestsOK'
  BY MemoryInvStep DEF MemoryInv
<1>2. ASSUME NEW s \in Sessions, SessionStep(s) \/ ClientStep(s) PROVE ConversationInv'
  <2>1. Alone(s) /\ Conversation(s)'
    BY <1>2, StepsAreAlone, SessionTalks, ClientTalks
  <2>2. \A t \in Sessions : Conversation(t)'
    BY <2>1, OthersGoOn DEF Alone
  <2>3. \A t \in Sessions : thr'[t] = Thread(thr'[t].at, thr'[t].req, thr'[t].node, thr'[t].n)
    BY <2>1 DEF Alone, ConversationInv, ConnTypes
  <2> QED
    BY <1>1, <2>1, <2>2, <2>3 DEF Alone, ConversationInv, ConnTypes
<1>3. CASE UNCHANGED <<memVars, connVars, thr>>
  <2>1. \A t \in Sessions : Conversation(t)'
    BY <1>3, OthersGoOn DEF connVars
  <2> QED
    BY <1>1, <1>3, <2>1 DEF ConversationInv, ConnTypes, connVars
<1>4. ASSUME NEW s \in Sessions, ToolStep(s) PROVE UNCHANGED <<memVars, connVars, thr>>
  BY <1>4 DEF ToolStep, KernelStep
<1>5. ASSUME NEW k \in Keys, OrphanStep(k) PROVE UNCHANGED <<memVars, connVars, thr>>
  BY <1>5 DEF OrphanStep
<1>6. UNCHANGED vars => UNCHANGED <<memVars, connVars, thr>>
  BY DEF vars
<1> QED
  BY <1>2, <1>3, <1>4, <1>5, <1>6 DEF Next

(* What a client finds in its socket is the answer it waits for. *)
THEOREM AnswersNeverDrift == Spec => []AnswersMatch
<1>1. Init => MemoryInv /\ ConversationInv
  <2>1. Init => MemoryInv
    BY AllocAssumption DEF Init, MemoryInv, RequestsOK, PointersOK, TableOK, Thread
  <2>2. Init => ConnTypes
    BY <2>1 DEF Init, MemoryInv, ConnTypes, Thread
  <2>3. ASSUME Init, NEW s \in Sessions PROVE Unasked(s) /\ Underway(s)
    BY <2>3 DEF Init, Unasked, Underway, OneWayUpTo, HandlesOneWay, Busy, Thread
  <2> QED
    BY <2>1, <2>2, <2>3 DEF ConversationInv, Conversation
<1>2. (MemoryInv /\ ConversationInv) /\ [Next]_vars => (MemoryInv /\ ConversationInv)'
  BY MemoryInvStep, ConversationStep
<1>3. ConversationInv => AnswersMatch
  BY DEF ConversationInv, Conversation, AnswersMatch, Unasked, Queued, Handled, Answered, Dropped
<1> QED
  BY <1>1, <1>2, <1>3, PTL DEF Spec

-----------------------------------------------------------------------------
(* Where writes land.  Clients compute the addresses of tensors inside the buffers they were
   given, and their graphs are sequences of nodes over such tensors. *)
OffsetsInside == \A o \in Offsets, z \in Sizes : o < Larger(z, 1)
GraphsWellFormed ==
  \A T : \A g \in Graphs(T) : g \in Seq([src : T, dst : T, key : Keys \cup {NoKey}] \cup {Missing})

(* The tensors a request writes to, each inside a buffer that was handed out. *)
Targets(r) ==
  CASE r.cmd = "SET_TENSOR"    -> {r.tensor}
    [] r.cmd = "COPY_TENSOR"   -> {r.dst}
    [] r.cmd = "GRAPH_COMPUTE" -> {r.nodes[i].dst : i \in {j \in DOMAIN r.nodes : r.nodes[j] # Missing}}
    [] OTHER                   -> {}

Inside(t) == \E i \in issued : t.home = i.ptr /\ data(t) \in i.ptr .. i.ptr + i.size - 1

RequestInside(r) ==
  /\ \A t \in Targets(r) : Inside(t)
  /\ r.cmd = "GRAPH_COMPUTE" => Len(r.nodes) \in Nat /\ DOMAIN r.nodes = 1 .. Len(r.nodes)

InNode == {"node", "kernel", "numpy", "write"}

ThreadOK(s) ==
  /\ RequestInside(thr[s].req)
  /\ thr[s].node \in Nat
  /\ thr[s].at \in InNode => thr[s].req.cmd = "GRAPH_COMPUTE" /\ thr[s].node \in DOMAIN thr[s].req.nodes
  /\ thr[s].at \in InNode \ {"node"} => node(s) # Missing

InboxOK(s) == \A k \in DOMAIN inbox[s] : RequestInside(inbox[s][k])

SizesOK == \A i \in issued : \E z \in Sizes : i.size = Larger(z, 1)

HomeInv == SizesOK /\ \A s \in Sessions : ThreadOK(s) /\ InboxOK(s)

(* A request stays inside as long as no buffer is forgotten by the history. *)
LEMMA StaysInside ==
  ASSUME NEW r, RequestInside(r), issued \subseteq issued'
  PROVE  RequestInside(r)'
BY DEF RequestInside, Inside, Targets

LEMMA NoRequestInside == RequestInside(NoRequest)
BY DEF RequestInside, Targets, NoRequest, None

LEMMA IssuedGrows ==
  ASSUME [Next]_vars
  PROVE  issued \subseteq issued'
<1>1. ASSUME NEW s \in Sessions, SessionStep(s) PROVE issued \subseteq issued'
  <2>1. CASE AllocBuffer(s)
    BY <2>1 DEF AllocBuffer, memVars
  <2>2. CASE ~AllocBuffer(s)
    BY <1>1, <2>2 DEF SessionStep, Recv, RecvEnd, AnswerPlain, GetDeviceMemory, FreeBuffer,
       SettleFree, BufferGetBase, BufferClear, SetTensor, GetTensor, CopyTensor, GraphCompute,
       GraphRecompute, NodeError, NodeSpike, NodeNumpy, KernelAnswers, NumpyCompute, WriteResult,
       KernelStep, memVars
  <2> QED
    BY <2>1, <2>2
<1>2. ASSUME NEW s \in Sessions, ClientStep(s) PROVE issued \subseteq issued'
  BY <1>2, ClientKeepsMemory DEF memVars
<1>3. ASSUME NEW s \in Sessions, ToolStep(s) PROVE issued \subseteq issued'
  BY <1>3 DEF ToolStep, KernelStep, memVars
<1>4. ASSUME NEW k \in Keys, OrphanStep(k) PROVE issued \subseteq issued'
  BY <1>4 DEF OrphanStep, memVars
<1>5. CASE UNCHANGED vars
  BY <1>5 DEF vars, memVars
<1> QED
  BY <1>1, <1>2, <1>3, <1>4, <1>5 DEF Next

(* What clients send writes inside buffers that were handed out. *)
LEMMA SentInside ==
  ASSUME OffsetsInside, GraphsWellFormed, SizesOK, PointersOK,
         NEW r \in Requests({i.ptr : i \in issued})
  PROVE  RequestInside(r)
<1> DEFINE P == {i.ptr : i \in issued}
<1>1. ASSUME NEW t \in Tensors(P) PROVE Inside(t)
  <2>1. PICK i \in issued : t.home = i.ptr
    BY <1>1 DEF Tensors
  <2>2. PICK z \in Sizes : i.size = Larger(z, 1)
    BY DEF SizesOK
  <2>3. t.off \in Nat /\ t.off < i.size
    BY <1>1, <2>2, AllocAssumption DEF OffsetsInside, Tensors
  <2>4. i.ptr \in Nat /\ i.size \in Nat
    BY DEF PointersOK
  <2>5. data(t) \in i.ptr .. i.ptr + i.size - 1
    BY <2>1, <2>3, <2>4 DEF data
  <2> QED
    BY <2>1, <2>5 DEF Inside
<1>2. CASE r \in [cmd : {"SET_TENSOR", "GET_TENSOR"}, tensor : Tensors(P), offset : Skips]
  BY <1>1, <1>2 DEF RequestInside, Targets
<1>3. CASE r \in [cmd : {"COPY_TENSOR"}, src : Tensors(P), dst : Tensors(P)]
  BY <1>1, <1>3 DEF RequestInside, Targets
<1>4. CASE r \in [cmd : {"GRAPH_COMPUTE"}, device : Devices, nodes : Graphs(Tensors(P))]
  <2> DEFINE T == Tensors(P)
  <2>1. r.cmd = "GRAPH_COMPUTE" /\ r.nodes \in Graphs(T)
    BY <1>4
  <2> HIDE DEF T
  <2>2. r.nodes \in Seq([src : T, dst : T, key : Keys \cup {NoKey}] \cup {Missing})
    BY <2>1 DEF GraphsWellFormed
  <2>3. Len(r.nodes) \in Nat /\ DOMAIN r.nodes = 1 .. Len(r.nodes)
    BY <2>2
  <2>4. \A i \in DOMAIN r.nodes : r.nodes[i] # Missing => r.nodes[i].dst \in T
    BY <2>2
  <2>5. Targets(r) \subseteq T
    BY <2>1, <2>4 DEF Targets
  <2> QED
    BY <2>3, <2>5, <1>1 DEF RequestInside, T
<1>5. CASE r.cmd \notin {"SET_TENSOR", "COPY_TENSOR", "GRAPH_COMPUTE"}
  BY <1>5 DEF RequestInside, Targets
<1>6. \/ r.cmd \notin {"SET_TENSOR", "COPY_TENSOR", "GRAPH_COMPUTE"}
      \/ r \in [cmd : {"SET_TENSOR", "GET_TENSOR"}, tensor : Tensors(P), offset : Skips]
      \/ r \in [cmd : {"COPY_TENSOR"}, src : Tensors(P), dst : Tensors(P)]
      \/ r \in [cmd : {"GRAPH_COMPUTE"}, device : Devices, nodes : Graphs(Tensors(P))]
  BY DEF Requests, PlainCmds, Undecodable
<1> QED
  BY <1>2, <1>3, <1>4, <1>5, <1>6

(* A thread that lets its request go, and one that goes on to the next node. *)
LEMMA ThreadLetsGo ==
  ASSUME RequestsOK, NEW s \in Sessions, NEW at \in {"closed", "hello", "recv"},
         thr' = [thr EXCEPT ![s] = Thread(at, NoRequest, 0, 0)], issued \subseteq issued'
  PROVE  ThreadOK(s)'
<1>1. thr'[s] = Thread(at, NoRequest, 0, 0)
  BY DEF RequestsOK
<1>2. RequestInside(NoRequest)'
  BY StaysInside, NoRequestInside
<1> QED
  BY <1>1, <1>2 DEF ThreadOK, Thread, InNode

LEMMA ThreadNextNode ==
  ASSUME RequestsOK, NEW s \in Sessions, ThreadOK(s), thr[s].req.cmd = "GRAPH_COMPUTE",
         NextNode(s), issued \subseteq issued'
  PROVE  ThreadOK(s)'
<1>0. PICK r : r = thr[s].req
  OBVIOUS
<1>1. CASE thr[s].node < Len(r.nodes)
  <2>1. thr'[s] = Thread("node", r, thr[s].node + 1, 0)
    BY <1>0, <1>1 DEF NextNode, RequestsOK
  <2>2. thr[s].node + 1 \in DOMAIN r.nodes
    BY <1>0, <1>1 DEF ThreadOK, RequestInside
  <2>3. RequestInside(r)'
    BY <1>0, StaysInside DEF ThreadOK
  <2>4. /\ thr'[s].req = r /\ thr'[s].at = "node"
        /\ thr'[s].node \in Nat /\ thr'[s].node \in DOMAIN r.nodes
    BY <2>1, <2>2 DEF ThreadOK, Thread
  <2> QED
    BY <1>0, <2>3, <2>4 DEF ThreadOK, InNode
<1>2. CASE ~(thr[s].node < Len(r.nodes))
  <2>1. thr' = [thr EXCEPT ![s] = Thread("recv", NoRequest, 0, 0)]
    BY <1>0, <1>2 DEF NextNode, RequestsOK
  <2> QED
    BY <2>1, ThreadLetsGo
<1> QED
  BY <1>1, <1>2

(* A thread that keeps its request and its node. *)
LEMMA ThreadGoesTo ==
  ASSUME RequestsOK, NEW s \in Sessions, ThreadOK(s), NEW at, NEW n, Goto(s, at, n),
         issued \subseteq issued',
         at \in InNode => thr[s].at \in InNode /\ node(s) # Missing
  PROVE  ThreadOK(s)'
<1>1. PICK r : r = thr[s].req
  OBVIOUS
<1>2. thr'[s] = Thread(at, r, thr[s].node, n)
  BY <1>1 DEF Goto, RequestsOK
<1>3. RequestInside(r)'
  BY <1>1, StaysInside DEF ThreadOK
<1>4. thr'[s].req = r /\ thr'[s].at = at /\ thr'[s].node = thr[s].node
  BY <1>2 DEF Thread
<1> QED
  BY <1>1, <1>3, <1>4 DEF ThreadOK, InNode, node

(* A request that is answered or dropped. *)
LEMMA RespondLetsGo ==
  ASSUME RequestsOK, NEW s \in Sessions, Done(s) \/ Close(s) \/ Respond(s), issued \subseteq issued'
  PROVE  ThreadOK(s)'
BY ThreadLetsGo DEF Done, Close, Respond

(* Every step of a session keeps its own thread in order. *)
LEMMA SessionKeepsThread ==
  ASSUME RequestsOK, HomeInv, NEW s \in Sessions, SessionStep(s), issued \subseteq issued'
  PROVE  ThreadOK(s)'
<1>0. ThreadOK(s)
  BY DEF HomeInv
<1>1. CASE Recv(s)
  <2>1. CASE Close(s)
    BY <2>1, RespondLetsGo
  <2>2. CASE /\ inbox[s] # <<>>
             /\ thr' = [thr EXCEPT ![s] = Thread("handle", Head(inbox[s]), 0, 0)]
    <3>1. PICK r : r = Head(inbox[s])
      OBVIOUS
    <3>2. 1 \in DOMAIN inbox[s] /\ r = inbox[s][1]
      BY <2>2, <3>1 DEF RequestsOK
    <3>3. RequestInside(r)'
      BY <3>2, StaysInside DEF HomeInv, InboxOK
    <3>4. thr'[s] = Thread("handle", r, 0, 0)
      BY <2>2, <3>1 DEF RequestsOK
    <3>5. thr'[s].req = r /\ thr'[s].at = "handle" /\ thr'[s].node = 0
      BY <3>4 DEF Thread
    <3> QED
      BY <3>3, <3>5 DEF ThreadOK, InNode
  <2> QED
    BY <1>1, <2>1, <2>2 DEF Recv
<1>2. CASE RecvEnd(s) \/ AnswerPlain(s) \/ GetDeviceMemory(s)
  BY <1>2, RespondLetsGo DEF RecvEnd, AnswerPlain, GetDeviceMemory
<1>3. CASE AllocBuffer(s) \/ SettleFree(s) \/ BufferGetBase(s) \/ BufferClear(s)
  BY <1>3, RespondLetsGo DEF AllocBuffer, SettleFree, BufferGetBase, BufferClear
<1>4. CASE FreeBuffer(s)
  BY <1>0, <1>4, RespondLetsGo, ThreadGoesTo DEF FreeBuffer, InNode
<1>5. CASE SetTensor(s) \/ GetTensor(s) \/ CopyTensor(s) \/ GraphRecompute(s)
  BY <1>5, RespondLetsGo DEF SetTensor, Overflow, GetTensor, CopyTensor, GraphRecompute
<1>6. CASE GraphCompute(s)
  BY <1>0, <1>6, RespondLetsGo, ThreadNextNode DEF GraphCompute, Handling
<1>7. CASE NodeError(s)
  BY <1>0, <1>7, ThreadNextNode DEF NodeError, ThreadOK, InNode
<1>8. CASE NodeSpike(s)
  BY <1>0, <1>8, ThreadGoesTo DEF NodeSpike, InNode
<1>9. CASE NodeNumpy(s)
  BY <1>0, <1>9, ThreadGoesTo DEF NodeNumpy, InNode
<1>10. CASE KernelAnswers(s)
  <2>1. thr[s].at \in InNode /\ node(s) # Missing /\ thr[s].req.cmd = "GRAPH_COMPUTE"
    BY <1>0, <1>10 DEF KernelAnswers, ThreadOK, InNode
  <2> QED
    BY <1>0, <1>10, <2>1, ThreadGoesTo, ThreadNextNode DEF KernelAnswers
<1>11. CASE NumpyCompute(s)
  <2>1. thr[s].at \in InNode /\ node(s) # Missing /\ thr[s].req.cmd = "GRAPH_COMPUTE"
    BY <1>0, <1>11 DEF NumpyCompute, ThreadOK, InNode
  <2> QED
    BY <1>0, <1>11, <2>1, ThreadGoesTo, ThreadNextNode DEF NumpyCompute
<1>12. CASE WriteResult(s)
  <2>1. thr[s].req.cmd = "GRAPH_COMPUTE" /\ NextNode(s)
    BY <1>0, <1>12 DEF WriteResult, WriteGone, ThreadOK, InNode
  <2> QED
    BY <1>0, <2>1, ThreadNextNode
<1>13. CASE KernelStep(s)
  <2>1. PICK r : r = thr[s].req
    OBVIOUS
  <2>2. RequestInside(r)' /\ thr' = thr
    BY <1>0, <1>13, <2>1, StaysInside DEF ThreadOK, KernelStep
  <2> QED
    BY <1>0, <2>1, <2>2 DEF ThreadOK, node
<1> QED
  BY <1>1, <1>2, <1>3, <1>4, <1>5, <1>6, <1>7, <1>8, <1>9, <1>10, <1>11, <1>12, <1>13 DEF SessionStep

(* A thread that a step leaves alone stays in order, and so does an inbox that only loses
   requests. *)
LEMMA OthersKeepThread ==
  ASSUME NEW s, ThreadOK(s), thr'[s] = thr[s], issued \subseteq issued'
  PROVE  ThreadOK(s)'
<1>1. PICK r : r = thr[s].req
  OBVIOUS
<1>2. RequestInside(r)'
  BY <1>1, StaysInside DEF ThreadOK
<1> QED
  BY <1>1, <1>2 DEF ThreadOK, node

LEMMA InboxShrinks ==
  ASSUME RequestsOK, NEW s \in Sessions, InboxOK(s), issued \subseteq issued',
         \/ inbox'[s] = inbox[s]
         \/ inbox'[s] = <<>>
         \/ inbox[s] # <<>> /\ inbox'[s] = Tail(inbox[s])
  PROVE  InboxOK(s)'
<1> SUFFICES ASSUME NEW k \in DOMAIN inbox'[s]
             PROVE  RequestInside(inbox[s][k])'
  BY DEF InboxOK
<1>1. PICK r : r = inbox'[s][k]
  OBVIOUS
<1>2. inbox[s] \in Seq(AllRequests)
  BY DEF RequestsOK
<1>3. RequestInside(r)
  <2>1. CASE inbox'[s] = inbox[s]
    BY <1>1, <2>1 DEF InboxOK
  <2>2. CASE inbox'[s] = <<>>
    BY <2>2
  <2>3. CASE inbox[s] # <<>> /\ inbox'[s] = Tail(inbox[s])
    <3>1. k + 1 \in DOMAIN inbox[s] /\ r = inbox[s][k + 1]
      BY <1>1, <1>2, <2>3
    <3> QED
      BY <3>1 DEF InboxOK
  <2> QED
    BY <2>1, <2>2, <2>3
<1>4. RequestInside(r)'
  BY <1>3, StaysInside
<1> QED
  BY <1>1, <1>4

(* A session moves its own thread, and takes requests out of its own inbox only. *)
LEMMA SessionIsLocal ==
  ASSUME RequestsOK, NEW s \in Sessions, SessionStep(s)
  PROVE  /\ \A t \in Sessions \ {s} : thr'[t] = thr[t] /\ inbox'[t] = inbox[t]
         /\ \/ inbox'[s] = inbox[s]
            \/ inbox'[s] = <<>>
            \/ inbox[s] # <<>> /\ inbox'[s] = Tail(inbox[s])
<1>1. CASE Close(s)
  BY <1>1 DEF Close, RequestsOK
<1>2. CASE Done(s)
  BY <1>2 DEF Done, connVars, RequestsOK
<1>3. CASE Respond(s)
  BY <1>1, <1>2, <1>3 DEF Respond, RequestsOK
<1>4. CASE NextNode(s)
  BY <1>4 DEF NextNode, connVars, RequestsOK
<1>5. ASSUME NEW at, NEW n, Goto(s, at, n)
      PROVE  inbox' = inbox /\ \A t \in Sessions \ {s} : thr'[t] = thr[t]
  BY <1>5 DEF Goto, connVars, RequestsOK
<1>6. CASE UNCHANGED <<thr, connVars>>
  BY <1>6 DEF connVars
<1>7. CASE Recv(s)
  <2>1. CASE Close(s)
    BY <1>1, <2>1
  <2>2. CASE ~Close(s)
    BY <1>7, <2>2 DEF Recv, RequestsOK
  <2> QED
    BY <2>1, <2>2
<1> QED
  BY <1>1, <1>2, <1>3, <1>4, <1>5, <1>6, <1>7, SessionSettles DEF Settles

(* Only allocations extend the history, by a buffer of a size that was asked for. *)
LEMMA SessionKeepsSizes ==
  ASSUME RequestsOK, SizesOK, NEW s \in Sessions, SessionStep(s)
  PROVE  SizesOK'
<1>1. CASE AllocBuffer(s)
  <2>1. thr[s].req \in AllRequests /\ thr[s].req.cmd = "ALLOC_BUFFER"
    BY <1>1 DEF RequestsOK, AllocBuffer, Handling, NoRequest, None
  <2>2. thr[s].req.size \in Sizes
    BY <2>1 DEF AllRequests, Requests, PlainCmds, Undecodable
  <2> QED
    BY <1>1, <2>2 DEF AllocBuffer, SizesOK, memVars
<1>2. CASE ~AllocBuffer(s)
  <2>1. issued' = issued
    BY <1>2 DEF SessionStep, Recv, RecvEnd, AnswerPlain, GetDeviceMemory, FreeBuffer,
       SettleFree, BufferGetBase, BufferClear, SetTensor, GetTensor, CopyTensor, GraphCompute,
       GraphRecompute, NodeError, NodeSpike, NodeNumpy, KernelAnswers, NumpyCompute, WriteResult,
       KernelStep, memVars
  <2> QED
    BY <2>1 DEF SizesOK
<1> QED
  BY <1>1, <1>2

LEMMA HomeInvStep ==
  ASSUME OffsetsInside, GraphsWellFormed, MemoryInv, HomeInv, [Next]_vars
  PROVE  HomeInv'
<1>0. issued \subseteq issued' /\ RequestsOK
  BY IssuedGrows DEF MemoryInv
<1>1. ASSUME NEW s \in Sessions, SessionStep(s) PROVE HomeInv'
  <2>1. SizesOK'
    BY <1>0, <1>1, SessionKeepsSizes DEF HomeInv
  <2>2. ThreadOK(s)'
    BY <1>0, <1>1, SessionKeepsThread
  <2>3. InboxOK(s)'
    BY <1>0, <1>1, SessionIsLocal, InboxShrinks DEF HomeInv
  <2>4. ASSUME NEW t \in Sessions, t # s PROVE ThreadOK(t)' /\ InboxOK(t)'
    BY <1>0, <1>1, <2>4, SessionIsLocal, OthersKeepThread, InboxShrinks DEF HomeInv
  <2> QED
    BY <2>1, <2>2, <2>3, <2>4 DEF HomeInv
<1>2. ASSUME NEW s \in Sessions, ClientStep(s) PROVE HomeInv'
  <2>0. issued' = issued
    BY <1>2, ClientKeepsMemory DEF memVars
  <2>1. SizesOK'
    BY <2>0 DEF HomeInv, SizesOK
  <2>2. CASE Connect(s)
    <3>1. ThreadOK(s)'
      BY <1>0, <2>2, ThreadLetsGo DEF Connect
    <3>2. /\ \A t \in Sessions \ {s} : thr'[t] = thr[t] /\ inbox'[t] = inbox[t]
          /\ inbox'[s] = <<>>
      BY <1>0, <2>2 DEF Connect, RequestsOK
    <3>3. ASSUME NEW t \in Sessions PROVE InboxOK(t)'
      BY <1>0, <3>2, InboxShrinks DEF HomeInv
    <3>4. ASSUME NEW t \in Sessions, t # s PROVE ThreadOK(t)'
      BY <1>0, <3>2, <3>4, OthersKeepThread DEF HomeInv
    <3> QED
      BY <2>1, <3>1, <3>3, <3>4 DEF HomeInv
  <2>3. CASE Send(s)
    <3>1. PICK r \in Requests({i.ptr : i \in issued}) : inbox' = [inbox EXCEPT ![s] = Append(@, r)]
      BY <2>3 DEF Send
    <3>2. RequestInside(r)
      BY <3>1, SentInside DEF HomeInv, MemoryInv
    <3>3. ASSUME NEW t \in Sessions, NEW k \in DOMAIN inbox'[t] PROVE RequestInside(inbox[t][k])'
      <4>1. PICK q : q = inbox'[t][k]
        OBVIOUS
      <4>2. inbox[t] \in Seq(AllRequests) /\ inbox'[t] \in {inbox[t], Append(inbox[t], r)}
        BY <1>0, <3>1 DEF RequestsOK
      <4>3. q = r \/ (k \in DOMAIN inbox[t] /\ q = inbox[t][k])
        BY <3>3, <4>1, <4>2
      <4>4. RequestInside(q)
        BY <3>2, <4>3 DEF HomeInv, InboxOK
      <4>5. RequestInside(q)'
        BY <1>0, <4>4, StaysInside
      <4> QED
        BY <4>1, <4>5
    <3>4. ASSUME NEW t \in Sessions PROVE ThreadOK(t)'
      BY <1>0, <2>3, OthersKeepThread DEF HomeInv, Send
    <3> QED
      BY <2>1, <3>3, <3>4 DEF HomeInv, InboxOK
  <2>4. CASE Receive(s) \/ HangUp(s)
    <3>1. UNCHANGED <<thr, inbox>>
      BY <2>4 DEF Receive, HangUp
    <3> QED
      BY <1>0, <2>1, <3>1, OthersKeepThread, InboxShrinks DEF HomeInv
  <2> QED
    BY <1>2, <2>2, <2>3, <2>4 DEF ClientStep
<1>3. CASE UNCHANGED <<memVars, connVars, thr>>
  <2>1. issued' = issued /\ thr' = thr /\ inbox' = inbox
    BY <1>3 DEF memVars, connVars
  <2>2. SizesOK'
    BY <2>1 DEF HomeInv, SizesOK
  <2> QED
    BY <1>0, <2>1, <2>2, OthersKeepThread, InboxShrinks DEF HomeInv
<1>4. ASSUME NEW s \in Sessions, ToolStep(s) PROVE UNCHANGED <<memVars, connVars, thr>>
  BY <1>4 DEF ToolStep, KernelStep
<1>5. ASSUME NEW k \in Keys, OrphanStep(k) PROVE UNCHANGED <<memVars, connVars, thr>>
  BY <1>5 DEF OrphanStep
<1>6. UNCHANGED vars => UNCHANGED <<memVars, connVars, thr>>
  BY DEF vars
<1> QED
  BY <1>1, <1>2, <1>3, <1>4, <1>5, <1>6 DEF Next

LEMMA HomeInvInit == ASSUME Init PROVE HomeInv
<1>1. \A s \in Sessions : thr[s] = Thread("closed", NoRequest, 0, 0) /\ inbox[s] = <<>>
  BY DEF Init
<1> QED
  BY <1>1, NoRequestInside DEF Init, HomeInv, SizesOK, ThreadOK, InboxOK, Thread, InNode

(* A write through an address inside a buffer reaches that buffer only, if any. *)
LEMMA StoreStaysHome ==
  ASSUME AddressesAreOwned, PointersOK, NEW t, Inside(t), Known(data(t)),
         NEW skip, NEW bytes, StoreAt(data(t), skip, bytes),
         NEW p \in DOMAIN buffers, buffers'[p] # buffers[p]
  PROVE  p = t.home
<1>1. PICK i \in issued : t.home = i.ptr /\ data(t) \in i.ptr .. i.ptr + i.size - 1
  BY DEF Inside
<1>2. Holders(data(t)) \subseteq {t.home}
  BY <1>1 DEF AddressesAreOwned
<1>3. Holders(data(t)) = {t.home}
  BY <1>2 DEF Known
<1>4. Find(data(t)) = t.home
  <2>1. t.home <= t.home
    BY <1>1 DEF PointersOK
  <2> QED
    BY <1>3, <2>1 DEF Find
<1> QED
  BY <1>4 DEF StoreAt

(* The buffers that a session's step changes are those its request names. *)
LEMMA SessionWritesHome ==
  ASSUME MemoryInv, HomeInv, NEW s \in Sessions, SessionStep(s),
         NEW p \in DOMAIN buffers, p \in DOMAIN buffers', buffers'[p] # buffers[p]
  PROVE  p \in Named(thr[s].req)
<1>1. AddressesAreOwned /\ PointersOK /\ ThreadOK(s)
  BY OwnedByPointers DEF MemoryInv, HomeInv
<1>2. CASE AllocBuffer(s)
  <2>1. nextPtr \notin DOMAIN buffers
    <3>1. ASSUME nextPtr \in DOMAIN buffers PROVE FALSE
      <4> DEFINE i == [ptr |-> nextPtr, size |-> buffers[nextPtr].size]
      <4>1. i \in issued /\ i.ptr = nextPtr
        BY <3>1 DEF MemoryInv, TableOK
      <4> HIDE DEF i
      <4> QED
        BY <4>1 DEF MemoryInv, PointersOK
    <3> QED
      BY <3>1
  <2> QED
    BY <1>2, <2>1 DEF AllocBuffer, memVars
<1>3. CASE FreeBuffer(s)
  BY <1>3 DEF FreeBuffer, Without
<1>4. CASE BufferClear(s)
  BY <1>4 DEF BufferClear, Handling, Named
<1>5. CASE SetTensor(s)
  <2>1. thr[s].req.cmd = "SET_TENSOR" /\ Inside(thr[s].req.tensor)
    BY <1>1, <1>5 DEF SetTensor, Handling, ThreadOK, RequestInside, Targets
  <2> QED
    BY <1>1, <1>5, <2>1, StoreStaysHome DEF SetTensor, Named
<1>6. CASE CopyTensor(s)
  <2>1. thr[s].req.cmd = "COPY_TENSOR" /\ Inside(thr[s].req.dst)
    BY <1>1, <1>6 DEF CopyTensor, Handling, ThreadOK, RequestInside, Targets
  <2> QED
    BY <1>1, <1>6, <2>1, StoreStaysHome DEF CopyTensor, Copy, Store, Named
<1>7. CASE WriteResult(s)
  <2>1. /\ thr[s].req.cmd = "GRAPH_COMPUTE" /\ thr[s].node \in DOMAIN thr[s].req.nodes
        /\ node(s) # Missing
    BY <1>1, <1>7 DEF WriteResult, ThreadOK, InNode
  <2>2. node(s).dst \in Targets(thr[s].req) /\ node(s).dst.home \in Named(thr[s].req)
    BY <2>1 DEF Targets, Named, node
  <2>3. Inside(node(s).dst)
    BY <1>1, <2>2 DEF ThreadOK, RequestInside
  <2>4. p = node(s).dst.home
    BY <1>1, <1>7, <2>3, StoreStaysHome DEF WriteResult, Store
  <2> QED
    BY <2>2, <2>4
<1>8. CASE ~(\/ AllocBuffer(s) \/ FreeBuffer(s) \/ BufferClear(s) \/ SetTensor(s)
             \/ CopyTensor(s) \/ WriteResult(s))
  BY <1>8 DEF SessionStep, Recv, RecvEnd, AnswerPlain, GetDeviceMemory, SettleFree, BufferGetBase,
     GetTensor, GraphCompute, GraphRecompute, NodeError, NodeSpike, NodeNumpy, KernelAnswers,
     NumpyCompute, KernelStep, memVars
<1> QED
  BY <1>2, <1>3, <1>4, <1>5, <1>6, <1>7, <1>8

(* No step but a session's changes a buffer. *)
LEMMA OnlySessionsWrite ==
  ASSUME [Next]_vars, buffers' # buffers
  PROVE  \E s \in Sessions : SessionStep(s)
<1>1. \A s \in Sessions : ClientStep(s) => buffers' = buffers
  BY ClientKeepsMemory DEF memVars
<1>2. \A s \in Sessions : ToolStep(s) => buffers' = buffers
  BY DEF ToolStep, KernelStep, memVars
<1>3. \A k \in Keys : OrphanStep(k) => buffers' = buffers
  BY DEF OrphanStep, memVars
<1>4. UNCHANGED vars => buffers' = buffers
  BY DEF vars, memVars
<1> QED
  BY <1>1, <1>2, <1>3, <1>4 DEF Next

(* The bytes of a buffer change only while a session handles a request that names it, for any
   number of sessions, whatever is freed and allocated between the lookup of an address
   and the write (graph_compute, set_tensor, copy_tensor, buffer_clear): provided that
   clients compute addresses inside the buffers they were given. *)
THEOREM WritesReachNamedBuffers ==
  ASSUME OffsetsInside, GraphsWellFormed
  PROVE  Spec => WritesStayHome
<1> DEFINE I == MemoryInv /\ HomeInv
           Home == \A p \in DOMAIN buffers : p \in DOMAIN buffers' /\ buffers'[p] # buffers[p] =>
                     \E s \in Sessions : p \in Named(thr[s].req)
<1>1. Init => I
  <2>1. Init => MemoryInv
    BY AllocAssumption DEF Init, MemoryInv, RequestsOK, PointersOK, TableOK, Thread
  <2> QED
    BY <2>1, HomeInvInit
<1>2. I /\ [Next]_vars => I'
  BY MemoryInvStep, HomeInvStep
<1>3. I /\ [Next]_vars => [Home]_vars
  BY OnlySessionsWrite, SessionWritesHome
<1> QED
  BY <1>1, <1>2, <1>3, PTL DEF Spec, WritesStayHome

-----------------------------------------------------------------------------
(* A session in the middle of a graph. *)
LEMMA GraphGoesOn ==
  ASSUME RequestsOK, NEW s \in Sessions, thr[s].at \in InNode, SessionStep(s)
  PROVE  thr'[s].at # "closed"
<1>1. CASE NextNode(s)
  BY <1>1 DEF NextNode, RequestsOK, Thread
<1>2. ASSUME NEW at, NEW n, Goto(s, at, n), at # "closed" PROVE thr'[s].at # "closed"
  BY <1>2 DEF Goto, RequestsOK, Thread
<1>3. CASE thr' = thr
  BY <1>3 DEF InNode
<1>4. ~(\/ Recv(s) \/ RecvEnd(s) \/ AnswerPlain(s) \/ GetDeviceMemory(s)
        \/ AllocBuffer(s) \/ FreeBuffer(s) \/ SettleFree(s) \/ BufferGetBase(s) \/ BufferClear(s)
        \/ SetTensor(s) \/ GetTensor(s) \/ CopyTensor(s) \/ GraphCompute(s) \/ GraphRecompute(s))
  BY DEF Recv, RecvEnd, AnswerPlain, GetDeviceMemory, AllocBuffer, FreeBuffer, SettleFree,
     BufferGetBase, BufferClear, SetTensor, GetTensor, CopyTensor, GraphCompute, GraphRecompute,
     Handling, InNode
<1>5. CASE NodeError(s) \/ NodeSpike(s) \/ NodeNumpy(s) \/ KernelAnswers(s) \/ NumpyCompute(s)
  BY <1>1, <1>2, <1>5 DEF NodeError, NodeSpike, NodeNumpy, KernelAnswers, NumpyCompute
<1>6. CASE WriteResult(s)
  BY <1>1, <1>6 DEF WriteResult, WriteGone
<1>7. CASE KernelStep(s)
  BY <1>3, <1>7 DEF KernelStep
<1> QED
  BY <1>4, <1>5, <1>6, <1>7 DEF SessionStep

(* No step of a graph's walk closes its session, whatever its kernels do, whatever buffers other
   sessions free under it and whatever the clients send ("Failures are logged but don't kill
   the session", graph_compute). *)
THEOREM GraphsNeverCloseSessions == Spec => GraphFailuresContained
<1> DEFINE Open == \A s \in Sessions :
                     thr[s].at \in {"node", "kernel", "numpy", "write"} => thr'[s].at # "closed"
<1>1. Init => MemoryInv
  BY AllocAssumption DEF Init, MemoryInv, RequestsOK, PointersOK, TableOK, Thread
<1>2. MemoryInv /\ [Next]_vars => MemoryInv'
  BY MemoryInvStep
<1>3. ASSUME MemoryInv, [Next]_vars, NEW s \in Sessions, thr[s].at \in InNode
      PROVE  thr'[s].at # "closed"
  <2>1. RequestsOK
    BY <1>3 DEF MemoryInv
  <2>2. CASE thr'[s] = thr[s]
    BY <1>3, <2>2 DEF InNode
  <2>3. ASSUME NEW t \in Sessions, SessionStep(t) PROVE thr'[s].at # "closed"
    BY <1>3, <2>1, <2>2, <2>3, SessionIsLocal, GraphGoesOn
  <2>4. ASSUME NEW t \in Sessions, ClientStep(t) PROVE thr'[s] = thr[s] \/ thr'[s].at # "closed"
    BY <2>1, <2>4 DEF ClientStep, Connect, Send, Receive, HangUp, RequestsOK, Thread
  <2>5. ASSUME NEW t \in Sessions, ToolStep(t) PROVE thr' = thr
    BY <2>5 DEF ToolStep, KernelStep
  <2>6. ASSUME NEW k \in Keys, OrphanStep(k) PROVE thr' = thr
    BY <2>6 DEF OrphanStep
  <2>7. UNCHANGED vars => thr' = thr
    BY DEF vars
  <2> QED
    BY <1>3, <2>2, <2>3, <2>4, <2>5, <2>6, <2>7 DEF Next
<1>4. MemoryInv /\ [Next]_vars => [Open]_vars
  BY <1>3 DEF InNode
<1> QED
  BY <1>1, <1>2, <1>4, PTL DEF Spec, GraphFailuresContained

-----------------------------------------------------------------------------
(* The byte account: sums over the table of buffers and over the frees between their two
   halves, of any size; and the types of the server. *)

(* The two sides of the account: what live buffers hold, and what frees still owe. *)
Held(b) == MapThenSumSet(LAMBDA p : b[p].size, DOMAIN b)
Freeing(th) == {s \in Sessions : th[s].at = "freed"}
Owed(th) == MapThenSumSet(LAMBDA s : th[s].n, Freeing(th))

Sized(b) == IsFiniteSet(DOMAIN b) /\ \A p \in DOMAIN b : b[p].size \in Nat
Counted(th) == \A s \in Sessions : th[s].at = "freed" => th[s].n \in Nat

LEMMA HeldSum ==
  ASSUME NEW b, Sized(b)
  PROVE  IsSum(Held(b), [p \in DOMAIN b |-> b[p].size], DOMAIN b) /\ Held(b) \in Int
<1> DEFINE S == DOMAIN b
           f == [p \in S |-> b[p].size]
           Table(it) == it = [s \in SUBSET S |->
                     IF s = {} THEN 0 ELSE b[CHOOSE x \in s : TRUE].size + it[s \ {CHOOSE x \in s : TRUE}]]
           iter == CHOOSE it : Table(it)
<1>1. IsFiniteSet(S) /\ \A x \in S : f[x] \in Int
  BY DEF Sized
<1>2. ASSUME NEW it
      PROVE  SumTable(it, f, S) <=> Table(it)
  <2>1. \A s \in SUBSET S : s # {} => f[CHOOSE x \in s : TRUE] = b[CHOOSE x \in s : TRUE].size
    OBVIOUS
  <2> QED
    BY <2>1 DEF SumTable
<1>3. \E it : SumTable(it, f, S)
  <2> HIDE DEF f, S
  <2> QED
    BY <1>1, SumTableSums
<1>4. SumTable(iter, f, S)
  <2> HIDE DEF f, S, Table
  <2> QED
    BY <1>2, <1>3
<1>5. IsSum(iter[S], f, S)
  <2> HIDE DEF f, S, iter
  <2> QED
    BY <1>1, <1>4, SumTableSums
<1>6. Held(b) = iter[S]
  BY DEF Held, MapThenSumSet, MapThenFoldSet
<1>7. iter[S] \in Int
  <2> HIDE DEF f, S, iter
  <2> QED
    BY <1>5 DEF IsSum
<1> QED
  BY <1>5, <1>6, <1>7

LEMMA OwedSum ==
  ASSUME NEW th, Counted(th)
  PROVE  /\ IsSum(Owed(th), [s \in Freeing(th) |-> th[s].n], Freeing(th)) /\ Owed(th) \in Int
         /\ IsFiniteSet(Freeing(th))
<1> DEFINE S == Freeing(th)
           f == [p \in S |-> th[p].n]
           Table(it) == it = [s \in SUBSET S |->
                     IF s = {} THEN 0 ELSE th[CHOOSE x \in s : TRUE].n + it[s \ {CHOOSE x \in s : TRUE}]]
           iter == CHOOSE it : Table(it)
<1>1. IsFiniteSet(S)
  <2>1. S \subseteq Sessions
    BY DEF Freeing
  <2> QED
    BY <2>1, SessionsAssumption, FS_Subset
<1>2. IsFiniteSet(S) /\ \A x \in S : f[x] \in Int
  BY <1>1 DEF Counted, Freeing
<1>3. ASSUME NEW it
      PROVE  SumTable(it, f, S) <=> Table(it)
  <2> HIDE DEF S
  <2>1. \A s \in SUBSET S : s # {} => f[CHOOSE x \in s : TRUE] = th[CHOOSE x \in s : TRUE].n
    OBVIOUS
  <2> QED
    BY <2>1 DEF SumTable
<1>4. \E it : SumTable(it, f, S)
  <2> HIDE DEF f, S
  <2> QED
    BY <1>2, SumTableSums
<1>5. SumTable(iter, f, S)
  <2> HIDE DEF f, S, Table
  <2> QED
    BY <1>3, <1>4
<1>6. IsSum(iter[S], f, S)
  <2> HIDE DEF f, S, iter
  <2> QED
    BY <1>2, <1>5, SumTableSums
<1>7. Owed(th) = iter[S]
  BY DEF Owed, MapThenSumSet, MapThenFoldSet
<1>8. iter[S] \in Int
  <2> HIDE DEF f, S, iter
  <2> QED
    BY <1>6 DEF IsSum
<1> QED
  BY <1>1, <1>6, <1>7, <1>8

(* The two sums change by what is added and by nothing else. *)
LEMMA HeldSame ==
  ASSUME NEW b, Sized(b), NEW c, DOMAIN c = DOMAIN b, \A p \in DOMAIN b : c[p].size = b[p].size
  PROVE  Sized(c) /\ Held(c) = Held(b)
<1> DEFINE f == [p \in DOMAIN b |-> b[p].size]
           g == [p \in DOMAIN c |-> c[p].size]
           S == DOMAIN b
<1>1. Sized(c)
  BY DEF Sized
<1>2. IsSum(Held(b), f, S) /\ IsSum(Held(c), g, S)
  BY <1>1, HeldSum
<1>3. \A p \in S : f[p] = g[p]
  OBVIOUS
<1>4. IsFiniteSet(S)
  BY DEF Sized
<1> HIDE DEF f, g, S
<1> QED
  BY <1>1, <1>2, <1>3, <1>4, SumSame

LEMMA HeldGrows ==
  ASSUME NEW b, Sized(b), NEW p, p \notin DOMAIN b, NEW c, DOMAIN c = DOMAIN b \cup {p},
         \A q \in DOMAIN b : c[q].size = b[q].size, c[p].size \in Nat
  PROVE  Sized(c) /\ Held(c) = c[p].size + Held(b) /\ Held(b) \in Int
<1> DEFINE f == [q \in DOMAIN b |-> b[q].size]
           g == [q \in DOMAIN c |-> c[q].size]
           S == DOMAIN b
<1>1. Sized(c)
  BY FS_AddElement DEF Sized
<1>2. IsSum(Held(b), f, S) /\ IsSum(Held(c), g, S \cup {p})
  BY <1>1, HeldSum
<1>3. (\A q \in S : f[q] = g[q]) /\ g[p] = c[p].size /\ p \notin S
  OBVIOUS
<1>4. IsFiniteSet(S)
  BY DEF Sized
<1>5. Held(c) = g[p] + Held(b) /\ Held(b) \in Int
  <2> HIDE DEF f, g, S
  <2> QED
    BY <1>2, <1>3, <1>4, SumGrows
<1> QED
  BY <1>1, <1>3, <1>5

LEMMA OwedSame ==
  ASSUME NEW th, Counted(th), NEW uh,
         \A s \in Sessions : uh[s].at = "freed" <=> th[s].at = "freed",
         \A s \in Sessions : th[s].at = "freed" => uh[s].n = th[s].n
  PROVE  Counted(uh) /\ Owed(uh) = Owed(th)
<1> DEFINE f == [s \in Freeing(th) |-> th[s].n]
           g == [s \in Freeing(uh) |-> uh[s].n]
           S == Freeing(th)
<1>1. Counted(uh) /\ Freeing(uh) = S
  BY DEF Counted, Freeing
<1>2. IsSum(Owed(th), f, S) /\ IsSum(Owed(uh), g, S) /\ IsFiniteSet(S)
  BY <1>1, OwedSum
<1>3. \A s \in S : f[s] = g[s]
  BY <1>1 DEF Freeing
<1> HIDE DEF f, g, S
<1> QED
  BY <1>1, <1>2, <1>3, SumSame

LEMMA OwedGrows ==
  ASSUME NEW th, Counted(th), NEW s \in Sessions, th[s].at # "freed", NEW uh,
         uh[s].at = "freed", uh[s].n \in Nat,
         \A t \in Sessions \ {s} : uh[t].at = "freed" <=> th[t].at = "freed",
         \A t \in Sessions \ {s} : th[t].at = "freed" => uh[t].n = th[t].n
  PROVE  Counted(uh) /\ Owed(uh) = uh[s].n + Owed(th) /\ Owed(th) \in Int
<1> DEFINE f == [t \in Freeing(th) |-> th[t].n]
           g == [t \in Freeing(uh) |-> uh[t].n]
           S == Freeing(th)
<1>1. Counted(uh) /\ Freeing(uh) = S \cup {s} /\ s \notin S
  BY DEF Counted, Freeing
<1>2. IsSum(Owed(th), f, S) /\ IsSum(Owed(uh), g, S \cup {s}) /\ IsFiniteSet(S)
  BY <1>1, OwedSum
<1>3. (\A t \in S : f[t] = g[t]) /\ g[s] = uh[s].n
  BY <1>1 DEF Freeing
<1>4. Owed(uh) = g[s] + Owed(th) /\ Owed(th) \in Int
  <2> HIDE DEF f, g, S
  <2> QED
    BY <1>1, <1>2, <1>3, SumGrows
<1> QED
  BY <1>1, <1>3, <1>4

-----------------------------------------------------------------------------
(* The account, with what it needs: a finite table, and a size kept by every free that is
   between its halves. *)
AccountInv ==
  /\ Sized(buffers) /\ Counted(thr)
  /\ allocated \in Int
  /\ allocated = Held(buffers) + Owed(thr)

(* What most steps leave alone. *)
SameBooks ==
  /\ allocated' = allocated
  /\ DOMAIN buffers' = DOMAIN buffers /\ \A p \in DOMAIN buffers : buffers'[p].size = buffers[p].size
  /\ \A s \in Sessions : thr'[s].at = "freed" <=> thr[s].at = "freed"
  /\ \A s \in Sessions : thr[s].at = "freed" => thr'[s].n = thr[s].n

LEMMA SameBooksKeepAccount ==
  ASSUME AccountInv, SameBooks
  PROVE  AccountInv'
<1>1. Sized(buffers') /\ Held(buffers') = Held(buffers)
  BY HeldSame DEF AccountInv, SameBooks
<1>2. Counted(thr') /\ Owed(thr') = Owed(thr)
  BY OwedSame DEF AccountInv, SameBooks
<1> QED
  BY <1>1, <1>2 DEF AccountInv, SameBooks

(* Only a free goes to its second half, and only that half leaves it. *)
LEMMA SessionFrees ==
  ASSUME RequestsOK, NEW s \in Sessions, SessionStep(s), ~FreeBuffer(s)
  PROVE  /\ thr'[s].at # "freed" \/ thr' = thr
         /\ thr[s].at = "freed" => SettleFree(s)
<1>1. thr[s].at = "freed" => SettleFree(s)
  BY DEF SessionStep, Recv, RecvEnd, AnswerPlain, GetDeviceMemory, AllocBuffer, FreeBuffer,
     BufferGetBase, BufferClear, SetTensor, GetTensor, CopyTensor, GraphCompute,
     GraphRecompute, NodeError, NodeSpike, NodeNumpy, KernelAnswers, NumpyCompute, WriteResult,
     KernelStep, Handling
<1>2. Done(s) => thr'[s].at # "freed"
  BY DEF Done, RequestsOK, Thread
<1>3. Close(s) => thr'[s].at # "freed"
  BY DEF Close, RequestsOK, Thread
<1>4. Respond(s) => thr'[s].at # "freed"
  <2>1. thr' = [thr EXCEPT ![s] = Thread("recv", NoRequest, 0, 0)] => thr'[s].at # "freed"
    BY DEF RequestsOK, Thread
  <2> QED
    BY <1>2, <1>3, <2>1 DEF Respond
<1>5. NextNode(s) => thr'[s].at # "freed"
  BY DEF NextNode, RequestsOK, Thread
<1>6. ASSUME NEW at, NEW n, Goto(s, at, n), at # "freed" PROVE thr'[s].at # "freed"
  BY <1>6 DEF Goto, RequestsOK, Thread
<1>7. CASE Recv(s)
  <2>1. CASE thr' = [thr EXCEPT ![s] = Thread("handle", Head(inbox[s]), 0, 0)]
    BY <1>1, <1>7, <2>1 DEF RequestsOK, Thread, Recv, SettleFree
  <2>2. CASE Close(s)
    BY <1>1, <1>3, <2>2
  <2> QED
    BY <1>7, <2>1, <2>2 DEF Recv
<1>8. CASE KernelStep(s)
  BY <1>1, <1>8 DEF KernelStep
<1>9. CASE RecvEnd(s) \/ AnswerPlain(s) \/ GetDeviceMemory(s) \/ AllocBuffer(s) \/ SettleFree(s)
  BY <1>1, <1>3, <1>4, <1>9 DEF RecvEnd, AnswerPlain, GetDeviceMemory, AllocBuffer, SettleFree
<1>10. CASE BufferGetBase(s) \/ BufferClear(s) \/ SetTensor(s) \/ GetTensor(s) \/ CopyTensor(s)
  BY <1>1, <1>2, <1>3, <1>4, <1>10 DEF BufferGetBase, BufferClear, SetTensor, Overflow, GetTensor, CopyTensor
<1>11. CASE GraphCompute(s) \/ GraphRecompute(s) \/ NodeError(s) \/ NodeSpike(s) \/ NodeNumpy(s)
  BY <1>1, <1>2, <1>3, <1>5, <1>6, <1>11 DEF GraphCompute, GraphRecompute, NodeError, NodeSpike, NodeNumpy
<1>12. CASE KernelAnswers(s) \/ NumpyCompute(s) \/ WriteResult(s)
  BY <1>1, <1>5, <1>6, <1>12 DEF KernelAnswers, NumpyCompute, WriteResult, WriteGone
<1> QED
  BY <1>7, <1>8, <1>9, <1>10, <1>11, <1>12 DEF SessionStep

(* Writing into a buffer changes neither the table's pointers nor its sizes. *)
LEMMA BytesKeepSizes ==
  ASSUME NEW p, NEW bytes, buffers' = [buffers EXCEPT ![p].bytes = bytes]
  PROVE  DOMAIN buffers' = DOMAIN buffers /\ \A q \in DOMAIN buffers : buffers'[q].size = buffers[q].size
<1>1. ASSUME NEW q \in DOMAIN buffers PROVE buffers'[q].size = buffers[q].size
  <2>1. CASE q = p
    <3>1. buffers'[q] = [buffers[q] EXCEPT !.bytes = bytes]
      BY <2>1
    <3> QED
      BY <3>1
  <2>2. CASE q # p
    BY <2>2
  <2> QED
    BY <2>1, <2>2
<1> QED
  BY <1>1

LEMMA StoreKeepsSizes ==
  ASSUME NEW addr, NEW skip, NEW bytes, StoreAt(addr, skip, bytes)
  PROVE  DOMAIN buffers' = DOMAIN buffers /\ \A q \in DOMAIN buffers : buffers'[q].size = buffers[q].size
BY BytesKeepSizes DEF StoreAt

(* The steps of a session that neither allocate nor free. *)
LEMMA SessionKeepsBooks ==
  ASSUME RequestsOK, NEW s \in Sessions, SessionStep(s),
         ~AllocBuffer(s), ~FreeBuffer(s), ~SettleFree(s)
  PROVE  SameBooks
<1>1. /\ DOMAIN buffers' = DOMAIN buffers
      /\ \A p \in DOMAIN buffers : buffers'[p].size = buffers[p].size
  <2>1. CASE BufferClear(s)
    BY <2>1, BytesKeepSizes DEF BufferClear
  <2>2. CASE SetTensor(s)
    BY <2>2, StoreKeepsSizes DEF SetTensor
  <2>3. CASE CopyTensor(s)
    BY <2>3, StoreKeepsSizes DEF CopyTensor, Copy, Store
  <2>4. CASE WriteResult(s)
    BY <2>4, StoreKeepsSizes DEF WriteResult, Store
  <2>5. CASE ~(BufferClear(s) \/ SetTensor(s) \/ CopyTensor(s) \/ WriteResult(s))
    BY <2>5 DEF SessionStep, Recv, RecvEnd, AnswerPlain, GetDeviceMemory, BufferGetBase, GetTensor,
       GraphCompute, GraphRecompute, NodeError, NodeSpike, NodeNumpy, KernelAnswers, NumpyCompute,
       KernelStep, memVars
  <2> QED
    BY <2>1, <2>2, <2>3, <2>4, <2>5
<1>2. allocated' = allocated
  BY DEF SessionStep, Recv, RecvEnd, AnswerPlain, GetDeviceMemory, BufferGetBase, BufferClear, SetTensor,
     GetTensor, CopyTensor, GraphCompute, GraphRecompute, NodeError, NodeSpike, NodeNumpy,
     KernelAnswers, NumpyCompute, WriteResult, KernelStep, memVars
<1>3. thr[s].at # "freed" /\ (thr'[s].at # "freed" \/ thr' = thr)
  BY SessionFrees
<1>4. \A t \in Sessions \ {s} : thr'[t] = thr[t]
  BY SessionIsLocal
<1> QED
  BY <1>1, <1>2, <1>3, <1>4 DEF SameBooks

(* An allocation is accounted for as it is entered in the table. *)
LEMMA AllocKeepsAccount ==
  ASSUME MemoryInv, AccountInv, NEW s \in Sessions, SessionStep(s), AllocBuffer(s)
  PROVE  AccountInv'
<1> DEFINE size == Larger(thr[s].req.size, 1)
<1>1. RequestsOK /\ thr[s].at # "freed"
  BY DEF MemoryInv, AllocBuffer, Handling
<1>2. thr'[s].at # "freed" /\ \A t \in Sessions \ {s} : thr'[t] = thr[t]
  BY <1>1, SessionFrees, SessionIsLocal DEF AllocBuffer, FreeBuffer, Handling
<1>3. Counted(thr') /\ Owed(thr') = Owed(thr)
  BY <1>1, <1>2, OwedSame DEF AccountInv
<1>4. CASE UNCHANGED <<buffers, allocated>>
  BY <1>3, <1>4 DEF AccountInv
<1>5. CASE /\ buffers' = [p \in DOMAIN buffers \cup {nextPtr} |->
                            IF p = nextPtr THEN [size |-> size, bytes |-> [i \in 1 .. size |-> 0]]
                            ELSE buffers[p]]
           /\ allocated' = allocated + size
  <2>1. size \in Nat
    <3>1. thr[s].req # NoRequest
      BY DEF AllocBuffer, Handling, NoRequest, None
    <3>2. thr[s].req.size \in Nat
      BY <1>1, <3>1, RequestFacts DEF RequestsOK, AllocBuffer, Handling
    <3> QED
      BY <3>2 DEF Larger
  <2>2. nextPtr \notin DOMAIN buffers
    <3>1. ASSUME nextPtr \in DOMAIN buffers PROVE FALSE
      <4> DEFINE i == [ptr |-> nextPtr, size |-> buffers[nextPtr].size]
      <4>1. i \in issued /\ i.ptr = nextPtr
        BY <3>1 DEF MemoryInv, TableOK
      <4> HIDE DEF i
      <4> QED
        BY <4>1 DEF MemoryInv, PointersOK
    <3> QED
      BY <3>1
  <2> HIDE DEF size
  <2>3. /\ DOMAIN buffers' = DOMAIN buffers \cup {nextPtr}
        /\ \A q \in DOMAIN buffers : buffers'[q].size = buffers[q].size
        /\ buffers'[nextPtr].size = size
    BY <1>5, <2>2
  <2>4. Sized(buffers') /\ Held(buffers') = size + Held(buffers) /\ Held(buffers) \in Int
    BY <2>1, <2>2, <2>3, HeldGrows DEF AccountInv
  <2>5. Owed(thr) \in Int
    BY OwedSum DEF AccountInv
  <2> QED
    BY <1>3, <1>5, <2>1, <2>4, <2>5 DEF AccountInv
<1>6. CASE UNCHANGED memVars
  BY <1>4, <1>6 DEF memVars
<1> QED
  BY <1>4, <1>5, <1>6 DEF AllocBuffer

(* A free moves the size from the table to what is owed; its second half settles it. *)
LEMMA FreeKeepsAccount ==
  ASSUME MemoryInv, AccountInv, NEW s \in Sessions, SessionStep(s), FreeBuffer(s)
  PROVE  AccountInv'
<1> DEFINE p == thr[s].req.ptr
<1>1. RequestsOK /\ thr[s].at # "freed" /\ \A t \in Sessions \ {s} : thr'[t] = thr[t]
  BY SessionIsLocal DEF MemoryInv, FreeBuffer, Handling
<1>2. CASE p \in DOMAIN buffers /\ Goto(s, "freed", buffers[p].size) /\ buffers' = Without(p)
  <2>1. thr'[s].at = "freed" /\ thr'[s].n = buffers[p].size
    BY <1>1, <1>2 DEF Goto, RequestsOK, Thread
  <2>2. buffers[p].size \in Nat
    BY <1>2 DEF AccountInv, Sized
  <2>3. Counted(thr') /\ Owed(thr') = buffers[p].size + Owed(thr) /\ Owed(thr) \in Int
    BY <1>1, <2>1, <2>2, OwedGrows DEF AccountInv
  <2>4. /\ p \notin DOMAIN buffers' /\ DOMAIN buffers = DOMAIN buffers' \cup {p}
        /\ \A q \in DOMAIN buffers' : buffers'[q] = buffers[q]
    BY <1>2 DEF Without
  <2>5. Sized(buffers')
    <3>1. DOMAIN buffers' \in SUBSET DOMAIN buffers
      BY <2>4
    <3>2. IsFiniteSet(DOMAIN buffers')
      BY <3>1, FS_Subset DEF AccountInv, Sized
    <3> QED
      BY <2>4, <3>2 DEF AccountInv, Sized
  <2>6. Held(buffers) = buffers[p].size + Held(buffers') /\ Held(buffers') \in Int
    <3> HIDE DEF p
    <3> QED
      BY <2>2, <2>4, <2>5, HeldGrows
  <2>7. allocated' = allocated
    BY DEF FreeBuffer
  <2> HIDE DEF p
  <2> QED
    BY <2>2, <2>3, <2>5, <2>6, <2>7 DEF AccountInv
<1>3. CASE Respond(s) /\ UNCHANGED buffers
  <2>1. thr'[s].at # "freed"
    <3>1. thr' = [thr EXCEPT ![s] = Thread("recv", NoRequest, 0, 0)] => thr'[s].at # "freed"
      BY <1>1 DEF RequestsOK, Thread
    <3>2. thr' = [thr EXCEPT ![s] = Thread("closed", NoRequest, 0, 0)] => thr'[s].at # "freed"
      BY <1>1 DEF RequestsOK, Thread
    <3> QED
      BY <1>3, <3>1, <3>2 DEF Respond, Done, Close
  <2>2. SameBooks
    BY <1>1, <1>3, <2>1 DEF SameBooks, FreeBuffer
  <2> QED
    BY <2>2, SameBooksKeepAccount
<1> QED
  BY <1>2, <1>3 DEF FreeBuffer

LEMMA SettleKeepsAccount ==
  ASSUME MemoryInv, AccountInv, NEW s \in Sessions, SessionStep(s), SettleFree(s)
  PROVE  AccountInv'
<1>1. RequestsOK /\ thr[s].at = "freed" /\ \A t \in Sessions \ {s} : thr'[t] = thr[t]
  BY SessionIsLocal DEF MemoryInv, SettleFree
<1>2. thr'[s].at # "freed"
  <2>1. thr' = [thr EXCEPT ![s] = Thread("recv", NoRequest, 0, 0)] => thr'[s].at # "freed"
    BY <1>1 DEF RequestsOK, Thread
  <2>2. thr' = [thr EXCEPT ![s] = Thread("closed", NoRequest, 0, 0)] => thr'[s].at # "freed"
    BY <1>1 DEF RequestsOK, Thread
  <2> QED
    BY <2>1, <2>2 DEF SettleFree, Respond, Done, Close
<1>3. Counted(thr') /\ thr[s].n \in Nat
  BY <1>1, <1>2 DEF AccountInv, Counted
<1>4. Owed(thr) = thr[s].n + Owed(thr') /\ Owed(thr') \in Int
  BY <1>1, <1>2, <1>3, OwedGrows
<1>5. Held(buffers) \in Int
  BY HeldSum DEF AccountInv
<1>6. buffers' = buffers /\ allocated' = allocated - thr[s].n
  BY DEF SettleFree
<1> QED
  BY <1>3, <1>4, <1>5, <1>6 DEF AccountInv

LEMMA AccountStep ==
  ASSUME MemoryInv, AccountInv, [Next]_vars
  PROVE  AccountInv'
<1>1. ASSUME NEW s \in Sessions, SessionStep(s) PROVE AccountInv'
  BY <1>1, AllocKeepsAccount, FreeKeepsAccount, SettleKeepsAccount, SessionKeepsBooks,
     SameBooksKeepAccount DEF MemoryInv
<1>2. ASSUME NEW s \in Sessions, ClientStep(s) PROVE SameBooks
  <2>1. UNCHANGED memVars
    BY <1>2, ClientKeepsMemory
  <2>2. CASE Connect(s)
    <3>1. thr[s].at = "closed" /\ thr'[s].at = "hello" /\ \A t \in Sessions \ {s} : thr'[t] = thr[t]
      BY <2>2 DEF Connect, MemoryInv, RequestsOK, Thread
    <3> QED
      BY <2>1, <3>1 DEF SameBooks, memVars
  <2>3. CASE thr' = thr
    BY <2>1, <2>3 DEF SameBooks, memVars
  <2> QED
    BY <1>2, <2>2, <2>3 DEF ClientStep, Send, Receive, HangUp
<1>3. CASE UNCHANGED <<memVars, connVars, thr>>
  BY <1>3, SameBooksKeepAccount DEF SameBooks, memVars
<1>4. ASSUME NEW s \in Sessions, ToolStep(s) PROVE UNCHANGED <<memVars, connVars, thr>>
  BY <1>4 DEF ToolStep, KernelStep
<1>5. ASSUME NEW k \in Keys, OrphanStep(k) PROVE UNCHANGED <<memVars, connVars, thr>>
  BY <1>5 DEF OrphanStep
<1>6. UNCHANGED vars => UNCHANGED <<memVars, connVars, thr>>
  BY DEF vars
<1> QED
  BY <1>1, <1>2, <1>3, <1>4, <1>5, <1>6, SameBooksKeepAccount DEF Next

LEMMA AccountInit ==
  ASSUME Init
  PROVE  AccountInv
<1>1. DOMAIN buffers = {} /\ allocated = 0 /\ \A s \in Sessions : thr[s].at = "closed"
  BY DEF Init, Thread
<1>2. Sized(buffers) /\ Counted(thr) /\ Freeing(thr) = {}
  BY <1>1, FS_EmptySet DEF Sized, Counted, Freeing
<1>3. IsSum(Held(buffers), [p \in DOMAIN buffers |-> buffers[p].size], DOMAIN buffers)
  BY <1>2, HeldSum
<1>4. Held(buffers) = 0
  BY <1>1, <1>3 DEF IsSum, Additive
<1>5. IsSum(Owed(thr), [s \in Freeing(thr) |-> thr[s].n], Freeing(thr))
  BY <1>2, OwedSum
<1>6. Owed(thr) = 0
  BY <1>2, <1>5 DEF IsSum, Additive
<1> QED
  BY <1>1, <1>2, <1>4, <1>6 DEF AccountInv

(* The bytes the server reports as allocated are those of the live buffers and of the frees
   that other sessions have begun and not settled, for any number of both (DeviceMemory.alloc,
   free and free_bytes): nothing is counted twice or forgotten, however the two halves of
   frees interleave with allocations. *)
THEOREM AccountBalances == Spec => []Accounted
<1>1. Init => MemoryInv /\ AccountInv
  <2>1. Init => MemoryInv
    BY AllocAssumption DEF Init, MemoryInv, RequestsOK, PointersOK, TableOK, Thread
  <2> QED
    BY <2>1, AccountInit
<1>2. MemoryInv /\ AccountInv /\ [Next]_vars => MemoryInv' /\ AccountInv'
  BY MemoryInvStep, AccountStep
<1>3. AccountInv => Accounted
  BY DEF AccountInv, Accounted, Held, Owed, Freeing
<1> QED
  BY <1>1, <1>2, <1>3, PTL DEF Spec

-----------------------------------------------------------------------------
(* Types.  A graph over some tensors is a graph over more tensors too, so that what was
   sent stays a request as buffers are added. *)
GraphsGrow == \A T, U : T \subseteq U => Graphs(T) \subseteq Graphs(U)

LEMMA RequestsGrow ==
  ASSUME GraphsGrow, NEW P, NEW Q, P \subseteq Q
  PROVE  Requests(P) \subseteq Requests(Q)
<1>1. Tensors(P) \subseteq Tensors(Q)
  BY DEF Tensors
<1>2. Graphs(Tensors(P)) \subseteq Graphs(Tensors(Q))
  BY <1>1 DEF GraphsGrow
<1> QED
  BY <1>1, <1>2 DEF Requests

(* The nodes of a graph that is under way. *)
LEMMA GraphFacts ==
  ASSUME GraphsWellFormed, NEW P, NEW r \in Requests(P), r.cmd = "GRAPH_COMPUTE"
  PROVE  /\ Len(r.nodes) \in Nat /\ DOMAIN r.nodes = 1 .. Len(r.nodes)
         /\ \A i \in DOMAIN r.nodes : r.nodes[i] # Missing => r.nodes[i].key \in Keys \cup {NoKey}
<1> DEFINE T == Tensors(P)
<1>1. r.nodes \in Graphs(T)
  BY DEF Requests, PlainCmds, Undecodable
<1> HIDE DEF T
<1>2. r.nodes \in Seq([src : T, dst : T, key : Keys \cup {NoKey}] \cup {Missing})
  BY <1>1 DEF GraphsWellFormed
<1> QED
  BY <1>2

(* Rounding up yields a multiple. *)
LEMMA RoundUpTidy ==
  ASSUME NEW n \in Nat, NEW m \in Nat \ {0}
  PROVE  RoundUp(n, m) % m = 0
<1> DEFINE q == (n + m - 1) \div m
           x == q * m
<1>1. q \in Nat /\ x \in Nat
  BY DEF RoundUp
<1>2. x % m \in 0 .. m - 1 /\ x \div m \in Nat /\ x = (m * (x \div m)) + (x % m)
  BY <1>1
<1> DEFINE e == q - (x \div m)
<1>3. e \in Int /\ m * e = x % m
  <2>1. m * e = (m * q) - (m * (x \div m))
    BY <1>1, <1>2
  <2>2. m * q = x
    BY <1>1
  <2> HIDE DEF q, x, e
  <2> QED
    BY <1>1, <1>2, <2>1, <2>2 DEF e
<1>4. e >= 1 => m * e >= m
  <2> HIDE DEF e, x
  <2> QED
    BY <1>3
<1>5. e <= -1 => m * e < 0
  <2> HIDE DEF e, x
  <2> QED
    BY <1>3
<1>6. e = 0 => m * e = 0
  <2> HIDE DEF e, x
  <2> QED
    BY <1>3
<1>7. x % m = 0
  <2>1. PICK y \in 0 .. m - 1 : y = x % m
    BY <1>2
  <2>2. PICK z : z = m * e
    OBVIOUS
  <2>3. y = z /\ (e >= 1 => z >= m) /\ (e <= -1 => z < 0) /\ (e = 0 => z = 0)
    BY <1>3, <1>4, <1>5, <1>6, <2>1, <2>2
  <2> HIDE DEF e, x
  <2> QED
    BY <1>3, <2>1, <2>3
<1> QED
  BY <1>7 DEF RoundUp

(* Pointers stay on the granularity. *)
Tidied ==
  /\ nextPtr % Tidy = 0
  /\ \A i \in issued : i.ptr % Tidy = 0

LEMMA TidiedStep ==
  ASSUME MemoryInv, Tidied, [Next]_vars
  PROVE  Tidied'
<1>1. ASSUME NEW s \in Sessions, AllocBuffer(s) PROVE Tidied'
  <2> DEFINE size == Larger(thr[s].req.size, 1)
  <2>1. thr[s].req.size \in Nat
    <3>1. thr[s].req # NoRequest
      BY <1>1 DEF AllocBuffer, Handling, NoRequest, None
    <3> QED
      BY <1>1, <3>1, RequestFacts DEF MemoryInv, RequestsOK, AllocBuffer, Handling
  <2>2. size \in Nat /\ nextPtr \in Nat
    BY <2>1 DEF Larger, MemoryInv, PointersOK
  <2> HIDE DEF size
  <2>3. nextPtr + Larger(size, Alignment) \in Nat
    BY <2>2, AllocAssumption DEF Larger
  <2>4. Advance(nextPtr, size) % Tidy = 0
    BY <2>3, RoundUpTidy, AllocAssumption DEF Advance
  <2>5. nextPtr' \in {nextPtr, Advance(nextPtr, size)} /\ issued' \subseteq issued \cup {[ptr |-> nextPtr, size |-> size]}
    BY <1>1 DEF AllocBuffer, memVars, size
  <2> QED
    BY <2>4, <2>5 DEF Tidied
<1>2. ASSUME NEW s \in Sessions, SessionStep(s), ~AllocBuffer(s) PROVE Tidied'
  BY <1>2 DEF SessionStep, Recv, RecvEnd, AnswerPlain, GetDeviceMemory, FreeBuffer, SettleFree,
     BufferGetBase, BufferClear, SetTensor, GetTensor, CopyTensor, GraphCompute, GraphRecompute,
     NodeError, NodeSpike, NodeNumpy, KernelAnswers, NumpyCompute, WriteResult, KernelStep, memVars, Tidied
<1>3. CASE UNCHANGED memVars
  BY <1>3 DEF memVars, Tidied
<1>4. \A s \in Sessions : ClientStep(s) => UNCHANGED memVars
  BY ClientKeepsMemory
<1>5. \A s \in Sessions : ToolStep(s) => UNCHANGED memVars
  BY DEF ToolStep, KernelStep
<1>6. \A k \in Keys : OrphanStep(k) => UNCHANGED memVars
  BY DEF OrphanStep
<1>7. UNCHANGED vars => UNCHANGED memVars
  BY DEF vars
<1> QED
  BY <1>1, <1>2, <1>3, <1>4, <1>5, <1>6, <1>7 DEF Next

(* Requests under way are over pointers that were handed out. *)
Handed == {b.ptr : b \in issued}
Sent(s) ==
  /\ \A i \in 1 .. Len(inbox[s]) : inbox[s][i] \in Requests(Handed)
  /\ thr[s].req \in {NoRequest} \cup Requests(Handed)

LEMMA SentStays ==
  ASSUME GraphsGrow, NEW s \in Sessions, Sent(s), issued \subseteq issued',
         \/ inbox'[s] = inbox[s]
         \/ inbox'[s] = <<>>
         \/ inbox[s] # <<>> /\ inbox[s] \in Seq(AllRequests) /\ inbox'[s] = Tail(inbox[s]),
         thr'[s].req \in {NoRequest, thr[s].req} \cup {inbox[s][i] : i \in 1 .. Len(inbox[s])}
  PROVE  Sent(s)'
<1>1. Handed \subseteq Handed'
  BY DEF Handed
<1>2. Requests(Handed) \subseteq Requests(Handed')
  BY <1>1, RequestsGrow
<1>3. thr'[s].req \in {NoRequest} \cup Requests(Handed')
  BY <1>2 DEF Sent
<1>4. ASSUME NEW i \in 1 .. Len(inbox'[s]) PROVE inbox'[s][i] \in Requests(Handed)
  <2>1. CASE inbox'[s] = inbox[s]
    BY <2>1 DEF Sent
  <2>2. CASE inbox'[s] = <<>>
    BY <2>2
  <2>3. CASE inbox[s] # <<>> /\ inbox[s] \in Seq(AllRequests) /\ inbox'[s] = Tail(inbox[s])
    <3>1. i + 1 \in 1 .. Len(inbox[s]) /\ inbox'[s][i] = inbox[s][i + 1]
      BY <2>3
    <3> QED
      BY <3>1 DEF Sent
  <2> QED
    BY <2>1, <2>2, <2>3
<1> QED
  BY <1>2, <1>3, <1>4 DEF Sent

(* A session takes its next request from its inbox, keeps the one it has, or drops it. *)
LEMMA SessionTakes ==
  ASSUME RequestsOK, NEW s \in Sessions, SessionStep(s)
  PROVE  thr'[s].req \in {NoRequest, thr[s].req} \cup {inbox[s][i] : i \in 1 .. Len(inbox[s])}
<1>1. Done(s) \/ Close(s) \/ Respond(s) => thr'[s].req = NoRequest
  <2>1. \A at \in {"recv", "closed"} :
          thr' = [thr EXCEPT ![s] = Thread(at, NoRequest, 0, 0)] => thr'[s].req = NoRequest
    BY DEF RequestsOK, Thread
  <2> QED
    BY <2>1 DEF Respond, Done, Close
<1>2. NextNode(s) => thr'[s].req \in {NoRequest, thr[s].req}
  BY DEF NextNode, RequestsOK, Thread
<1>3. \A at, n : Goto(s, at, n) => thr'[s].req = thr[s].req
  BY DEF Goto, RequestsOK, Thread
<1>4. CASE Recv(s) /\ ~Close(s)
  <2>1. inbox[s] # <<>> /\ thr' = [thr EXCEPT ![s] = Thread("handle", Head(inbox[s]), 0, 0)]
    BY <1>4 DEF Recv
  <2>2. thr'[s].req = Head(inbox[s])
    BY <2>1 DEF RequestsOK, Thread
  <2>3. Head(inbox[s]) = inbox[s][1] /\ 1 \in 1 .. Len(inbox[s])
    BY <2>1 DEF RequestsOK
  <2> QED
    BY <2>2, <2>3
<1> QED
  BY <1>1, <1>2, <1>3, <1>4, SessionSettles DEF Settles

LEMMA SentStep ==
  ASSUME GraphsGrow, MemoryInv, \A s \in Sessions : Sent(s), [Next]_vars
  PROVE  \A s \in Sessions : Sent(s)'
<1>1. issued \subseteq issued' /\ RequestsOK
  BY IssuedGrows DEF MemoryInv
<1>2. ASSUME NEW s \in Sessions, SessionStep(s), NEW t \in Sessions PROVE Sent(t)'
  <2>1. inbox[s] \in Seq(AllRequests)
    BY <1>1 DEF RequestsOK
  <2>2. CASE t = s
    BY <1>1, <1>2, <2>1, <2>2, SessionIsLocal, SessionTakes, SentStays
  <2>3. CASE t # s
    BY <1>1, <1>2, <2>3, SessionIsLocal, SentStays
  <2> QED
    BY <2>2, <2>3
<1>3. ASSUME NEW s \in Sessions, ClientStep(s), NEW t \in Sessions PROVE Sent(t)'
  <2>1. CASE Connect(s)
    <3>1. thr'[t].req \in {NoRequest, thr[t].req} /\ inbox'[t] \in {<<>>, inbox[t]}
      BY <1>1, <2>1 DEF Connect, RequestsOK, Thread
    <3> QED
      BY <1>1, <3>1, SentStays
  <2>2. CASE Send(s)
    <3>1. PICK r \in Requests(Handed) : inbox' = [inbox EXCEPT ![s] = Append(@, r)]
      BY <2>2 DEF Send, Handed
    <3>2. thr' = thr /\ Handed' = Handed
      BY <2>2 DEF Send, memVars, Handed
    <3>3. inbox[t] \in Seq(AllRequests) /\ inbox'[t] \in {inbox[t], Append(inbox[t], r)}
      BY <1>1, <3>1 DEF RequestsOK
    <3>4. \A i \in 1 .. Len(inbox'[t]) : inbox'[t][i] \in Requests(Handed)
      BY <3>3 DEF Sent
    <3> QED
      BY <3>2, <3>4 DEF Sent
  <2>3. CASE UNCHANGED <<thr, inbox>>
    BY <1>1, <2>3, SentStays
  <2> QED
    BY <1>3, <2>1, <2>2, <2>3 DEF ClientStep, Receive, HangUp
<1>4. ASSUME UNCHANGED <<memVars, connVars, thr>>, NEW t \in Sessions PROVE Sent(t)'
  BY <1>1, <1>4, SentStays DEF connVars
<1>5. ASSUME NEW s \in Sessions, ToolStep(s) PROVE UNCHANGED <<memVars, connVars, thr>>
  BY <1>5 DEF ToolStep, KernelStep
<1>6. ASSUME NEW k \in Keys, OrphanStep(k) PROVE UNCHANGED <<memVars, connVars, thr>>
  BY <1>6 DEF OrphanStep
<1>7. UNCHANGED vars => UNCHANGED <<memVars, connVars, thr>>
  BY DEF vars
<1> QED
  BY <1>2, <1>3, <1>4, <1>5, <1>6, <1>7 DEF Next

(* A thread in the middle of a graph is at one of its nodes. *)
WalkOK(s) ==
  /\ thr[s].node \in Nat
  /\ thr[s].at \in InNode => thr[s].req.cmd = "GRAPH_COMPUTE" /\ thr[s].node \in DOMAIN thr[s].req.nodes

(* A thread that lets go of its request is at no node; one that goes on stays at its own, or
   walks to the next. *)
LEMMA WalkEnds ==
  ASSUME NEW s, NEW at, at \notin InNode, NEW r, thr'[s] = Thread(at, r, 0, 0)
  PROVE  WalkOK(s)'
BY DEF WalkOK, Thread

LEMMA WalkGoesTo ==
  ASSUME RequestsOK, NEW s \in Sessions, WalkOK(s), NEW at, NEW n, Goto(s, at, n),
         at \in InNode => thr[s].at \in InNode
  PROVE  WalkOK(s)'
<1>1. thr'[s].at = at /\ thr'[s].req = thr[s].req /\ thr'[s].node = thr[s].node
  BY DEF Goto, RequestsOK, Thread
<1> QED
  BY <1>1 DEF WalkOK

LEMMA WalkGoesOn ==
  ASSUME GraphsWellFormed, RequestsOK, NEW s \in Sessions, WalkOK(s), NextNode(s),
         thr[s].req.cmd = "GRAPH_COMPUTE"
  PROVE  WalkOK(s)'
<1>1. thr[s].req \in AllRequests
  BY DEF RequestsOK, NoRequest, None
<1>2. Len(thr[s].req.nodes) \in Nat /\ DOMAIN thr[s].req.nodes = 1 .. Len(thr[s].req.nodes)
  <2>1. PICK P \in SUBSET Nat : thr[s].req \in Requests(P)
    BY <1>1 DEF AllRequests
  <2> QED
    BY <2>1, GraphFacts
<1>3. CASE thr[s].node < Len(thr[s].req.nodes)
  <2>1. /\ thr'[s].req = thr[s].req /\ thr'[s].node = thr[s].node + 1
    BY <1>3 DEF NextNode, RequestsOK, Thread
  <2> QED
    BY <1>2, <1>3, <2>1 DEF WalkOK
<1>4. CASE ~(thr[s].node < Len(thr[s].req.nodes))
  <2>1. thr'[s] = Thread("recv", NoRequest, 0, 0)
    BY <1>4 DEF NextNode, RequestsOK
  <2> QED
    BY <2>1, WalkEnds DEF InNode
<1> QED
  BY <1>3, <1>4

LEMMA SessionWalks ==
  ASSUME GraphsWellFormed, RequestsOK, NEW s \in Sessions, WalkOK(s), SessionStep(s)
  PROVE  WalkOK(s)'
<1>1. CASE Done(s) \/ Close(s) \/ Respond(s)
  <2>1. \E at \in {"recv", "closed"} : thr'[s] = Thread(at, NoRequest, 0, 0)
    BY <1>1 DEF Done, Close, Respond, RequestsOK
  <2> QED
    BY <2>1, WalkEnds DEF InNode
<1>2. CASE thr' = thr
  BY <1>2 DEF WalkOK
<1>3. CASE Recv(s) /\ ~Close(s)
  <2>1. thr'[s] = Thread("handle", Head(inbox[s]), 0, 0)
    BY <1>3 DEF Recv, RequestsOK
  <2> QED
    BY <2>1, WalkEnds DEF InNode
<1>4. CASE GraphCompute(s) /\ NextNode(s)
  BY <1>4, WalkGoesOn DEF GraphCompute, Handling
<1>5. CASE thr[s].at \in InNode /\ NextNode(s)
  BY <1>5, WalkGoesOn DEF WalkOK
<1>6. CASE \E at, n : Goto(s, at, n) /\ (at \in InNode => thr[s].at \in InNode)
  BY <1>6, WalkGoesTo
<1>7. CASE FreeBuffer(s)
  BY <1>1, <1>6, <1>7 DEF FreeBuffer, InNode
<1>8. CASE RecvEnd(s) \/ AnswerPlain(s) \/ GetDeviceMemory(s) \/ AllocBuffer(s) \/ SettleFree(s)
           \/ BufferGetBase(s) \/ BufferClear(s) \/ SetTensor(s) \/ GetTensor(s) \/ CopyTensor(s)
           \/ GraphRecompute(s)
  BY <1>1, <1>8 DEF RecvEnd, AnswerPlain, GetDeviceMemory, AllocBuffer, SettleFree, BufferGetBase,
     BufferClear, SetTensor, Overflow, GetTensor, CopyTensor, GraphRecompute
<1>9. CASE Recv(s)
  BY <1>1, <1>3, <1>9
<1>10. CASE GraphCompute(s)
  BY <1>1, <1>4, <1>10 DEF GraphCompute
<1>11. CASE NodeError(s) \/ WriteResult(s)
  BY <1>5, <1>11 DEF NodeError, WriteResult, WriteGone, InNode
<1>12. CASE NodeSpike(s) \/ NodeNumpy(s) \/ KernelAnswers(s) \/ NumpyCompute(s)
  BY <1>5, <1>6, <1>12 DEF NodeSpike, NodeNumpy, KernelAnswers, NumpyCompute, InNode
<1>13. CASE KernelStep(s)
  BY <1>2, <1>13 DEF KernelStep
<1> QED
  BY <1>7, <1>8, <1>9, <1>10, <1>11, <1>12, <1>13 DEF SessionStep

LEMMA WalkStep ==
  ASSUME GraphsWellFormed, RequestsOK, \A s \in Sessions : WalkOK(s), [Next]_vars
  PROVE  \A s \in Sessions : WalkOK(s)'
<1>1. ASSUME NEW s \in Sessions, thr'[s] = thr[s] PROVE WalkOK(s)'
  BY <1>1 DEF WalkOK
<1>2. ASSUME NEW s \in Sessions, SessionStep(s), NEW t \in Sessions PROVE WalkOK(t)'
  BY <1>1, <1>2, SessionWalks, SessionIsLocal
<1>3. ASSUME NEW s \in Sessions, ClientStep(s), NEW t \in Sessions PROVE WalkOK(t)'
  <2>1. CASE Connect(s) /\ t = s
    <3>1. thr'[t] = Thread("hello", NoRequest, 0, 0)
      BY <2>1 DEF Connect, RequestsOK
    <3> QED
      BY <3>1, WalkEnds DEF InNode
  <2>2. CASE thr'[t] = thr[t]
    BY <1>1, <2>2
  <2> QED
    BY <1>3, <2>1, <2>2 DEF ClientStep, Connect, Send, Receive, HangUp, RequestsOK
<1>4. ASSUME NEW s \in Sessions, ToolStep(s) PROVE thr' = thr
  BY <1>4 DEF ToolStep, KernelStep
<1>5. ASSUME NEW k \in Keys, OrphanStep(k) PROVE thr' = thr
  BY <1>5 DEF OrphanStep
<1>6. UNCHANGED vars => thr' = thr
  BY DEF vars
<1> QED
  BY <1>1, <1>2, <1>3, <1>4, <1>5, <1>6 DEF Next

(* The runner's own state stays well formed. *)
LEMMA MoveKeepsCalls ==
  ASSUME KernelTypeOK, NEW s \in Sessions, call[s].at \in CallStates, NEW at \in CallStates, Move(s, at)
  PROVE  call[s].key \in Keys /\ call' \in [Sessions -> {Idle} \cup [at : CallStates, key : Keys]]
<1>1. call[s] \in [at : CallStates, key : Keys]
  BY DEF KernelTypeOK, Idle, CallStates
<1> QED
  BY <1>1 DEF Move, KernelTypeOK

LEMMA RunnerTypes ==
  ASSUME KernelTypeOK, NEW s \in Sessions, KernelThread(s) \/ KernelTools(s)
  PROVE  KernelTypeOK'
<1>1. PICK at \in CallStates : call[s].at \in CallStates /\ Move(s, at)
  BY DEF KernelThread, KernelTools, Lookup, BuildTimesOut, RunTimesOut, StartLink, FinishLink,
     BuildFails, LoadKernel, RunEnds, CallStates
<1>2. call[s].key \in Keys /\ call' \in [Sessions -> {Idle} \cup [at : CallStates, key : Keys]]
  BY <1>1, MoveKeepsCalls
<1>3. orphans' \in {orphans, orphans \cup {call[s].key}}
  BY DEF KernelThread, KernelTools, Lookup, BuildTimesOut, RunTimesOut, StartLink, FinishLink,
     BuildFails, LoadKernel, RunEnds
<1>4. \/ elf' = elf
      \/ \E file \in {"absent", "partial", "whole"} : elf' = [elf EXCEPT ![call[s].key] = file]
  BY DEF KernelThread, KernelTools, Lookup, BuildTimesOut, RunTimesOut, StartLink, FinishLink,
     BuildFails, LoadKernel, RunEnds
<1>5. elf' \in [Keys -> {"absent", "partial", "whole"}]
  BY <1>2, <1>4 DEF KernelTypeOK
<1> QED
  BY <1>2, <1>3, <1>5 DEF KernelTypeOK

LEMMA KernelTypesStep ==
  ASSUME GraphsWellFormed, RequestsOK, KernelTypeOK, \A s \in Sessions : WalkOK(s), [Next]_vars
  PROVE  KernelTypeOK'
<1>1. CASE UNCHANGED kernelVars
  BY <1>1 DEF kernelVars, KernelTypeOK
<1>2. ASSUME NEW s \in Sessions, SessionStep(s) PROVE KernelTypeOK'
  <2>1. CASE NodeSpike(s)
    <3>1. thr[s].req.cmd = "GRAPH_COMPUTE" /\ thr[s].node \in DOMAIN thr[s].req.nodes
      BY <1>2, <2>1 DEF NodeSpike, WalkOK, InNode
    <3>2. PICK P \in SUBSET Nat : thr[s].req \in Requests(P)
      <4>1. thr[s].req \in AllRequests
        BY <3>1 DEF RequestsOK, NoRequest, None
      <4> QED
        BY <4>1 DEF AllRequests
    <3>3. node(s).key \in Keys
      BY <2>1, <3>1, <3>2, GraphFacts DEF NodeSpike, node
    <3> HIDE DEF node
    <3>4. CallKernel(s, node(s).key)
      BY <2>1 DEF NodeSpike
    <3> QED
      BY <3>3, <3>4 DEF CallKernel, KernelTypeOK, CallStates
  <2>2. CASE KernelAnswers(s)
    BY <2>2 DEF KernelAnswers, KernelReturns, KernelTypeOK
  <2>3. CASE KernelThread(s)
    BY <2>3, RunnerTypes
  <2>4. CASE ~(NodeSpike(s) \/ KernelAnswers(s) \/ KernelThread(s))
    BY <1>1, <1>2, <2>4 DEF SessionStep, Recv, RecvEnd, AnswerPlain, GetDeviceMemory, AllocBuffer,
       FreeBuffer, SettleFree, BufferGetBase, BufferClear, SetTensor, GetTensor, CopyTensor,
       GraphCompute, GraphRecompute, NodeError, NodeNumpy, NumpyCompute, WriteResult
  <2> QED
    BY <2>1, <2>2, <2>3, <2>4
<1>3. ASSUME NEW s \in Sessions, ClientStep(s) PROVE UNCHANGED kernelVars
  BY <1>3 DEF ClientStep, Connect, Send, Receive, HangUp
<1>4. ASSUME NEW s \in Sessions, ToolStep(s) PROVE KernelTypeOK'
  BY <1>4, RunnerTypes DEF ToolStep
<1>5. ASSUME NEW k \in Keys, OrphanStep(k) PROVE KernelTypeOK'
  BY <1>5 DEF OrphanStep, OrphanWrites, OrphanDies, KernelTypeOK
<1>6. UNCHANGED vars => UNCHANGED kernelVars
  BY DEF vars
<1> QED
  BY <1>1, <1>2, <1>3, <1>4, <1>5, <1>6 DEF Next

(* The server's state stays well formed, whatever its clients send: above all, every request
   that is queued or under way is over pointers alloc handed out, all of them multiples of its
   granularity, and a walk is always at a node of its graph (DeviceMemory.alloc, graph_compute). *)
THEOREM ServerTypesCorrect ==
  ASSUME GraphsWellFormed, GraphsGrow
  PROVE  Spec => []TypeOK
<1> DEFINE I == /\ MemoryInv /\ AccountInv /\ Tidied /\ KernelTypeOK
                /\ \A s \in Sessions : Sent(s) /\ WalkOK(s)
<1>1. Init => I
  <2> SUFFICES ASSUME Init PROVE I
    OBVIOUS
  <2>1. MemoryInv
    BY AllocAssumption DEF Init, MemoryInv, RequestsOK, PointersOK, TableOK, Thread
  <2>2. AccountInv
    BY AccountInit
  <2>3. Tidied
    BY AllocAssumption DEF Init, Tidied
  <2>4. KernelTypeOK
    BY DEF Init, KernelInit, KernelTypeOK
  <2>5. ASSUME NEW s \in Sessions PROVE Sent(s) /\ WalkOK(s)
    <3>1. thr[s] = Thread("closed", NoRequest, 0, 0) /\ inbox[s] = <<>>
      BY DEF Init
    <3> QED
      BY <3>1 DEF Sent, WalkOK, Thread, InNode
  <2> QED
    BY <2>1, <2>2, <2>3, <2>4, <2>5
<1>2. I /\ [Next]_vars => I'
  <2> SUFFICES ASSUME I, [Next]_vars PROVE I'
    OBVIOUS
  <2>1. RequestsOK
    BY DEF MemoryInv
  <2>2. MemoryInv' /\ AccountInv' /\ Tidied'
    BY MemoryInvStep, AccountStep, TidiedStep
  <2>3. KernelTypeOK'
    BY <2>1, KernelTypesStep
  <2>4. \A s \in Sessions : Sent(s)'
    BY SentStep
  <2>5. \A s \in Sessions : WalkOK(s)'
    BY <2>1, WalkStep
  <2> QED
    BY <2>2, <2>3, <2>4, <2>5
<1>3. I => TypeOK
  BY DEF TypeOK, MemoryInv, PointersOK, TableOK, AccountInv, Tidied, Sent, Handed
<1> QED
  BY <1>1, <1>2, <1>3, PTL DEF Spec
===============================================================================
