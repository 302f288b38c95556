------------------------------ MODULE KernelCache ------------------------------
(***************************************************************************)
(* The firmware runner of examples/ggml-rpc-server/pyspike_runner.py, as   *)
(* the sessions of the RPC server use it: a kernel is compiled once into a *)
(* file of the cache directory, whose existence is the whole of the cache  *)
(* lookup, and is then run by a simulator process whose dump is the        *)
(* result.  The compiler and the simulator are processes of the operating  *)
(* system: they may fail or hang, and only the timeouts of subprocess.run  *)
(* are certain.                                                            *)
(***************************************************************************)
EXTENDS Naturals, FiniteSets

CONSTANTS Sessions,   \* the threads of the server
          Keys        \* the cache keys <op>_<dtype>_<shape>

ASSUME SessionsAssumption == IsFiniteSet(Sessions)

VARIABLES elf,        \* the file of each key: none, written in part, or whole
          orphans,    \* keys whose compiler outlived the bash that was killed at its timeout
          call        \* the progress of each thread inside the runner, and its key

kernelVars == <<elf, orphans, call>>

NoKey == "no key"
Idle == [at |-> "idle", key |-> NoKey]
CallStates == {"lookup", "compiling", "linking", "load", "running", "ok", "failed"}

KernelTypeOK ==
  /\ elf \in [Keys -> {"absent", "partial", "whole"}]
  /\ orphans \subseteq Keys
  /\ call \in [Sessions -> {Idle} \cup [at : CallStates, key : Keys]]

(* The directory outlives the server: a file may be left from an earlier run of it,
   in part if that run ended while the linker was writing. *)
KernelInit ==
  /\ elf \in [Keys -> {"absent", "partial", "whole"}]
  /\ orphans = {}
  /\ call = [s \in Sessions |-> Idle]

Move(s, at) == call' = [call EXCEPT ![s].at = at]

(* A thread enters a runner with the key of its operation and shape. *)
CallKernel(s, k) ==
  /\ call' = [call EXCEPT ![s] = [at |-> "lookup", key |-> k]]
  /\ UNCHANGED <<elf, orphans>>

(* out_elf.exists(): the file may be one that another thread's linker is writing. *)
Exists(k) == elf[k] # "absent"

(* _build_kernel: return the cached file, or write the source and start the compiler.
   Without a template, a build script or a toolchain it raises. *)
Lookup(s) ==
  /\ call[s].at = "lookup"
  /\ \/ Exists(call[s].key) /\ Move(s, "load")
     \/ ~Exists(call[s].key) /\ Move(s, "compiling")
     \/ Move(s, "failed")
  /\ UNCHANGED <<elf, orphans>>

(* gcc -o $OUT: the linker replaces the file and fills it in place. *)
StartLink(s) ==
  /\ call[s].at = "compiling"
  /\ Move(s, "linking")
  /\ elf' = [elf EXCEPT ![call[s].key] = "partial"]
  /\ UNCHANGED orphans

(* Another linker of the same key may have replaced the file in the meantime; the builder
   sees only the return code and that the path exists. *)
Contended(s) == call[s].key \in orphans \/ \E t \in Sessions \ {s} : call[t] = call[s]

FinishLink(s) ==
  /\ call[s].at = "linking"
  /\ Move(s, "load")
  /\ \/ elf' = [elf EXCEPT ![call[s].key] = "whole"]
     \/ Contended(s) /\ UNCHANGED elf
  /\ UNCHANGED orphans

(* A failed compilation leaves the file alone; a failed link removes it, or leaves what is
   there. *)
BuildFails(s) ==
  /\ call[s].at \in {"compiling", "linking"}
  /\ Move(s, "failed")
  /\ \/ UNCHANGED elf
     \/ call[s].at = "linking" /\ elf' = [elf EXCEPT ![call[s].key] = "absent"]
  /\ UNCHANGED orphans

(* subprocess.run(timeout=180) kills bash, not the compiler bash started. *)
BuildTimesOut(s) ==
  /\ call[s].at \in {"compiling", "linking"}
  /\ Move(s, "failed")
  /\ orphans' = orphans \cup {call[s].key}
  /\ UNCHANGED elf

(* A compiler left behind goes on replacing and filling the file, for as long as it lives. *)
OrphanWrites(k) ==
  /\ k \in orphans
  /\ \/ elf' = [elf EXCEPT ![k] = "partial"] /\ UNCHANGED orphans
     \/ elf' = [elf EXCEPT ![k] = "whole"] /\ orphans' = orphans \ {k}
  /\ UNCHANGED call

OrphanDies(k) ==
  /\ k \in orphans
  /\ orphans' = orphans \ {k}
  /\ UNCHANGED <<elf, call>>

(* The simulator reads the file when it starts, and exits with an error if it is not a
   whole executable. *)
LoadKernel(s) ==
  /\ call[s].at = "load"
  /\ Move(s, IF elf[call[s].key] = "whole" THEN "running" ELSE "failed")
  /\ UNCHANGED <<elf, orphans>>

(* It exits with a dump, or with an error or without a dump. *)
RunEnds(s) ==
  /\ call[s].at = "running"
  /\ \E result \in {"ok", "failed"} : Move(s, result)
  /\ UNCHANGED <<elf, orphans>>

(* Mutant: waits for the simulator however long it takes. *)
RunTimesOut_Never(s) == FALSE

(* subprocess.run(timeout=300), or 900 for a matrix product. *)
RunTimesOut(s) ==
  /\ call[s].at \in {"load", "running"}
  /\ Move(s, "failed")
  /\ UNCHANGED <<elf, orphans>>

(* The runner returns to its caller, or raises into it. *)
KernelReturns(s) == call' = [call EXCEPT ![s] = Idle] /\ UNCHANGED <<elf, orphans>>

(* What the thread itself does, and so is certain to do; and what a process decides. *)
KernelThread(s) == Lookup(s) \/ BuildTimesOut(s) \/ RunTimesOut(s)
KernelTools(s) == StartLink(s) \/ FinishLink(s) \/ BuildFails(s) \/ LoadKernel(s) \/ RunEnds(s)
================================================================================
