---------------------------- MODULE CreditLedger -----------------------------
(***************************************************************************)
(* What the credit counters of the GTX NPU promise, without the T-loop     *)
(* buffer and without the deferral of the S-loop's decrements: two         *)
(* balances per (NEST, SPU), each moved by one at the instruction that     *)
(* moves it.  The store balance may go below zero while a plan runs, when  *)
(* the S-loop takes a store before its thread has produced it; the end of  *)
(* the plan forgives what is still owed.                                   *)
(***************************************************************************)
EXTENDS Integers

CONSTANTS Nests, Spus

VARIABLES ld, st

Init == /\ ld = [m \in Nests |-> [s \in Spus |-> 0]]
        /\ st = [m \in Nests |-> [s \in Spus |-> 0]]

(* A shared load has arrived: every SPU of the NEST may consume it. *)
LoadArrived(m) ==
  /\ ld' = [ld EXCEPT ![m] = [s \in Spus |-> @[s] + 1]]
  /\ st' = st

(* A thread consumes a load; consuming one that is not there is reported and ignored. *)
LoadConsumed(m, s) ==
  /\ ld' = [ld EXCEPT ![m][s] = IF @ > 0 THEN @ - 1 ELSE 0]
  /\ st' = st

(* A thread has produced a result. *)
StoreProduced(m, s) ==
  /\ st' = [st EXCEPT ![m][s] = @ + 1]
  /\ ld' = ld

(* A shared store takes one result of every SPU it covers. *)
StoreTaken(m, covered) ==
  /\ st' = [st EXCEPT ![m] = [s \in Spus |-> IF s \in covered THEN @[s] - 1 ELSE @[s]]]
  /\ ld' = ld

(* The plan boundary. *)
Settled ==
  /\ st' = [m \in Nests |-> [s \in Spus |-> IF st[m][s] < 0 THEN 0 ELSE st[m][s]]]
  /\ ld' = ld

Next ==
  \/ Settled
  \/ \E m \in Nests : LoadArrived(m) \/ \E covered \in SUBSET Spus : StoreTaken(m, covered)
  \/ \E m \in Nests, s \in Spus : LoadConsumed(m, s) \/ StoreProduced(m, s)

Spec == Init /\ [][Next]_<<ld, st>>
=============================================================================
