----------------------------- MODULE BlockCopy ------------------------------
(***************************************************************************)
(* What a DMA engine promises: one block copy at a time, whose bytes reach *)
(* the destination in any order, and whose end means that they all have.   *)
(***************************************************************************)
EXTENDS Integers

CONSTANTS
  Addrs,              \* the addresses of the memory
  Srcs, Dsts, Lens    \* the blocks that are ever copied

VARIABLES
  running,
  job,       \* the source, the destination and the length of the block
  mem        \* the value at every address

vars == <<running, job, mem>>

Offsets == 0..(job.len - 1)

Init ==
  /\ running = FALSE
  /\ job = [src |-> 0, dst |-> 0, len |-> 0]
  /\ mem = [a \in Addrs |-> a]

\* A register that the host has not written holds zero.
Start ==
  /\ ~running
  /\ running' = TRUE
  /\ job' \in [src : Srcs \cup {0}, dst : Dsts \cup {0}, len : Lens \cup {0}]
  /\ UNCHANGED mem

\* Some bytes of the block reach their place.
Land ==
  /\ running
  /\ \E S \in SUBSET Offsets :
       mem' = [a \in Addrs |->
                 IF a - job.dst \in S THEN mem[a - job.dst + job.src] ELSE mem[a]]
  /\ UNCHANGED <<running, job>>

Finish ==
  /\ running
  /\ \A k \in Offsets : mem[job.dst + k] = mem[job.src + k]
  /\ running' = FALSE
  /\ UNCHANGED <<job, mem>>

\* An empty block may start and finish in one step.
StartAndFinish ==
  /\ ~running
  /\ job' \in [src : Srcs \cup {0}, dst : Dsts \cup {0}, len : {0}]
  /\ UNCHANGED <<running, mem>>

Next == Start \/ Land \/ Finish \/ StartAndFinish

Spec == Init /\ [][Next]_vars
=============================================================================
