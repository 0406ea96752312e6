----------------------------- MODULE DmaService -----------------------------
(***************************************************************************)
(* What a device relies on when it hands an action to its DMA port: the    *)
(* bytes of the block are transferred once each, in any order and in any   *)
(* portions, and the completion event is scheduled with the last of them.  *)
(***************************************************************************)
EXTENDS Integers

CONSTANTS
  Actions,   \* the actions, one for each completion event
  Block      \* Block[a]: the addresses that action a transfers

VARIABLES
  phase,     \* of each action: "free", "busy" or "done"
  moved      \* the addresses transferred so far, of each action

vars == <<phase, moved>>

Init ==
  /\ phase = [a \in Actions |-> "free"]
  /\ moved = [a \in Actions |-> {}]

Begin(a) ==
  /\ phase[a] = "free"
  /\ phase' = [phase EXCEPT ![a] = "busy"]
  /\ moved' = [moved EXCEPT ![a] = {}]

\* Some bytes arrive; with the last of them the action is done.
Transfer(a) ==
  /\ phase[a] = "busy"
  /\ \E S \in SUBSET (Block[a] \ moved[a]) :
       /\ S # {}
       /\ moved' = [moved EXCEPT ![a] = @ \cup S]
       /\ phase' = [phase EXCEPT ![a] =
                      IF moved[a] \cup S = Block[a] THEN "done" ELSE "busy"]

\* The completion event runs.
Finish(a) ==
  /\ phase[a] = "done"
  /\ phase' = [phase EXCEPT ![a] = "free"]
  /\ UNCHANGED moved

Next == \E a \in Actions : Begin(a) \/ Transfer(a) \/ Finish(a)

Spec == Init /\ [][Next]_vars
=============================================================================
