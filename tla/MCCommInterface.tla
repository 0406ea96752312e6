--------------------------- MODULE MCCommInterface --------------------------
(***************************************************************************)
(* Instances of CommInterface for TLC.                                     *)
(***************************************************************************)
EXTENDS CommInterface, TLC

CONSTANTS r1, r2, w1

\* A scratchpad port (gated) beside two overlapping global ones.  A read and a
\* write of two chunks each run from the scratchpad's range into the global
\* range, where they share the ports with a read of one chunk.
MixedAddr == [r \in Reqs |-> CASE r = r1 -> 2 [] r = r2 -> 4 [] r = w1 -> 3]
MixedLen == [r \in Reqs |-> CASE r = r1 -> 3 [] r = r2 -> 2 [] r = w1 -> 3]
MixedClass == 1 :> "spm" @@ 2 :> "global" @@ 3 :> "global"
MixedRange == 1 :> 0..3 @@ 2 :> 4..7 @@ 3 :> 4..7

\* The flag bytes the drivers write: clear (0x00) and start (0x01).
DriverWrites == {{}, {"start"}}
=============================================================================
