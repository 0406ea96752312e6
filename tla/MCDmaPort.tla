----------------------------- MODULE MCDmaPort ------------------------------
(***************************************************************************)
(* An instance of DmaPort: blocks of one, two and three packets.           *)
(***************************************************************************)
EXTENDS DmaPort

CONSTANTS a1, a2, a3

MCActions == {a1, a2, a3}
MCAddr == [a \in MCActions |-> IF a = a1 THEN 1 ELSE 4]
MCSize == [a \in MCActions |-> CASE a = a1 -> 4 [] a = a2 -> 2 [] a = a3 -> 3]
=============================================================================
