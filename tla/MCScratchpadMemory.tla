------------------------- MODULE MCScratchpadMemory -------------------------
(***************************************************************************)
(* Instances of ScratchpadMemory for TLC.                                  *)
(***************************************************************************)
EXTENDS ScratchpadMemory

CONSTANTS wA, wB, rA, rB, x

\* A producer on port 1 writes two overlapping ranges, a consumer on port 2
\* reads them with another cut; the host reads the first byte.
HandPort == [a \in Accesses |-> IF a \in {wA, wB} THEN 1 ELSE IF a = x THEN 0 ELSE 2]
HandRead == [a \in Accesses |-> a \notin {wA, wB}]
HandAddr == [a \in Accesses |-> IF a \in {wB, rB} THEN 1 ELSE 0]
HandSize == [a \in Accesses |-> CASE a = wA -> 1 [] a = wB -> 2 [] a = rA -> 2
                                  [] a = rB -> 2 [] a = x -> 1]

\* The bus on port 0 writes and reads bytes that one accelerator reads on
\* port 1.
BusPort == [a \in Accesses |-> IF a \in {wA, wB, x} THEN 0 ELSE 1]
BusRead == [a \in Accesses |-> a \notin {wA, wB}]
BusAddr == [a \in Accesses |-> IF a \in {wB, rB} THEN 1 ELSE 0]
BusSize == [a \in Accesses |-> 1]
=============================================================================
