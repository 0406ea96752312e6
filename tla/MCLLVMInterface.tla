--------------------------- MODULE MCLLVMInterface ---------------------------
(***************************************************************************)
(* Programs for LLVMInterface.  Cycle counts are those of the benchmarks'  *)
(* config.ini where they matter: phi and gep 0, loads and stores 0.        *)
(***************************************************************************)
EXTENDS LLVMInterface, TLC

CONSTANTS p, q, iv, jv, x, y, z, w,   \* registers
          entry, loop, exit   \* blocks

NoPhi == [b \in Blocks |-> None]
I(op, ret, deps, cycles) ==
  [op |-> op, ret |-> ret, deps |-> deps, phi |-> NoPhi, ptr |-> None,
   base |-> None, cycles |-> cycles, unit |-> "other", dests |-> {}]

Load(r, ptr) == [I("load", r, <<ptr>>, 0) EXCEPT !.ptr = ptr]
Store(ptr, v) == [I("store", None, <<ptr, v>>, 0) EXCEPT !.ptr = ptr]
Phi(r, b1, r1, cycles) == [I("phi", r, <<>>, cycles) EXCEPT !.phi = [NoPhi EXCEPT ![b1] = r1]]
Gep(r, base, cycles) == [I("gep", r, <<>>, cycles) EXCEPT !.base = base]
On(unit, instr) == [instr EXCEPT !.unit = unit]
Br(deps, dests) == [I("br", None, deps, 0) EXCEPT !.dests = dests]
Ret == I("ret", None, <<>>, 0)

MCRegs == {p, q, iv, jv, x, y, z, w}
MCBlocks == {entry, loop, exit}

\* Where the registers point to: p to one word, and q, which is set anew in each
\* iteration, to two others in turn.
Addresses(r, v) == IF r = p THEN 2 ELSE (v \div 8) % 2

MCUnits == {"add", "mul", "other"}
Unlimited == [lockstep |-> FALSE, limit |-> [u \in Units |-> -1]]
Limited == [Unlimited EXCEPT !.limit["add"] = 1]
MCConfigs == {Limited, Unlimited, [Unlimited EXCEPT !.lockstep = TRUE]}
JustUnlimited == {Unlimited}
JustLimited == {Limited}

\* w = ...; for (...) { iv = x; q = ...; x = *p; z = *q; y = z + z; *q = y; } with a
\* phi of 0 cycles.  w takes two cycles; jv takes one, in which the memory can answer,
\* so that the next iteration comes in with the store of this one in flight.  Nothing
\* but the link to the previous instance orders the loads of x.
Loop ==
  (entry :> <<On("add", I("op", w, <<p>>, 2)), Br(<<w>>, {loop})>>) @@
  (loop  :> <<Phi(iv, loop, x, 0), Gep(q, p, 0), Load(x, p), Load(z, q),
              On("add", I("op", y, <<z, z>>, 0)), Store(q, y),
              On("add", I("op", jv, <<>>, 1)), Br(<<jv>>, {loop, exit})>>) @@
  (exit  :> <<Ret>>)

\* Two independent operations of several cycles before a ret.
Straight ==
  (entry :> <<I("op", x, <<p>>, 3), I("op", y, <<p>>, 3), Br(<<>>, {exit})>>) @@
  (loop  :> <<Ret>>) @@
  (exit  :> <<Ret>>)

\* Two additions with a multiplication, which waits for the first, between them.
AddMulAdd ==
  (entry :> <<On("add", I("op", x, <<p>>, 3)), On("mul", I("op", z, <<x>>, 3)),
              On("add", I("op", y, <<p>>, 3)), Br(<<>>, {exit})>>) @@
  (loop  :> <<Ret>>) @@
  (exit  :> <<Ret>>)

\* for (...) { iv = x; x = *p; *q = iv; } with a phi of 2 cycles.
Carried ==
  (entry :> <<Br(<<>>, {loop})>>) @@
  (loop  :> <<Phi(iv, loop, x, 2), Load(x, p), Store(q, iv),
              On("add", I("op", jv, <<>>, 1)), Br(<<jv>>, {loop, exit})>>) @@
  (exit  :> <<Ret>>)

\* A pointer that is advanced in a loop: iv = phi(p, q); q = iv + 1.
PointerLoop ==
  (entry :> <<Br(<<>>, {loop})>>) @@
  (loop  :> <<[Phi(iv, loop, q, 0) EXCEPT !.phi[entry] = p], Gep(q, iv, 0),
              Br(<<p>>, {loop, exit})>>) @@
  (exit  :> <<Ret>>)
=============================================================================
