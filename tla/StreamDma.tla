------------------------------ MODULE StreamDma ------------------------------
(***************************************************************************)
(* The streaming DMA engine (stream_dma.cc/.hh).  Its read direction       *)
(* prefetches frames from memory into a FIFO that an accelerator drains    *)
(* through the port stream_out; its write direction writes what an         *)
(* accelerator puts in a FIFO through stream_in to memory, frame by frame. *)
(* The two directions share the flags and the tick but nothing else, and   *)
(* their code is the same, so each part of tick() is stated once, for a    *)
(* direction d.                                                            *)
(*                                                                         *)
(* A direction is a record with its bits of *FLAGS, its progress, its FIFO *)
(* and its interrupt line at the GIC; an engine is a function from the two *)
(* directions to such records.  The host writes the registers only while   *)
(* no direction runs, so all but the flags are given as constants and an   *)
(* address.  The buffer access range of read() and write() lies outside    *)
(* the 32 bytes (pio_size) that the configurations give the device and is  *)
(* left out.                                                               *)
(***************************************************************************)
EXTENDS DmaFifos

CONSTANTS
  FrameSize,       \* RD_FRAME_SIZE, WR_FRAME_SIZE
  NumFrames,       \* NUM_RD_FRAMES, NUM_WR_FRAMES; 0 is no limit
  FrameBuffSize,   \* RD_FRAME_BUFF_SIZE, WR_FRAME_BUFF_SIZE
  IntFrames        \* the two bytes of CONFIG; 0 is never

Dirs == {"rd", "wr"}

\* RD_START_MASK, RD_RUNNING_MASK, RD_INT_MASK and those of the other direction.
Bits == {"start", "running", "int"}

\* "assert(readFrameBuffSize != 0)"
ASSUME FrameAssumption ==
  /\ FrameSize \in [Dirs -> Nat \ {0}] /\ NumFrames \in [Dirs -> Nat]
  /\ FrameBuffSize \in [Dirs -> Nat \ {0}] /\ IntFrames \in [Dirs -> Nat]

\* addr is readAddr or writeAddr, frames is framesRead or framesWritten.
IdleSide ==
  [flags |-> {}, running |-> FALSE, addr |-> 0, frames |-> 0,
   fifo |-> EmptyFifo, int |-> FALSE]

StartBlock(d, f, addr) ==
  IF d = "rd" THEN StartFill(f, addr, FrameSize[d]) ELSE StartEmpty(f, addr, FrameSize[d])

\* The three parts of tick() for the direction d in state e: a start bit is
\* noticed, with addr in the address register, ...
StartSide(e, d, addr) ==
  IF e.running \/ "start" \notin e.flags THEN e ELSE
  [e EXCEPT !.flags = (@ \ {"start"}) \cup {"running"},
            !.running = TRUE, !.addr = addr, !.frames = 0,
            !.fifo = StartBlock(d, @, addr)]

\* ... an interrupt that the host has acknowledged is cleared, ...
ClearInt(e) == [e EXCEPT !.int = @ /\ "int" \in e.flags]

FrameEnds(e) == e.running /\ ~IsActive(e.fifo)

\* Mutants: a frame too few, a frame too many.
LastFrameEarly(n, d) == NumFrames[d] # 0 /\ n + 1 >= NumFrames[d]
LastFrameLate(n, d) == NumFrames[d] # 0 /\ n > NumFrames[d]

LastFrame(n, d) == NumFrames[d] # 0 /\ n >= NumFrames[d]

\* Mutant: the frames overwrite each other.
FirstFrameAddr(addr, n, d) == addr

\* Where frame n (from 0) starts.
FrameAddr(addr, n, d) == addr + ((n % FrameBuffSize[d]) * FrameSize[d])

\* ... and a frame that has ended is counted, and the next one started or the
\* direction stopped.
EndFrame(e, d) ==
  LET n == e.frames + 1
      raised == IntFrames[d] # 0 /\ n % IntFrames[d] = 0
      last == LastFrame(n, d)
  IN  IF ~FrameEnds(e) THEN e ELSE
      [e EXCEPT
         !.flags = (@ \cup (IF raised THEN {"int"} ELSE {}))
                      \ (IF last THEN {"running"} ELSE {}),
         !.int = @ \/ raised,
         !.frames = n, !.running = ~last,
         !.fifo = IF last THEN @ ELSE StartBlock(d, @, FrameAddr(e.addr, n, d))]

\* tick() of engine e, with addr[d] in the address registers.
TickEngine(e, addr) ==
  [d \in Dirs |-> EndFrame(ClearInt(StartSide(e[d], d, addr[d])), d)]

\* tick() schedules itself again while a direction runs.
TicksAgain(e) == \E d \in Dirs : e[d].running

\* tvalid(): what the port stream_out has, what stream_in has room for.
ValidRead(e, len) == Len(e["rd"].fifo.buffer) >= len
ValidWrite(e, len) == CanFill(e["wr"].fifo, len)

\* streamRead() and streamWrite().
StreamRead(e, len) == [e EXCEPT !["rd"].fifo = TryGet(@, len)]
StreamWrite(e, bytes) == [e EXCEPT !["wr"].fifo = Fill(@, bytes)]
=============================================================================
