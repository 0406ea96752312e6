--------------------------- MODULE NoncoherentDma ---------------------------
(***************************************************************************)
(* The memory-to-memory DMA engine (noncoherent_dma.cc/.hh).  It has a     *)
(* read and a write FIFO on each of two sides, the system's memory and the *)
(* accelerator cluster, copies a block from a source to a destination a    *)
(* request at a time, one per tick, and reports the end in its flags and   *)
(* by an interrupt.                                                        *)
(*                                                                         *)
(* Environment: the host, which writes the registers one by one, sets the  *)
(* start bit (dmacpy() of the drivers: *FLAGS |= 0x01) alone or with all   *)
(* other bits cleared, or clears the flags (resetDma()), at any moment;    *)
(* and the memories, which answer a request at any later moment, in any    *)
(* order.                                                                  *)
(***************************************************************************)
EXTENDS DmaFifos

CONSTANTS
  MemSize,          \* addresses 0..MemSize-1, both sides
  AccAddrs,         \* the addresses that accPort reaches
  Srcs, Dsts, Lens, \* what the host writes to the registers
  None              \* the null pointer

Sides == {"mem", "acc"}
Bits  == {"start", "running", "done"}   \* 0x01, 0x02, 0x04 of *FLAGS

\* Blocks lie in the memory, and the source and the destination of a transfer do
\* not overlap in part.  A register that the host has not written holds zero.
ASSUME DmaAssumption ==
  /\ MemSize \in Nat
  /\ Srcs \subseteq Nat /\ Dsts \subseteq Nat /\ Lens \subseteq Nat
  /\ \A s \in Srcs \cup {0}, d \in Dsts \cup {0}, n \in Lens :
       /\ s + n <= MemSize /\ d + n <= MemSize
       /\ s = d \/ s + n <= d \/ d + n <= s

VARIABLES
  flags, SRC, DST, LEN,   \* the registers
  lastFlag,               \* last_flag
  running, writesLeft,
  job,                    \* activeSrc, activeDst and, for the properties, the length
  readFifo, writeFifo,    \* the side whose FIFO is in use
  rd, wr,                 \* the FIFOs, per side
  tickScheduled,
  intLine,                \* the interrupt line at the GIC
  mem                     \* the memories; a value is the address it was first at

registers == <<flags, SRC, DST, LEN>>
transfer == <<running, writesLeft, job, readFifo, writeFifo>>
vars == <<registers, lastFlag, transfer, rd, wr, tickScheduled, intLine, mem>>

\* last_flag is not initialised; only its done bit is ever used.
Init ==
  /\ flags = {} /\ SRC = 0 /\ DST = 0 /\ LEN = 0
  /\ lastFlag \in {{}, {"done"}}
  /\ running = FALSE /\ writesLeft = 0
  /\ job = [src |-> 0, dst |-> 0, len |-> 0]
  /\ readFifo = None /\ writeFifo = None
  /\ rd = [s \in Sides |-> EmptyFifo] /\ wr = [s \in Sides |-> EmptyFifo]
  /\ tickScheduled = FALSE /\ intLine = FALSE
  /\ mem = [a \in 0..(MemSize - 1) |-> a]

\* write(): the host changes one register; a tick is scheduled in any case.
Write(f, s, d, n) ==
  /\ flags' = f /\ SRC' = s /\ DST' = d /\ LEN' = n
  /\ tickScheduled' = TRUE
  /\ UNCHANGED <<lastFlag, transfer, rd, wr, intLine, mem>>

\* dmacpy(), register by register, and resetDma() of the host's drivers, and
\* *MemDmaFlags = MEM_DMA_INIT of the benchmarks' top().
HostWrite ==
  \/ \E s \in Srcs : Write(flags, s, DST, LEN)
  \/ \E d \in Dsts : Write(flags, SRC, d, LEN)
  \/ \E n \in Lens : Write(flags, SRC, DST, n)
  \/ Write(flags \cup {"start"}, SRC, DST, LEN)
  \/ Write({"start"}, SRC, DST, LEN)
  \/ Write({}, SRC, DST, LEN)

\* getActiveReadFifo() and getActiveWriteFifo().
SideOf(a) == IF a \in AccAddrs THEN "acc" ELSE "mem"

\* The parts of tick(), each a function from the state of the engine to the
\* state it leaves: the start of a transfer, ...
Engine ==
  [flags |-> flags, running |-> running, left |-> writesLeft, job |-> job,
   rf |-> readFifo, wf |-> writeFifo, rd |-> rd, wr |-> wr, int |-> intLine]

Starts(e) == ~e.running /\ "start" \in e.flags
StartTransfer(e) ==
  LET r == SideOf(SRC)
      w == SideOf(DST)
  IN  IF ~Starts(e) THEN e ELSE
      [e EXCEPT !.running = TRUE,
                !.flags = (@ \ {"start"}) \cup {"running"},
                !.left = LEN,
                !.job = [src |-> SRC, dst |-> DST, len |-> LEN],
                !.rf = r, !.wf = w,
                !.rd[r] = StartFill(@, SRC, LEN),
                !.wr[w] = StartEmpty(@, DST, LEN)]

\* Mutant: the interrupt is never acknowledged.
ClearNothing(e) == e

\* ... the acknowledgement of the interrupt, ...
ClearInterrupt(e) ==
  IF "done" \in lastFlag /\ "done" \notin e.flags
    THEN [e EXCEPT !.int = FALSE] ELSE e

\* Mutant: the last request counts as a full one.
HandOverFullRequest(e, n) ==
  [e EXCEPT !.rd[e.rf] = TryGet(@, n),
            !.wr[e.wf] = Fill(@, Got(e.rd[e.rf], n)),
            !.left = @ - MaxReqSize]

\* ... and one request's worth of copying, or the end of the transfer.
HandOver(e, n) ==
  [e EXCEPT !.rd[e.rf] = TryGet(@, n),
            !.wr[e.wf] = Fill(@, Got(e.rd[e.rf], n)),
            !.left = @ - n]

CopyOrFinish(e) ==
  LET n == Least(MaxReqSize, e.left)
  IN  CASE e.running /\ e.left > 0 /\ CanFill(e.wr[e.wf], n)
                                   /\ CanGet(e.rd[e.rf], n) -> HandOver(e, n)
        [] e.running /\ e.left <= 0 /\ ~IsActive(e.wr[e.wf]) ->
             [e EXCEPT !.running = FALSE,
                       !.flags = (@ \ {"running"}) \cup {"done"},
                       !.int = TRUE]
        [] OTHER -> e

\* tick(): it is scheduled again only while a transfer runs.
Tick ==
  /\ tickScheduled
  /\ \E e \in {CopyOrFinish(ClearInterrupt(StartTransfer(Engine)))} :
       /\ flags' = e.flags /\ running' = e.running /\ writesLeft' = e.left
       /\ job' = e.job /\ readFifo' = e.rf /\ writeFifo' = e.wf
       /\ rd' = e.rd /\ wr' = e.wr /\ intLine' = e.int
       /\ lastFlag' = e.flags
       /\ tickScheduled' = e.running
  /\ UNCHANGED <<SRC, DST, LEN, mem>>

\* The memory answers the i-th pending read of a side.
ReadCompletes(s, i) ==
  /\ i \in 1..Len(rd[s].pending)
  /\ LET q == rd[s].pending[i]
     IN  /\ ~q.done
         /\ rd' = [rd EXCEPT ![s] =
                     ReadDone(@, i, [k \in 1..q.size |-> mem[q.addr + k - 1]])]
  /\ UNCHANGED <<registers, lastFlag, transfer, wr, tickScheduled, intLine, mem>>

\* The memory has done the i-th pending write of a side.
WriteCompletes(s, i) ==
  /\ i \in 1..Len(wr[s].pending)
  /\ LET q == wr[s].pending[i]
     IN  /\ ~q.done
         /\ mem' = [a \in DOMAIN mem |->
                      IF a \in q.addr..(q.addr + q.size - 1)
                        THEN q.data[a - q.addr + 1] ELSE mem[a]]
         /\ wr' = [wr EXCEPT ![s] = WriteDone(@, i)]
  /\ UNCHANGED <<registers, lastFlag, transfer, rd, tickScheduled, intLine>>

Completion ==
  \E s \in Sides, i \in 1..MaxPending : ReadCompletes(s, i) \/ WriteCompletes(s, i)

Next == HostWrite \/ Tick \/ Completion

Spec == Init /\ [][Next]_vars

\* A scheduled tick runs, and the memories do not leave all requests that are
\* under way unanswered for ever; which one they answer is left open.
Fairness == WF_vars(Tick) /\ WF_vars(Completion)

FairSpec == Spec /\ Fairness

----------------------------------------------------------------------------
(***************************************************************************)
(* Properties                                                              *)
(***************************************************************************)
Request == [addr : Nat, size : Nat, done : BOOLEAN, data : Seq(Nat)]
Fifo == [buffer : Seq(Nat), nextAddr : Nat, endAddr : Nat, pending : Seq(Request)]

\* Every variable has the shape that the class declares.
TypeOK ==
  /\ flags \subseteq Bits /\ lastFlag \subseteq Bits
  /\ SRC \in Nat /\ DST \in Nat /\ LEN \in Nat
  /\ running \in BOOLEAN /\ writesLeft \in Nat
  /\ job \in [src : Nat, dst : Nat, len : Nat]
  /\ readFifo \in Sides \cup {None} /\ writeFifo \in Sides \cup {None}
  /\ rd \in [Sides -> Fifo] /\ wr \in [Sides -> Fifo]
  /\ tickScheduled \in BOOLEAN /\ intLine \in BOOLEAN
  /\ mem \in [0..(MemSize - 1) -> Nat]

Copied == \A k \in 0..(job.len - 1) : mem[job.dst + k] = mem[job.src + k]

\* The engine sets the done bit only when the whole block has reached the
\* destination, with every byte in its place.
DoneOnlyWhenCopied ==
  [][("done" \notin flags /\ "done" \in flags') => Copied']_vars

Fifos == {rd[s] : s \in Sides} \cup {wr[s] : s \in Sides}

\* Between transfers no FIFO holds a byte or a request, so the assertions of
\* startFill() and startEmpty() hold and no byte of one transfer leaks into
\* the next.
IdleMeansDrained ==
  ~running => \A f \in Fifos : f.buffer = <<>> /\ f.pending = <<>> /\ AtEndOfBlock(f)

\* While a transfer runs, the bytes in the write FIFO followed by those in the
\* read FIFO are the source from where the write FIFO has got to, without gap
\* and in order, and what is yet to be handed over is counted by writesLeft;
\* registers that the host changes meanwhile have no effect.
PipelineInOrder ==
  running =>
    LET r == rd[readFifo]
        w == wr[writeFifo]
        bytes == w.buffer \o r.buffer
        issued == w.nextAddr - job.dst
    IN  /\ \A i \in 1..Len(bytes) : bytes[i] = mem[job.src + issued + i - 1]
        /\ r.nextAddr - SizePending(r) = job.src + issued + Len(bytes)
        /\ writesLeft = job.len - issued - Len(w.buffer)

\* A buffer never overruns: the panic of fill() is unreachable, and the answers
\* to all the reads under way fit in the read FIFO.
NoOverrun ==
  \A s \in Sides :
    /\ Len(rd[s].buffer) + SizePending(rd[s]) <= FifoSize
    /\ Len(wr[s].buffer) <= FifoSize

\* The interrupt line follows the done bit once the tick that every write of
\* the host schedules has run.
InterruptTracksDone ==
  ~tickScheduled => (intLine <=> "done" \in flags)

\* Every transfer comes to an end.
TransferEnds == running ~> ~running

(***************************************************************************)
(* What the engine promises the host                                       *)
(***************************************************************************)
Copy == INSTANCE BlockCopy WITH Addrs <- 0..(MemSize - 1)

\* Prefetching, buffering and out-of-order answers are invisible: memory
\* changes only in the destination of the transfer that runs, only to the
\* bytes of its source, and the transfer ends when the copy is complete.
ImplementsCopy == Copy!Spec
=============================================================================
