------------------------------ MODULE DmaFifos ------------------------------
(***************************************************************************)
(* The two DMA FIFOs.  A read FIFO (class DmaReadFifo of dma_device.cc)    *)
(* prefetches a block of memory into its buffer; a write FIFO (class       *)
(* DmaWriteFifo of dma_write_fifo.cc) writes the bytes put in its buffer   *)
(* to a block of memory.  Both keep up to MaxPending requests under way,   *)
(* which the memory answers in any order, and retire them in the order     *)
(* they were issued.                                                       *)
(*                                                                         *)
(* A FIFO is a value and each of its methods maps a FIFO to a FIFO; the    *)
(* modules of the DMA engines hold FIFOs in their variables.  Draining     *)
(* for a checkpoint, the functional mode of bypassCaches() and canceled    *)
(* blocks (stopFill() and stopEmpty(), which no engine calls) are left     *)
(* out.                                                                    *)
(***************************************************************************)
EXTENDS Integers, Sequences, FiniteSets

CONSTANTS
  MaxReqSize,   \* bytes in the largest DMA request
  FifoSize,     \* bytes in a buffer
  MaxPending    \* DmaDoneEvent objects of a FIFO

\* With a buffer smaller than a request neither FIFO would ever issue one.
ASSUME FifoAssumption ==
  /\ MaxReqSize \in Nat \ {0} /\ MaxPending \in Nat \ {0}
  /\ FifoSize \in Nat /\ FifoSize >= MaxReqSize

Least(m, n) == IF m < n THEN m ELSE n

EmptyFifo == [buffer |-> <<>>, nextAddr |-> 0, endAddr |-> 0, pending |-> <<>>]

AtEndOfBlock(f) == f.nextAddr = f.endAddr

\* Mutant: requests under way are forgotten.
ActiveUntilIssued(f) == ~AtEndOfBlock(f)

IsActive(f) == ~(f.pending = <<>> /\ AtEndOfBlock(f))

\* The requests of a FIFO are issued for consecutive addresses, so the bytes
\* under way lie between the first pending address and nextAddr.
SizePending(f) ==
  IF f.pending = <<>> THEN 0 ELSE f.nextAddr - f.pending[1].addr

\* Size of the i-th request that the loop of resumeFillTiming() or
\* resumeEmptyTiming() would issue now, and the bytes of those before it.
Before(i) == (i - 1) * MaxReqSize
ReqSize(f, i) == Least(MaxReqSize, f.endAddr - f.nextAddr - Before(i))

\* The loop can go round for the i-th time.
HasRequest(f, i) ==
  /\ Len(f.pending) + i <= MaxPending
  /\ f.nextAddr + Before(i) < f.endAddr

\* Mutant: room is not kept for the answers under way.
FillIgnoresPending(f, i) ==
  HasRequest(f, i) /\ Len(f.buffer) + Before(i) + ReqSize(f, i) <= FifoSize

FillGoesOn(f, i) ==
  /\ HasRequest(f, i)
  /\ Len(f.buffer) + SizePending(f) + Before(i) + ReqSize(f, i) <= FifoSize

\* buffer.size() shrinks with every request while size_pending grows, so bytes
\* under way count twice: a request waits although its bytes are there.
EmptyGoesOn(f, i) ==
  /\ HasRequest(f, i)
  /\ (Len(f.buffer) - Before(i)) - (SizePending(f) + Before(i)) - ReqSize(f, i) >= 0

\* FIFO f with n more requests, the i-th with data[i].
Issue(f, n, data) ==
  [f EXCEPT
     !.nextAddr = Least(f.endAddr, @ + n * MaxReqSize),
     !.pending = @ \o [i \in 1..n |->
                         [addr |-> f.nextAddr + Before(i),
                          size |-> ReqSize(f, i),
                          done |-> FALSE,
                          data |-> data[i]]]]

\* resumeFill(): the conditions get weaker with i, so the loop stops after as
\* many rounds as satisfy them.
ResumeFill(f) ==
  LET n == Cardinality({i \in 1..MaxPending : FillGoesOn(f, i)})
  IN  Issue(f, n, [i \in 1..n |-> <<>>])

\* resumeEmpty(): a request takes its bytes from the buffer.
ResumeEmpty(f) ==
  LET n == Cardinality({i \in 1..MaxPending : EmptyGoesOn(f, i)})
      taken == Least(n * MaxReqSize, f.endAddr - f.nextAddr)
      data == [i \in 1..n |->
                 SubSeq(f.buffer, Before(i) + 1, Before(i) + ReqSize(f, i))]
  IN  [Issue(f, n, data) EXCEPT
         !.buffer = SubSeq(@, taken + 1, Len(@))]

\* startFill() and startEmpty(); the code asserts AtEndOfBlock(f).
StartFill(f, start, size) ==
  ResumeFill([f EXCEPT !.nextAddr = start, !.endAddr = start + size])
StartEmpty(f, start, size) ==
  ResumeEmpty([f EXCEPT !.nextAddr = start, !.endAddr = start + size])

\* tryGet(), whose condition is CanGet.
CanGet(f, len) == Len(f.buffer) >= len

\* Mutant: the newest bytes are taken.
GotNewest(f, len) == SubSeq(f.buffer, Len(f.buffer) - len + 1, Len(f.buffer))

Got(f, len) == SubSeq(f.buffer, 1, len)
TryGet(f, len) ==
  ResumeFill([f EXCEPT !.buffer = SubSeq(@, len + 1, Len(@))])

\* canFill() and fill().
CanFill(f, len) == Len(f.buffer) + len <= FifoSize
Fill(f, bytes) == ResumeEmpty([f EXCEPT !.buffer = @ \o bytes])

\* Mutant: a request that is done is retired before those issued earlier.
RetiredOutOfOrder(f) == Cardinality({i \in 1..Len(f.pending) : f.pending[i].done})

\* How many requests at the front of the pending list are done.
Retired(f) ==
  Cardinality({n \in 1..Len(f.pending) : \A i \in 1..n : f.pending[i].done})

\* The data of the first n pending requests, one after the other.
RetiredData(f, n) ==
  LET upTo[i \in 0..n] == IF i = 0 THEN <<>> ELSE upTo[i - 1] \o f.pending[i].data
  IN  upTo[n]

\* dmaDone() of a read FIFO after its i-th pending request got its data:
\* handlePending() moves the data of the done requests at the front to the
\* buffer, then resumeFill().
ReadDone(f, i, data) ==
  LET g == [f EXCEPT !.pending[i] = [@ EXCEPT !.done = TRUE, !.data = data]]
      n == Retired(g)
  IN  ResumeFill([g EXCEPT !.buffer = @ \o RetiredData(g, n),
                           !.pending = SubSeq(@, n + 1, Len(@))])

\* Mutant: resumeEmpty() is not called.
WriteDoneOnly(f, i) ==
  LET g == [f EXCEPT !.pending[i].done = TRUE]
  IN  [g EXCEPT !.pending = SubSeq(@, Retired(g) + 1, Len(@))]

\* dmaDone() of a write FIFO: handlePending(), then resumeEmpty().
WriteDone(f, i) ==
  LET g == [f EXCEPT !.pending[i].done = TRUE]
  IN  ResumeEmpty([g EXCEPT !.pending = SubSeq(@, Retired(g) + 1, Len(@))])
=============================================================================
