------------------------ MODULE NoncoherentDmaProofs ------------------------
(***************************************************************************)
(* The memory-to-memory DMA engine keeps its promises for every memory,    *)
(* block, buffer, request size and number of requests under way: its       *)
(* properties and the refinement of BlockCopy, from one invariant on the   *)
(* state of the engine and the memories.                                   *)
(***************************************************************************)
EXTENDS NoncoherentDma, DmaFifosProofs

(***************************************************************************)
(* The invariant                                                           *)
(***************************************************************************)
Job == [src : Srcs \cup {0}, dst : Dsts \cup {0}, len : Lens \cup {0}]

EngineType ==
  [flags : SUBSET Bits, running : BOOLEAN, left : Nat, job : Job,
   rf : Sides \cup {None}, wf : Sides \cup {None},
   rd : [Sides -> FifoOf(Nat)], wr : [Sides -> FifoOf(Nat)], int : BOOLEAN]

Memory == [0..(MemSize - 1) -> Nat]

Drained(f) == f.buffer = <<>> /\ f.pending = <<>> /\ AtEndOfBlock(f)

\* The bytes of the source of job j in memory M.
Source(j, M) == [k \in 0..(j.len - 1) |-> M[j.src + k]]

\* The FIFOs that the transfer of engine e does not use are drained.
OthersDrained(e) ==
  /\ \A s \in Sides : s # e.rf \/ ~e.running => Drained(e.rd[s])
  /\ \A s \in Sides : s # e.wf \/ ~e.running => Drained(e.wr[s])

\* Read and write FIFO work on the same block, the write FIFO has got as far as
\* the read FIFO was emptied, and writesLeft counts what is left.
InStep(e, M) ==
  /\ e.rf \in Sides /\ e.wf \in Sides
  /\ GoodRead(Nat, Source(e.job, M), e.job.len, e.job.src, e.rd[e.rf])
  /\ GoodWrite(Nat, Source(e.job, M), e.job.len, e.job.dst, e.wr[e.wf])
  /\ ReadPos(e.rd[e.rf]) - e.job.src = WritePos(e.wr[e.wf]) - e.job.dst
  /\ e.left = e.job.len - (WritePos(e.wr[e.wf]) - e.job.dst)

\* Every byte that was written is in its place.
Landed(e, M) ==
  \A k \in 0..(e.job.len - 1) :
    e.job.dst + k \in Unwritten(e.wr[e.wf]) \/ M[e.job.dst + k] = M[e.job.src + k]

EngineOK(e, M) ==
  /\ e \in EngineType
  /\ OthersDrained(e)
  /\ e.running => InStep(e, M) /\ Landed(e, M)

RegistersOK == SRC \in Srcs \cup {0} /\ DST \in Dsts \cup {0} /\ LEN \in Lens \cup {0}

\* The interrupt line and the flags the engine saw last.
LineOK ==
  /\ lastFlag \subseteq Bits /\ tickScheduled \in BOOLEAN
  /\ intLine => "done" \in lastFlag
  /\ "done" \in flags => intLine
  /\ ~tickScheduled /\ intLine => "done" \in flags

DmaInv ==
  /\ EngineOK(Engine, mem) /\ mem \in Memory /\ RegistersOK /\ LineOK

(***************************************************************************)
(* The blocks of a job                                                     *)
(***************************************************************************)

\* A job's blocks lie in the memory and do not overlap in part.
LEMMA JobInMemory ==
  ASSUME NEW j \in Job
  PROVE  /\ j.src \in Nat /\ j.dst \in Nat /\ j.len \in Nat
         /\ \A k \in 0..(j.len - 1) : /\ j.src + k \in 0..(MemSize - 1)
                                      /\ j.dst + k \in 0..(MemSize - 1)
         /\ \/ j.len = 0 \/ j.src = j.dst
            \/ j.src + j.len <= j.dst \/ j.dst + j.len <= j.src
<1>1. /\ j.src \in Srcs \cup {0} /\ j.dst \in Dsts \cup {0} /\ j.len \in Lens \cup {0}
  BY DEF Job
<1>2. j.src \in Nat /\ j.dst \in Nat /\ j.len \in Nat /\ MemSize \in Nat
  <2>1. Srcs \subseteq Nat /\ Dsts \subseteq Nat /\ Lens \subseteq Nat /\ MemSize \in Nat
    BY DmaAssumption
  <2>2. \A S : S \subseteq Nat => S \cup {0} \subseteq Nat OBVIOUS
  <2>3. /\ (Srcs \cup {0}) \subseteq Nat /\ (Dsts \cup {0}) \subseteq Nat
        /\ (Lens \cup {0}) \subseteq Nat
    BY <2>1, <2>2
  <2> QED BY <1>1, <2>1, <2>3
<1>3. CASE j.len = 0 BY <1>2, <1>3
<1>4. CASE j.len # 0
  <2>1. j.len \in Lens BY <1>1, <1>4
  <2>2. /\ j.src + j.len <= MemSize /\ j.dst + j.len <= MemSize
        /\ j.src = j.dst \/ j.src + j.len <= j.dst \/ j.dst + j.len <= j.src
    BY <1>1, <2>1, DmaAssumption
  <2> QED BY <1>2, <2>2
<1> QED BY <1>3, <1>4

\* The source of a job is a block of its length.
LEMMA SourceBlock ==
  ASSUME NEW j \in Job, NEW M \in Memory
  PROVE  /\ IsBlock(Nat, Source(j, M), j.len)
         /\ \A k \in 0..(j.len - 1) : Source(j, M)[k] = M[j.src + k]
BY JobInMemory DEF IsBlock, Source, Memory

(***************************************************************************)
(* The parts of tick()                                                     *)
(***************************************************************************)

\* What the start of a transfer assigns.
LEMMA StartFields ==
  ASSUME NEW e \in EngineType, Starts(e), NEW g, g = StartTransfer(e)
  PROVE  /\ g.running = TRUE /\ g.flags = (e.flags \ {"start"}) \cup {"running"}
         /\ g.left = LEN /\ g.job = [src |-> SRC, dst |-> DST, len |-> LEN]
         /\ g.rf = SideOf(SRC) /\ g.wf = SideOf(DST) /\ g.int = e.int
         /\ g.rd = [e.rd EXCEPT ![SideOf(SRC)] = StartFill(@, SRC, LEN)]
         /\ g.wr = [e.wr EXCEPT ![SideOf(DST)] = StartEmpty(@, DST, LEN)]
         /\ g = [flags |-> g.flags, running |-> g.running, left |-> g.left,
                 job |-> g.job, rf |-> g.rf, wf |-> g.wf, rd |-> g.rd, wr |-> g.wr,
                 int |-> g.int]
BY DEF StartTransfer, EngineType

\* The start of a transfer begins both blocks at their first byte.
LEMMA StartKeeps ==
  ASSUME RegistersOK, NEW M \in Memory, NEW e, EngineOK(e, M),
         NEW g, g = StartTransfer(e)
  PROVE  EngineOK(g, M)
<1>1. CASE ~Starts(e) BY <1>1 DEF StartTransfer
<1>2. CASE Starts(e)
  <2> DEFINE r == SideOf(SRC)
             w == SideOf(DST)
             j == [src |-> SRC, dst |-> DST, len |-> LEN]
             V == Source(j, M)
  <2>1. e \in EngineType /\ OthersDrained(e) /\ ~e.running
    BY <1>2 DEF EngineOK, Starts
  <2>2. /\ g.running = TRUE /\ g.flags = (e.flags \ {"start"}) \cup {"running"}
        /\ g.left = LEN /\ g.job = j
        /\ g.rf = r /\ g.wf = w /\ g.int = e.int
        /\ g.rd = [e.rd EXCEPT ![r] = StartFill(@, SRC, LEN)]
        /\ g.wr = [e.wr EXCEPT ![w] = StartEmpty(@, DST, LEN)]
        /\ g = [flags |-> g.flags, running |-> g.running, left |-> g.left,
                job |-> g.job, rf |-> g.rf, wf |-> g.wf, rd |-> g.rd, wr |-> g.wr,
                int |-> g.int]
    BY <1>2, <2>1, StartFields
  <2>3. j \in Job /\ j.src = SRC /\ j.dst = DST /\ j.len = LEN BY DEF RegistersOK, Job
  <2>4. SRC \in Nat /\ DST \in Nat /\ LEN \in Nat
    <3> HIDE DEF j
    <3> QED BY <2>3, JobInMemory
  <2>5. r \in Sides /\ w \in Sides BY DEF SideOf, Sides
  <2>6. /\ e.rd \in [Sides -> FifoOf(Nat)] /\ e.wr \in [Sides -> FifoOf(Nat)]
        /\ e.flags \in SUBSET Bits /\ e.int \in BOOLEAN
    BY <2>1 DEF EngineType
  <2>7. \A s \in Sides : /\ e.rd[s] \in FifoOf(Nat) /\ Drained(e.rd[s])
                         /\ e.wr[s] \in FifoOf(Nat) /\ Drained(e.wr[s])
    BY <2>1, <2>6 DEF OthersDrained
  <2> DEFINE x == e.rd[r]
             y == e.wr[w]
  <2>8. x \in FifoOf(Nat) /\ x.buffer = <<>> /\ x.pending = <<>>
    BY <2>5, <2>7 DEF Drained
  <2>9. y \in FifoOf(Nat) /\ y.buffer = <<>> /\ y.pending = <<>>
    BY <2>5, <2>7 DEF Drained
  <2> HIDE DEF r, w, j, V, x, y
  <2>10. /\ GoodRead(Nat, V, LEN, SRC, StartFill(x, SRC, LEN))
         /\ ReadPos(StartFill(x, SRC, LEN)) = SRC
    BY <2>4, <2>8, ReadStart
  <2>11. /\ GoodWrite(Nat, V, LEN, DST, StartEmpty(y, DST, LEN))
         /\ WritePos(StartEmpty(y, DST, LEN)) = DST
         /\ \A k \in 0..(LEN - 1) : DST + k \in Unwritten(StartEmpty(y, DST, LEN))
    <3>1. PICK d \in Nat, m \in Nat : d = DST /\ m = LEN BY <2>4
    <3>2. /\ GoodWrite(Nat, V, m, d, StartEmpty(y, d, m))
          /\ WritePos(StartEmpty(y, d, m)) = d
          /\ \A k \in 0..(m - 1) : d + k \in Unwritten(StartEmpty(y, d, m))
      BY <2>9, WriteStart
    <3> QED BY <3>1, <3>2
  <2>12. g.rd[r] = StartFill(x, SRC, LEN) /\ g.wr[w] = StartEmpty(y, DST, LEN)
    BY <2>2, <2>5, <2>6 DEF x, y
  <2>13. g.rd \in [Sides -> FifoOf(Nat)] /\ g.wr \in [Sides -> FifoOf(Nat)]
    <3>1. StartFill(x, SRC, LEN) \in FifoOf(Nat) BY <2>10 DEF GoodRead
    <3>2. StartEmpty(y, DST, LEN) \in FifoOf(Nat) BY <2>11 DEF GoodWrite, Emptying
    <3>3. g.rd \in [Sides -> FifoOf(Nat)] BY <2>2, <2>5, <2>6, <3>1 DEF x
    <3>4. g.wr \in [Sides -> FifoOf(Nat)] BY <2>2, <2>5, <2>6, <3>2 DEF y
    <3> QED BY <3>3, <3>4
  <2>14. g \in EngineType
    <3>1. g.flags \in SUBSET Bits BY <2>2, <2>6 DEF Bits
    <3> QED BY <2>2, <2>3, <2>4, <2>5, <2>6, <2>13, <3>1 DEF EngineType
  <2>15. OthersDrained(g)
    <3>1. \A s \in Sides : s # r => g.rd[s] = e.rd[s] BY <2>2, <2>6
    <3>2. \A s \in Sides : s # w => g.wr[s] = e.wr[s] BY <2>2, <2>6
    <3> QED BY <2>2, <2>7, <3>1, <3>2 DEF OthersDrained
  <2>16. InStep(g, M)
    <3>1. Source(g.job, M) = V BY <2>2 DEF V
    <3>2. SRC - SRC = DST - DST /\ LEN = LEN - (DST - DST) BY <2>4
    <3> QED BY <2>2, <2>3, <2>5, <2>10, <2>11, <2>12, <3>1, <3>2 DEF InStep
  <2>17. Landed(g, M) BY <2>2, <2>3, <2>11, <2>12 DEF Landed
  <2> QED BY <2>14, <2>15, <2>16, <2>17 DEF EngineOK
<1> QED BY <1>1, <1>2

\* The acknowledgement concerns the interrupt line alone.
LEMMA ClearKeeps ==
  ASSUME NEW M, NEW e, EngineOK(e, M), NEW g, g = ClearInterrupt(e)
  PROVE  EngineOK(g, M)
<1>1. CASE g = e BY <1>1
<1>2. CASE g # e
  <2>1. e \in EngineType BY DEF EngineOK
  <2>2. g = [e EXCEPT !.int = FALSE] BY <1>2 DEF ClearInterrupt
  <2>3. /\ g.running = e.running /\ g.left = e.left /\ g.job = e.job /\ g.rf = e.rf
        /\ g.wf = e.wf /\ g.rd = e.rd /\ g.wr = e.wr /\ g \in EngineType
    BY <2>1, <2>2 DEF EngineType
  <2> QED BY <2>3 DEF EngineOK, OthersDrained, InStep, Landed
<1> QED BY <1>1, <1>2

(***************************************************************************)
(* Copying and the end of the transfer                                     *)
(***************************************************************************)
Hands(e) ==
  LET n == Least(MaxReqSize, e.left)
  IN  e.running /\ e.left > 0 /\ CanFill(e.wr[e.wf], n) /\ CanGet(e.rd[e.rf], n)

Finishes(e) == e.running /\ e.left <= 0 /\ ~IsActive(e.wr[e.wf])

\* What the last part of tick() assigns.
LEMMA CopyFields ==
  ASSUME NEW e \in EngineType, NEW g, g = CopyOrFinish(e)
  PROVE  /\ Hands(e) => g = HandOver(e, Least(MaxReqSize, e.left))
         /\ Finishes(e) => g = [e EXCEPT !.running = FALSE,
                                         !.flags = (@ \ {"running"}) \cup {"done"},
                                         !.int = TRUE]
         /\ ~Hands(e) /\ ~Finishes(e) => g = e
<1>1. e.left \in Nat BY DEF EngineType
<1>2. ~(e.left > 0 /\ e.left <= 0) BY <1>1
<1> QED BY <1>2 DEF CopyOrFinish, Hands, Finishes

\* When the write FIFO is no longer active, the whole block is at its
\* destination and no FIFO holds a byte or a request: the engine raises done at
\* the right moment.
LEMMA FinishCopied ==
  ASSUME NEW M \in Memory, NEW e, EngineOK(e, M), Finishes(e)
  PROVE  /\ \A k \in 0..(e.job.len - 1) : M[e.job.dst + k] = M[e.job.src + k]
         /\ \A s \in Sides : Drained(e.rd[s]) /\ Drained(e.wr[s])
<1> DEFINE r == e.rd[e.rf]
           w == e.wr[e.wf]
           j == e.job
           V == Source(j, M)
<1>1. /\ e \in EngineType /\ OthersDrained(e) /\ InStep(e, M) /\ Landed(e, M)
      /\ w.pending = <<>> /\ AtEndOfBlock(w)
  BY DEF EngineOK, Finishes, IsActive
<1>2. /\ GoodRead(Nat, V, j.len, j.src, r) /\ GoodWrite(Nat, V, j.len, j.dst, w)
      /\ ReadPos(r) - j.src = WritePos(w) - j.dst
  BY <1>1 DEF InStep
<1>3. j \in Job BY <1>1 DEF EngineType
<1>4. j.src \in Nat /\ j.dst \in Nat /\ j.len \in Nat BY <1>3, JobInMemory
<1>5. w \in FifoOf(Nat) /\ Shape(w) /\ r \in FifoOf(Nat) /\ Shape(r)
  BY <1>2 DEF GoodRead, GoodWrite, Emptying
<1> HIDE DEF r, w, j, V
<1>6. /\ w.nextAddr \in Nat /\ Len(w.buffer) \in Nat /\ w.buffer \in Seq(Nat)
      /\ r.nextAddr \in Nat /\ Len(r.buffer) \in Nat /\ r.buffer \in Seq(Nat)
      /\ r.nextAddr <= r.endAddr /\ SizePending(r) \in Nat
      /\ ReadPos(r) \in Int
      /\ ReadPos(r) + Len(r.buffer) + SizePending(r) = r.nextAddr
  BY <1>5, ReadNumbers
<1>7. w.nextAddr = j.dst + j.len /\ WritePos(w) <= j.dst + j.len
      /\ r.endAddr = j.src + j.len
  BY <1>1, <1>2 DEF GoodRead, GoodWrite, Emptying, AtEndOfBlock
<1>8. WritePos(w) = w.nextAddr + Len(w.buffer) BY DEF WritePos
<1>9. Len(w.buffer) = 0 /\ WritePos(w) = j.dst + j.len BY <1>4, <1>6, <1>7, <1>8
<1>10. ReadPos(r) = j.src + j.len BY <1>2, <1>4, <1>6, <1>9
<1>11. Len(r.buffer) = 0 /\ SizePending(r) = 0 /\ r.nextAddr = r.endAddr
  <2>1. PICK b \in Nat, s \in Nat, x \in Nat, y \in Nat :
          b = Len(r.buffer) /\ s = SizePending(r) /\ x = r.nextAddr /\ y = r.endAddr
    BY <1>4, <1>6, <1>7
  <2>2. x <= y /\ y + b + s = x BY <1>6, <1>7, <1>10, <2>1
  <2>3. b = 0 /\ s = 0 /\ x = y BY <2>2
  <2> QED BY <2>1, <2>3
<1>12. Drained(w) BY <1>1, <1>6, <1>9 DEF Drained
<1>13. Drained(r)
  <2>1. r.pending = <<>> BY <1>5, <1>11, PendingBytes
  <2> QED BY <1>6, <1>11, <2>1 DEF Drained, AtEndOfBlock
<1>14. \A s \in Sides : Drained(e.rd[s]) /\ Drained(e.wr[s])
  BY <1>1, <1>12, <1>13 DEF OthersDrained, r, w
<1>15. ASSUME NEW k \in 0..(j.len - 1) PROVE M[j.dst + k] = M[j.src + k]
  <2>1. j.dst + k \notin Unwritten(w)
    <3>1. ~(w.nextAddr <= j.dst + k) BY <1>4, <1>7
    <3>2. Len(w.pending) = 0 BY <1>1
    <3> QED BY <3>1, <3>2 DEF Unwritten
  <2> QED BY <1>1, <2>1 DEF Landed, w, j
<1> QED BY <1>14, <1>15 DEF j

\* A hand-over moves the next bytes of the block from one FIFO to the other.
LEMMA HandOverKeeps ==
  ASSUME NEW M \in Memory, NEW e, EngineOK(e, M), Hands(e),
         NEW g, g = CopyOrFinish(e)
  PROVE  EngineOK(g, M)
<1> DEFINE size == Least(MaxReqSize, e.left)
           r == e.rd[e.rf]
           w == e.wr[e.wf]
           j == e.job
           V == Source(j, M)
           d == Got(r, size)
<1>1. /\ e \in EngineType /\ OthersDrained(e) /\ InStep(e, M) /\ Landed(e, M)
      /\ e.running /\ e.left > 0 /\ CanFill(w, size) /\ CanGet(r, size)
  BY DEF EngineOK, Hands
<1>2. /\ GoodRead(Nat, V, j.len, j.src, r) /\ GoodWrite(Nat, V, j.len, j.dst, w)
      /\ ReadPos(r) - j.src = WritePos(w) - j.dst
      /\ e.left = j.len - (WritePos(w) - j.dst)
      /\ e.rf \in Sides /\ e.wf \in Sides
  BY <1>1 DEF InStep
<1>3. /\ j \in Job /\ e.left \in Nat
      /\ e.rd \in [Sides -> FifoOf(Nat)] /\ e.wr \in [Sides -> FifoOf(Nat)]
  BY <1>1 DEF EngineType
<1>4. j.src \in Nat /\ j.dst \in Nat /\ j.len \in Nat BY <1>3, JobInMemory
<1>5. size \in Nat /\ size <= e.left
  BY <1>3, FifoAssumption DEF Least
<1>6. /\ g.running = e.running /\ g.flags = e.flags /\ g.job = j
      /\ g.rf = e.rf /\ g.wf = e.wf /\ g.int = e.int /\ g.left = e.left - size
      /\ g.rd = [e.rd EXCEPT ![e.rf] = TryGet(@, size)]
      /\ g.wr = [e.wr EXCEPT ![e.wf] = Fill(@, Got(e.rd[e.rf], size))]
      /\ g = [flags |-> g.flags, running |-> g.running, left |-> g.left,
              job |-> g.job, rf |-> g.rf, wf |-> g.wf, rd |-> g.rd, wr |-> g.wr,
              int |-> g.int]
  <2>1. g = HandOver(e, size) BY <1>1, CopyFields
  <2>2. e \in EngineType BY <1>1
  <2> HIDE DEF size
  <2> QED BY <2>1, <2>2 DEF HandOver, EngineType
<1>7. /\ g.rd[e.rf] = TryGet(r, size) /\ g.wr[e.wf] = Fill(w, d)
      /\ \A s \in Sides : s # e.rf => g.rd[s] = e.rd[s]
      /\ \A s \in Sides : s # e.wf => g.wr[s] = e.wr[s]
  <2> HIDE DEF size
  <2> QED BY <1>2, <1>3, <1>6
<1> HIDE DEF size, r, w, j, V
<1>8. /\ GoodRead(Nat, V, j.len, j.src, TryGet(r, size))
      /\ ReadPos(TryGet(r, size)) = ReadPos(r) + size
      /\ d \in Seq(Nat) /\ Len(d) = size
      /\ \A k \in 1..size : d[k] = V[ReadPos(r) - j.src + k - 1]
  <2>1. GoodRead(Nat, V, j.len, j.src, r) /\ CanGet(r, size) BY <1>1, <1>2
  <2>2. PICK base \in Nat, len \in Nat, c \in Nat : base = j.src /\ len = j.len /\ c = size
    BY <1>4, <1>5
  <2>3. GoodRead(Nat, V, len, base, r) /\ CanGet(r, c) BY <2>1, <2>2
  <2>4. Delivers(Nat, V, len, base, r, c) BY <2>3, ReadGet
  <2> QED BY <2>2, <2>4 DEF Delivers
<1> HIDE DEF d
<1>9. w \in FifoOf(Nat) /\ Shape(w) /\ r \in FifoOf(Nat) /\ Shape(r)
      /\ w.endAddr = j.dst + j.len
  BY <1>2 DEF GoodRead, GoodWrite, Emptying
<1>10. w.nextAddr \in Nat /\ Len(w.buffer) \in Nat /\ ReadPos(r) \in Int
  BY <1>9, ReadNumbers
<1>11. WritePos(w) \in Nat BY <1>10 DEF WritePos
<1>12. WritePos(w) + size <= w.endAddr BY <1>2, <1>4, <1>5, <1>9, <1>11
<1>13. \A k \in 1..size : d[k] = V[WritePos(w) - j.dst + k - 1]
  BY <1>2, <1>8
<1>14. /\ GoodWrite(Nat, V, j.len, j.dst, Fill(w, d))
       /\ WritePos(Fill(w, d)) = WritePos(w) + size
       /\ Unwritten(w) \subseteq Unwritten(Fill(w, d))
  <2>1. GoodWrite(Nat, V, j.len, j.dst, w) /\ CanFill(w, Len(d)) BY <1>1, <1>2, <1>8
  <2>2. d \in Seq(Nat) /\ Len(d) = size BY <1>8
  <2>3. WritePos(w) + Len(d) <= w.endAddr BY <1>12, <2>2
  <2>4. \A k \in 1..Len(d) : d[k] = V[WritePos(w) - j.dst + k - 1] BY <1>13, <2>2
  <2>5. PICK base \in Nat, len \in Nat : base = j.dst /\ len = j.len BY <1>4
  <2>6. PICK c \in Seq(Nat) : c = d BY <2>2
  <2>7. /\ base \in Int /\ Emptying(Nat, V, base, w) /\ CanFill(w, Len(c))
        /\ w.endAddr = base + len /\ WritePos(w) + Len(c) <= w.endAddr
        /\ \A k \in 1..Len(c) : c[k] = V[WritePos(w) - base + k - 1]
    <3>1. GoodWrite(Nat, V, len, base, w) BY <2>1, <2>5
    <3>2. base \in Int OBVIOUS
    <3>3. /\ CanFill(w, Len(c)) /\ WritePos(w) + Len(c) <= w.endAddr
          /\ \A k \in 1..Len(c) : c[k] = V[WritePos(w) - base + k - 1]
      BY <2>1, <2>3, <2>4, <2>5, <2>6
    <3> QED BY <3>1, <3>2, <3>3 DEF GoodWrite
  <2>8. /\ Emptying(Nat, V, base, Fill(w, c))
        /\ WritePos(Fill(w, c)) = WritePos(w) + Len(c)
        /\ Unwritten(w) \subseteq Unwritten(Fill(w, c))
        /\ Advances(w, Fill(w, c))
    BY <2>7, WriteFill
  <2>9. GoodWrite(Nat, V, len, base, Fill(w, c))
    BY <2>7, <2>8 DEF GoodWrite, Advances
  <2> QED BY <2>2, <2>5, <2>6, <2>8, <2>9
<1>15. g \in EngineType
  <2>1. TryGet(r, size) \in FifoOf(Nat) BY <1>8 DEF GoodRead
  <2>2. Fill(w, d) \in FifoOf(Nat) BY <1>14 DEF GoodWrite, Emptying
  <2>3. g.rd \in [Sides -> FifoOf(Nat)] BY <1>2, <1>3, <1>6, <1>7, <2>1
  <2>4. g.wr \in [Sides -> FifoOf(Nat)] BY <1>2, <1>3, <1>6, <1>7, <2>2
  <2>5. g.left \in Nat BY <1>3, <1>5, <1>6
  <2>6. /\ e.running \in BOOLEAN /\ e.flags \in SUBSET Bits /\ e.int \in BOOLEAN
        /\ e.rf \in Sides \cup {None} /\ e.wf \in Sides \cup {None}
    BY <1>1 DEF EngineType
  <2> QED BY <1>3, <1>6, <2>3, <2>4, <2>5, <2>6 DEF EngineType
<1>16. OthersDrained(g)
  BY <1>1, <1>6, <1>7 DEF OthersDrained
<1>17. InStep(g, M)
  <2>1. (ReadPos(r) + size) - j.src = (WritePos(w) + size) - j.dst
        /\ e.left - size = j.len - ((WritePos(w) + size) - j.dst)
    <3>1. /\ ReadPos(r) - j.src = WritePos(w) - j.dst
          /\ e.left = j.len - (WritePos(w) - j.dst)
          /\ ReadPos(r) \in Int /\ e.left \in Nat
      BY <1>2, <1>3, <1>10
    <3> QED BY <1>4, <1>5, <1>11, <3>1
  <2> QED BY <1>2, <1>6, <1>7, <1>8, <1>14, <2>1 DEF InStep, V
<1>18. Landed(g, M)
  BY <1>1, <1>6, <1>7, <1>14 DEF Landed, w, j
<1> QED BY <1>15, <1>16, <1>17, <1>18 DEF EngineOK

\* The last part of tick() keeps the engine's invariant, and the transfer ends
\* only when the block was copied.
LEMMA CopyKeeps ==
  ASSUME NEW M \in Memory, NEW e, EngineOK(e, M), NEW g, g = CopyOrFinish(e)
  PROVE  /\ EngineOK(g, M) /\ g.job = e.job
         /\ ~Finishes(e) => g.running = e.running /\ g.flags = e.flags /\ g.int = e.int
         /\ Finishes(e) => /\ ~g.running /\ g.int
                           /\ g.flags = (e.flags \ {"running"}) \cup {"done"}
<1>1. e \in EngineType /\ OthersDrained(e) BY DEF EngineOK
<1>2. CASE Hands(e)
  <2>1. g = HandOver(e, Least(MaxReqSize, e.left)) BY <1>1, <1>2, CopyFields
  <2>2. EngineOK(g, M) BY <1>2, HandOverKeeps
  <2>3. g.job = e.job /\ g.running = e.running /\ g.flags = e.flags /\ g.int = e.int
    BY <1>1, <2>1 DEF HandOver, EngineType
  <2>4. ~Finishes(e)
    <3>1. e.left \in Nat BY <1>1 DEF EngineType
    <3> QED BY <1>2, <3>1 DEF Hands, Finishes
  <2> QED BY <2>2, <2>3, <2>4
<1>3. CASE Finishes(e)
  <2>1. g = [e EXCEPT !.running = FALSE, !.flags = (@ \ {"running"}) \cup {"done"},
                      !.int = TRUE]
    BY <1>1, <1>3, CopyFields
  <2>2. /\ g.running = FALSE /\ g.flags = (e.flags \ {"running"}) \cup {"done"}
        /\ g.int = TRUE /\ g.rd = e.rd /\ g.wr = e.wr /\ g.job = e.job
        /\ g \in EngineType
    BY <1>1, <2>1 DEF EngineType, Bits
  <2>3. \A s \in Sides : Drained(e.rd[s]) /\ Drained(e.wr[s]) BY <1>3, FinishCopied
  <2>4. EngineOK(g, M) BY <2>2, <2>3 DEF EngineOK, OthersDrained
  <2> QED BY <1>3, <2>2, <2>4
<1>4. CASE ~Hands(e) /\ ~Finishes(e)
  <2>1. g = e BY <1>1, <1>4, CopyFields
  <2> QED BY <1>4, <2>1
<1> QED BY <1>2, <1>3, <1>4

(***************************************************************************)
(* The actions                                                             *)
(***************************************************************************)

\* The parts of the record that stands for the engine.
LEMMA EngineParts ==
  /\ Engine.flags = flags /\ Engine.running = running /\ Engine.left = writesLeft
  /\ Engine.job = job /\ Engine.rf = readFifo /\ Engine.wf = writeFifo
  /\ Engine.rd = rd /\ Engine.wr = wr /\ Engine.int = intLine
BY DEF Engine

\* One tick: the start, the acknowledgement and the copying follow each other.
LEMMA TickParts ==
  ASSUME DmaInv, Tick,
         NEW e1, e1 = StartTransfer(Engine), NEW e2, e2 = ClearInterrupt(e1)
  PROVE  /\ EngineOK(e1, mem) /\ EngineOK(e2, mem) /\ EngineOK(Engine, mem)'
         /\ mem' = mem /\ mem \in Memory
         /\ e1.job = IF Starts(Engine) THEN [src |-> SRC, dst |-> DST, len |-> LEN] ELSE job
         /\ e1.running = (running \/ Starts(Engine))
         /\ "done" \in e1.flags <=> "done" \in flags
         /\ e1.int = intLine
         /\ e2.running = e1.running /\ e2.flags = e1.flags /\ e2.job = e1.job
         /\ e2.left = e1.left
         /\ e2.int = IF "done" \in lastFlag /\ "done" \notin e1.flags THEN FALSE ELSE e1.int
         /\ job' = e2.job /\ lastFlag' = flags' /\ tickScheduled' = running'
         /\ ~Finishes(e2) => running' = e2.running /\ flags' = e2.flags /\ intLine' = e2.int
         /\ Finishes(e2) => /\ ~running' /\ intLine'
                            /\ flags' = (e2.flags \ {"running"}) \cup {"done"}
<1>1. /\ EngineOK(Engine, mem) /\ mem \in Memory /\ RegistersOK /\ Engine \in EngineType
  BY DEF DmaInv, EngineOK
<1>2. EngineOK(e1, mem) BY <1>1, StartKeeps
<1>3. EngineOK(e2, mem) BY <1>2, ClearKeeps
<1>4. PICK e : /\ e = CopyOrFinish(e2)
               /\ flags' = e.flags /\ running' = e.running /\ writesLeft' = e.left
               /\ job' = e.job /\ readFifo' = e.rf /\ writeFifo' = e.wf
               /\ rd' = e.rd /\ wr' = e.wr /\ intLine' = e.int
               /\ lastFlag' = e.flags /\ tickScheduled' = e.running
  BY DEF Tick
<1>5. mem' = mem BY DEF Tick
<1>6. /\ EngineOK(e, mem) /\ e.job = e2.job
      /\ ~Finishes(e2) => e.running = e2.running /\ e.flags = e2.flags /\ e.int = e2.int
      /\ Finishes(e2) => /\ ~e.running /\ e.int
                         /\ e.flags = (e2.flags \ {"running"}) \cup {"done"}
  BY <1>1, <1>3, <1>4, CopyKeeps
<1>7. EngineOK(Engine, mem)'
  <2>1. e \in EngineType BY <1>6 DEF EngineOK
  <2>2. e = [flags |-> e.flags, running |-> e.running, left |-> e.left,
             job |-> e.job, rf |-> e.rf, wf |-> e.wf, rd |-> e.rd, wr |-> e.wr,
             int |-> e.int]
    BY <2>1 DEF EngineType
  <2>3. Engine' = [flags |-> flags', running |-> running', left |-> writesLeft',
                   job |-> job', rf |-> readFifo', wf |-> writeFifo', rd |-> rd',
                   wr |-> wr', int |-> intLine']
    BY DEF Engine
  <2>4. Engine' = e BY <1>4, <2>2, <2>3
  <2> QED BY <1>5, <1>6, <2>4
<1>8. /\ e1.job = IF Starts(Engine) THEN [src |-> SRC, dst |-> DST, len |-> LEN] ELSE job
      /\ e1.running = (running \/ Starts(Engine))
      /\ "done" \in e1.flags <=> "done" \in flags
      /\ e1.int = intLine
  <2>1. CASE Starts(Engine)
    <3>1. /\ e1.running = TRUE /\ e1.flags = (Engine.flags \ {"start"}) \cup {"running"}
          /\ e1.job = [src |-> SRC, dst |-> DST, len |-> LEN] /\ e1.int = Engine.int
      BY <1>1, <2>1, StartFields
    <3> QED BY <2>1, <3>1, EngineParts
  <2>2. CASE ~Starts(Engine)
    <3>1. e1 = Engine BY <2>2 DEF StartTransfer
    <3>2. running \in BOOLEAN BY <1>1 DEF EngineType, Engine
    <3> QED BY <2>2, <3>1, <3>2, EngineParts
  <2> QED BY <2>1, <2>2
<1>9. /\ e2.running = e1.running /\ e2.flags = e1.flags /\ e2.job = e1.job
      /\ e2.left = e1.left
      /\ e2.int = IF "done" \in lastFlag /\ "done" \notin e1.flags THEN FALSE ELSE e1.int
  <2>1. e1 \in EngineType BY <1>2 DEF EngineOK
  <2> QED BY <2>1 DEF ClearInterrupt, EngineType
<1> QED BY <1>1, <1>2, <1>3, <1>4, <1>5, <1>6, <1>7, <1>8, <1>9

\* A tick keeps the invariant.
LEMMA TickKeeps ==
  ASSUME DmaInv, Tick PROVE DmaInv'
<1> DEFINE e1 == StartTransfer(Engine)
           e2 == ClearInterrupt(e1)
<1> HIDE DEF e1, e2
<1>1. /\ EngineOK(Engine, mem)' /\ mem' = mem /\ mem \in Memory
      /\ "done" \in e1.flags <=> "done" \in flags
      /\ e1.int = intLine /\ e2.flags = e1.flags
      /\ e2.int = IF "done" \in lastFlag /\ "done" \notin e1.flags THEN FALSE ELSE e1.int
      /\ lastFlag' = flags' /\ tickScheduled' = running'
      /\ ~Finishes(e2) => running' = e2.running /\ flags' = e2.flags /\ intLine' = e2.int
      /\ Finishes(e2) => /\ ~running' /\ intLine'
                         /\ flags' = (e2.flags \ {"running"}) \cup {"done"}
  BY TickParts DEF e1, e2
<1>2. (mem \in Memory)' BY <1>1 DEF Memory
<1>3. RegistersOK' BY DEF DmaInv, RegistersOK, Tick
<1>4. flags' \in SUBSET Bits /\ running' \in BOOLEAN /\ intLine' \in BOOLEAN
  BY <1>1 DEF EngineOK, EngineType, Engine
<1>5. e2.int <=> "done" \in flags
  BY <1>1 DEF DmaInv, LineOK
<1>6. intLine' <=> "done" \in flags'
  <2>1. CASE Finishes(e2) BY <1>1, <2>1
  <2>2. CASE ~Finishes(e2) BY <1>1, <1>5, <2>2
  <2> QED BY <2>1, <2>2
<1>7. LineOK' BY <1>1, <1>4, <1>6 DEF LineOK
<1> QED BY <1>1, <1>2, <1>3, <1>7 DEF DmaInv

\* The host's writes reach the registers and nothing that a transfer uses.
LEMMA HostKeeps ==
  ASSUME DmaInv, HostWrite PROVE DmaInv'
<1>1. /\ flags' = flags \/ flags' = flags \cup {"start"} \/ flags' = {"start"} \/ flags' = {}
      /\ SRC' = SRC \/ SRC' \in Srcs
      /\ DST' = DST \/ DST' \in Dsts
      /\ LEN' = LEN \/ LEN' \in Lens
      /\ tickScheduled' = TRUE
      /\ UNCHANGED <<lastFlag, transfer, rd, wr, intLine, mem>>
  BY DEF HostWrite, Write
<1>2. /\ EngineOK(Engine, mem) /\ mem \in Memory /\ Engine \in EngineType
  BY DEF DmaInv, EngineOK
<1>3. /\ Engine'.running = Engine.running /\ Engine'.left = Engine.left
      /\ Engine'.job = Engine.job /\ Engine'.rf = Engine.rf /\ Engine'.wf = Engine.wf
      /\ Engine'.rd = Engine.rd /\ Engine'.wr = Engine.wr
  BY <1>1 DEF Engine, transfer
<1>4. flags \subseteq Bits BY <1>2 DEF EngineType, Engine
<1>5. flags' \subseteq Bits /\ ("done" \in flags' => "done" \in flags)
  BY <1>1, <1>4 DEF Bits
<1>6. Engine' \in EngineType
  <2>1. /\ running \in BOOLEAN /\ writesLeft \in Nat /\ job \in Job
        /\ readFifo \in Sides \cup {None} /\ writeFifo \in Sides \cup {None}
        /\ rd \in [Sides -> FifoOf(Nat)] /\ wr \in [Sides -> FifoOf(Nat)]
        /\ intLine \in BOOLEAN
    BY <1>2 DEF EngineType, Engine
  <2> QED BY <1>1, <1>5, <2>1 DEF EngineType, Engine, transfer
<1>7. mem' = mem BY <1>1
<1> DEFINE e == Engine
           f == Engine'
<1> HIDE DEF e, f
<1>8. EngineOK(Engine, mem)'
  <2>1. OthersDrained(f) BY <1>2, <1>3 DEF EngineOK, OthersDrained, e, f
  <2>2. f.running => InStep(f, mem) /\ Landed(f, mem)
    BY <1>2, <1>3 DEF EngineOK, InStep, Landed, f
  <2>3. EngineOK(f, mem) BY <1>6, <2>1, <2>2 DEF EngineOK, f
  <2> QED BY <1>7, <2>3 DEF f
<1>9. (mem \in Memory)' BY <1>2, <1>7 DEF Memory
<1>10. RegistersOK' BY <1>1 DEF DmaInv, RegistersOK
<1>11. LineOK' BY <1>1, <1>5 DEF DmaInv, LineOK
<1> QED BY <1>8, <1>9, <1>10, <1>11 DEF DmaInv

(***************************************************************************)
(* The memories' answers                                                   *)
(***************************************************************************)

\* Memory M after the write request q was done.
Overwritten(M, q) ==
  [a \in DOMAIN M |->
     IF a \in q.addr..(q.addr + q.size - 1) THEN q.data[a - q.addr + 1] ELSE M[a]]

\* The offsets of the block of j that write request q fills.
Place(j, q) == {k \in 0..(j.len - 1) : q.addr <= j.dst + k /\ j.dst + k < q.addr + q.size}

\* L is memory M after request q of job j: only the place of q in the destination
\* has changed, to the bytes of the source.
Fills(j, M, q, L) ==
  /\ L \in Memory
  /\ L = [a \in 0..(MemSize - 1) |->
            IF a - j.dst \in Place(j, q) THEN M[a - j.dst + j.src] ELSE M[a]]
  /\ \A k \in 0..(j.len - 1) : L[j.src + k] = M[j.src + k]

\* A write request of a transfer fills its place in the destination from the
\* same place in the source, and does not touch the source.
LEMMA WriteEffect ==
  ASSUME NEW j \in Job, NEW M \in Memory, NEW w,
         GoodWrite(Nat, Source(j, M), j.len, j.dst, w),
         NEW i \in 1..Len(w.pending), NEW q, q = w.pending[i],
         NEW L, L = Overwritten(M, q)
  PROVE  Fills(j, M, q, L)
<1>1. /\ j.src \in Nat /\ j.dst \in Nat /\ j.len \in Nat
      /\ \A k \in 0..(j.len - 1) : /\ j.src + k \in 0..(MemSize - 1)
                                   /\ j.dst + k \in 0..(MemSize - 1)
      /\ \/ j.len = 0 \/ j.src = j.dst
         \/ j.src + j.len <= j.dst \/ j.dst + j.len <= j.src
  BY JobInMemory
<1>2. /\ w \in FifoOf(Nat) /\ Shape(w) /\ w.endAddr = j.dst + j.len
      /\ j.dst <= q.addr /\ HoldsBytes(q, Source(j, M), j.dst)
  BY DEF GoodWrite, Emptying
<1>3. /\ q.addr \in Nat /\ q.size \in Nat /\ q.data \in Seq(Nat)
      /\ q.addr + q.size <= w.nextAddr /\ w.nextAddr <= w.endAddr
      /\ w.nextAddr \in Nat
  BY <1>2, ReadNumbers
<1>4. q.addr + q.size <= j.dst + j.len
  <2>1. PICK x \in Nat, y \in Nat, z \in Nat :
          x = q.addr + q.size /\ y = w.nextAddr /\ z = w.endAddr
    BY <1>1, <1>2, <1>3
  <2>2. x <= z BY <1>3, <2>1
  <2> QED BY <1>2, <2>1, <2>2
<1>5. /\ Len(q.data) = q.size
      /\ \A k \in 1..q.size : q.data[k] = Source(j, M)[q.addr - j.dst + k - 1]
  BY <1>2 DEF HoldsBytes
<1>6. MemSize \in Nat /\ M \in [0..(MemSize - 1) -> Nat] BY DmaAssumption DEF Memory
<1>7. \A k \in 0..(j.len - 1) : Source(j, M)[k] = M[j.src + k] BY SourceBlock
<1>8. ASSUME NEW a \in q.addr..(q.addr + q.size - 1)
      PROVE  /\ a - j.dst \in Place(j, q)
             /\ q.data[a - q.addr + 1] = M[a - j.dst + j.src]
             /\ M[a - j.dst + j.src] \in Nat
  <2> DEFINE k == a - j.dst
             h == a - q.addr + 1
  <2>1. a \in Nat /\ k \in 0..(j.len - 1) /\ j.dst + k = a /\ q.addr <= a
        /\ a < q.addr + q.size
    <3>1. PICK d \in Nat, n \in Nat, b \in Nat, z \in Nat :
            d = j.dst /\ n = j.len /\ b = q.addr /\ z = q.size
      BY <1>1, <1>3
    <3>2. a \in b..(b + z - 1) /\ d <= b /\ b + z <= d + n BY <1>2, <1>4, <3>1
    <3>3. a \in Nat /\ a - d \in 0..(n - 1) /\ d + (a - d) = a /\ b <= a /\ a < b + z
      BY <3>2
    <3> QED BY <3>1, <3>3
  <2>2. k \in Place(j, q) BY <2>1 DEF Place
  <2>3. h \in 1..q.size /\ q.addr - j.dst + h - 1 = k
    <3>1. PICK d \in Nat, b \in Nat, z \in Nat : d = j.dst /\ b = q.addr /\ z = q.size
      BY <1>1, <1>3
    <3>2. a \in Nat /\ b <= a /\ a < b + z BY <2>1, <3>1
    <3>3. a - b + 1 \in 1..z /\ b - d + (a - b + 1) - 1 = a - d BY <3>2
    <3> QED BY <3>1, <3>3
  <2>4. j.src + k = a - j.dst + j.src BY <1>1, <2>1
  <2> HIDE DEF k, h
  <2>5. q.data[h] = Source(j, M)[k] BY <1>5, <2>3
  <2>6. q.data[h] = M[j.src + k] /\ j.src + k \in 0..(MemSize - 1) BY <1>1, <1>7, <2>1, <2>5
  <2>7. M[j.src + k] \in Nat BY <1>6, <2>6
  <2> QED BY <2>2, <2>4, <2>6, <2>7 DEF k, h
<1>9. ASSUME NEW a \in 0..(MemSize - 1), a \notin q.addr..(q.addr + q.size - 1)
      PROVE  a - j.dst \notin Place(j, q)
  <2>1. a \in Int BY <1>6
  <2>2. a < q.addr \/ a >= q.addr + q.size BY <1>3, <1>9, <2>1
  <2>3. PICK d \in Nat, b \in Nat, z \in Nat : d = j.dst /\ b = q.addr /\ z = q.size
    BY <1>1, <1>3
  <2>4. d + (a - d) = a BY <2>1
  <2>5. ~(b <= d + (a - d) /\ d + (a - d) < b + z)
    <3>1. a < b \/ a >= b + z BY <2>2, <2>3
    <3>2. ~(b <= a /\ a < b + z) BY <2>1, <3>1
    <3> QED BY <2>4, <3>2
  <2> QED BY <2>3, <2>5 DEF Place
<1>10. L = [a \in 0..(MemSize - 1) |->
              IF a \in q.addr..(q.addr + q.size - 1) THEN q.data[a - q.addr + 1] ELSE M[a]]
  BY <1>6 DEF Overwritten
<1>11. L = [a \in 0..(MemSize - 1) |->
              IF a - j.dst \in Place(j, q) THEN M[a - j.dst + j.src] ELSE M[a]]
  <2>1. \A a \in 0..(MemSize - 1) :
          (IF a \in q.addr..(q.addr + q.size - 1) THEN q.data[a - q.addr + 1] ELSE M[a])
          = (IF a - j.dst \in Place(j, q) THEN M[a - j.dst + j.src] ELSE M[a])
    BY <1>8, <1>9
  <2> QED BY <1>10, <2>1
<1>12. L \in Memory
  <2>1. \A a \in 0..(MemSize - 1) :
          (IF a \in q.addr..(q.addr + q.size - 1) THEN q.data[a - q.addr + 1] ELSE M[a]) \in Nat
    BY <1>6, <1>8
  <2> QED BY <1>10, <2>1 DEF Memory
<1>13. ASSUME NEW k \in 0..(j.len - 1) PROVE L[j.src + k] = M[j.src + k]
  <2> DEFINE a == j.src + k
  <2>1. a \in 0..(MemSize - 1) /\ a \in Int /\ k \in Int BY <1>1
  <2>2. L[a] = IF a - j.dst \in Place(j, q) THEN M[a - j.dst + j.src] ELSE M[a]
    BY <1>11, <2>1
  <2>3. CASE j.src = j.dst
    <3>1. a - j.dst + j.src = a BY <1>1, <2>1, <2>3
    <3> QED BY <2>2, <3>1
  <2>4. CASE j.src # j.dst
    <3>0. PICK s \in Nat, d \in Nat, n \in Nat : s = j.src /\ d = j.dst /\ n = j.len
      BY <1>1
    <3>1. a - j.dst \notin 0..(j.len - 1)
      <4>1. k \in 0..(n - 1) /\ (n = 0 \/ s + n <= d \/ d + n <= s) BY <1>1, <2>4, <3>0
      <4>2. (s + k) - d \notin 0..(n - 1) BY <4>1
      <4> QED BY <3>0, <4>2
    <3>2. a - j.dst \notin Place(j, q) BY <3>1 DEF Place
    <3> QED BY <2>2, <3>2
  <2> QED BY <2>3, <2>4
<1> QED BY <1>11, <1>12, <1>13 DEF Fills

\* The variables have the types of the engine's parts.
LEMMA PartTypes ==
  ASSUME DmaInv
  PROVE  /\ flags \in SUBSET Bits /\ running \in BOOLEAN /\ writesLeft \in Nat /\ job \in Job
         /\ readFifo \in Sides \cup {None} /\ writeFifo \in Sides \cup {None}
         /\ rd \in [Sides -> FifoOf(Nat)] /\ wr \in [Sides -> FifoOf(Nat)]
         /\ intLine \in BOOLEAN /\ mem \in Memory
         /\ \A s \in Sides : s # readFifo \/ ~running => Drained(rd[s])
         /\ \A s \in Sides : s # writeFifo \/ ~running => Drained(wr[s])
<1>1. Engine \in EngineType /\ OthersDrained(Engine) /\ mem \in Memory BY DEF DmaInv, EngineOK
<1>2. /\ flags \in SUBSET Bits /\ running \in BOOLEAN /\ writesLeft \in Nat /\ job \in Job
      /\ readFifo \in Sides \cup {None} /\ writeFifo \in Sides \cup {None}
      /\ rd \in [Sides -> FifoOf(Nat)] /\ wr \in [Sides -> FifoOf(Nat)]
      /\ intLine \in BOOLEAN
  BY <1>1 DEF EngineType, Engine
<1>3. /\ \A s \in Sides : s # readFifo \/ ~running => Drained(rd[s])
      /\ \A s \in Sides : s # writeFifo \/ ~running => Drained(wr[s])
  BY <1>1, EngineParts DEF OthersDrained
<1> QED BY <1>1, <1>2, <1>3

\* What holds while a transfer runs.
LEMMA WhileRunning ==
  ASSUME DmaInv, running
  PROVE  /\ readFifo \in Sides /\ writeFifo \in Sides
         /\ GoodRead(Nat, Source(job, mem), job.len, job.src, rd[readFifo])
         /\ GoodWrite(Nat, Source(job, mem), job.len, job.dst, wr[writeFifo])
         /\ ReadPos(rd[readFifo]) - job.src = WritePos(wr[writeFifo]) - job.dst
         /\ writesLeft = job.len - (WritePos(wr[writeFifo]) - job.dst)
         /\ \A k \in 0..(job.len - 1) :
              \/ job.dst + k \in Unwritten(wr[writeFifo])
              \/ mem[job.dst + k] = mem[job.src + k]
<1>1. InStep(Engine, mem) /\ Landed(Engine, mem) BY EngineParts DEF DmaInv, EngineOK
<1> QED BY <1>1, EngineParts DEF InStep, Landed

\* The answer to a read brings the bytes of the source at the request's place.
LEMMA ReadKeeps ==
  ASSUME DmaInv, NEW s \in Sides, NEW i, ReadCompletes(s, i) PROVE DmaInv'
<1> DEFINE x == rd[s]
           q == x.pending[i]
           data == [k \in 1..q.size |-> mem[q.addr + k - 1]]
           V == Source(job, mem)
<1>1. /\ i \in 1..Len(x.pending)
      /\ rd' = [rd EXCEPT ![s] = ReadDone(x, i, data)]
      /\ UNCHANGED <<registers, lastFlag, transfer, wr, tickScheduled, intLine, mem>>
  BY DEF ReadCompletes
<1>2. /\ flags \in SUBSET Bits /\ running \in BOOLEAN /\ writesLeft \in Nat /\ job \in Job
      /\ readFifo \in Sides \cup {None} /\ writeFifo \in Sides \cup {None}
      /\ rd \in [Sides -> FifoOf(Nat)] /\ wr \in [Sides -> FifoOf(Nat)]
      /\ intLine \in BOOLEAN /\ mem \in Memory
      /\ \A u \in Sides : u # readFifo \/ ~running => Drained(rd[u])
      /\ \A u \in Sides : u # writeFifo \/ ~running => Drained(wr[u])
  BY PartTypes
<1>3. running /\ s = readFifo
  <2>1. x.pending # <<>> BY <1>1
  <2> QED BY <1>2, <2>1 DEF Drained
<1>4. /\ readFifo \in Sides /\ writeFifo \in Sides
      /\ GoodRead(Nat, V, job.len, job.src, x)
      /\ GoodWrite(Nat, V, job.len, job.dst, wr[writeFifo])
      /\ ReadPos(x) - job.src = WritePos(wr[writeFifo]) - job.dst
      /\ writesLeft = job.len - (WritePos(wr[writeFifo]) - job.dst)
      /\ \A k \in 0..(job.len - 1) :
           \/ job.dst + k \in Unwritten(wr[writeFifo])
           \/ mem[job.dst + k] = mem[job.src + k]
  BY <1>3, WhileRunning
<1>5. /\ IsBlock(Nat, V, job.len)
      /\ \A k \in 0..(job.len - 1) : V[k] = mem[job.src + k]
  BY <1>2, SourceBlock
<1>6. /\ job.src \in Nat /\ job.len \in Nat
      /\ \A k \in 0..(job.len - 1) : job.src + k \in 0..(MemSize - 1)
  BY <1>2, JobInMemory
<1> HIDE DEF x, V
<1>7. /\ x \in FifoOf(Nat) /\ Shape(x) /\ x.endAddr = job.src + job.len
      /\ job.src <= ReadPos(x)
  BY <1>4 DEF GoodRead
<1>8. /\ q.addr \in Nat /\ q.size \in Nat /\ q.addr + q.size <= x.nextAddr
      /\ x.nextAddr <= x.endAddr /\ x.nextAddr \in Nat
      /\ ReadPos(x) <= q.addr /\ ReadPos(x) \in Int
  BY <1>1, <1>7, ReadNumbers
<1> HIDE DEF q
<1>9. ASSUME NEW k \in 1..q.size
      PROVE  mem[q.addr + k - 1] = V[q.addr - job.src + k - 1] /\ mem[q.addr + k - 1] \in Nat
  <2>1. PICK b \in Nat, m \in Nat, a \in Nat, z \in Nat :
          b = job.src /\ m = job.len /\ a = q.addr /\ z = q.size
    BY <1>6, <1>8
  <2>2. b <= a /\ a + z <= b + m
    <3>1. PICK p \in Int, y \in Nat : p = ReadPos(x) /\ y = x.nextAddr BY <1>8
    <3>2. b <= p /\ p <= a /\ a + z <= y /\ y <= b + m BY <1>7, <1>8, <2>1, <3>1
    <3> QED BY <3>2
  <2> DEFINE o == a - b + k - 1
  <2>3. k \in 1..z BY <2>1
  <2>4. o \in 0..(m - 1) /\ b + o = a + k - 1 BY <2>2, <2>3
  <2> HIDE DEF o
  <2>5. V[o] = mem[b + o] /\ b + o \in 0..(MemSize - 1) BY <1>5, <1>6, <2>1, <2>4
  <2>6. mem[b + o] \in Nat BY <1>2, <2>5 DEF Memory
  <2> QED BY <2>1, <2>4, <2>5, <2>6 DEF o
<1>10. data \in Seq(Nat) /\ Len(data) = q.size
       /\ \A k \in 1..q.size : data[k] = V[q.addr - job.src + k - 1]
  BY <1>8, <1>9
<1>11. /\ GoodRead(Nat, V, job.len, job.src, ReadDone(x, i, data))
       /\ ReadPos(ReadDone(x, i, data)) = ReadPos(x)
  <2> HIDE DEF data
  <2>1. PICK b \in Nat, m \in Nat, d \in Seq(Nat) : b = job.src /\ m = job.len /\ d = data
    BY <1>6, <1>10
  <2>2. /\ IsBlock(Nat, V, m) /\ GoodRead(Nat, V, m, b, x)
        /\ Answers(d, x.pending[i], V, b)
    BY <1>4, <1>5, <1>10, <2>1 DEF q, Answers
  <2>3. /\ GoodRead(Nat, V, m, b, ReadDone(x, i, d))
        /\ ReadPos(ReadDone(x, i, d)) = ReadPos(x)
    BY <1>1, <2>2, ReadAnswer
  <2> QED BY <2>1, <2>3
<1> HIDE DEF data
<1>12. rd'[s] = ReadDone(x, i, data) /\ \A u \in Sides : u # s => rd'[u] = rd[u]
  BY <1>1, <1>2
<1>13. rd' \in [Sides -> FifoOf(Nat)]
  <2>1. ReadDone(x, i, data) \in FifoOf(Nat) BY <1>11 DEF GoodRead
  <2> QED BY <1>1, <1>2, <2>1
<1> DEFINE f == Engine'
<1>14. /\ f.flags = flags /\ f.running = running /\ f.left = writesLeft
       /\ f.job = job /\ f.rf = readFifo /\ f.wf = writeFifo
       /\ f.rd = rd' /\ f.wr = wr /\ f.int = intLine
       /\ f = [flags |-> flags, running |-> running, left |-> writesLeft, job |-> job,
               rf |-> readFifo, wf |-> writeFifo, rd |-> rd', wr |-> wr, int |-> intLine]
  BY <1>1 DEF Engine, registers, transfer
<1> HIDE DEF f
<1>15. f \in EngineType BY <1>2, <1>13, <1>14 DEF EngineType
<1>16. OthersDrained(f) BY <1>2, <1>3, <1>12, <1>14 DEF OthersDrained
<1>17. InStep(f, mem) BY <1>3, <1>4, <1>11, <1>12, <1>14 DEF InStep, V
<1>18. Landed(f, mem) BY <1>4, <1>14 DEF Landed
<1>19. EngineOK(Engine, mem)'
  <2>1. EngineOK(f, mem) BY <1>15, <1>16, <1>17, <1>18 DEF EngineOK
  <2>2. mem' = mem BY <1>1
  <2> QED BY <2>1, <2>2 DEF f
<1>20. (mem \in Memory)' BY <1>1, <1>2 DEF Memory
<1>21. RegistersOK' /\ LineOK'
  BY <1>1 DEF DmaInv, RegistersOK, LineOK, registers
<1> QED BY <1>19, <1>20, <1>21 DEF DmaInv

\* A write that is done belongs to the transfer that runs: the memory changes in
\* the destination alone, to the bytes of the source.
LEMMA WriteLands ==
  ASSUME DmaInv, NEW s \in Sides, NEW i, WriteCompletes(s, i)
  PROVE  /\ running /\ s = writeFifo /\ i \in 1..Len(wr[s].pending)
         /\ mem' \in Memory
         /\ mem' = [a \in 0..(MemSize - 1) |->
                      IF a - job.dst \in Place(job, wr[s].pending[i])
                        THEN mem[a - job.dst + job.src] ELSE mem[a]]
         /\ \A k \in 0..(job.len - 1) : mem'[job.src + k] = mem[job.src + k]
<1> DEFINE q == wr[s].pending[i]
<1>1. i \in 1..Len(wr[s].pending) /\ mem' = Overwritten(mem, q)
  BY DEF WriteCompletes, Overwritten
<1>2. /\ job \in Job /\ mem \in Memory
      /\ \A u \in Sides : u # writeFifo \/ ~running => Drained(wr[u])
  BY PartTypes
<1>3. running /\ s = writeFifo
  <2>1. wr[s].pending # <<>> BY <1>1
  <2> QED BY <1>2, <2>1 DEF Drained
<1>4. GoodWrite(Nat, Source(job, mem), job.len, job.dst, wr[s]) BY <1>3, WhileRunning
<1>5. PICK L : L = mem' OBVIOUS
<1> HIDE DEF q
<1>6. Fills(job, mem, q, L)
  <2>1. q = wr[s].pending[i] BY DEF q
  <2> QED BY <1>1, <1>2, <1>4, <1>5, <2>1, WriteEffect
<1> QED BY <1>1, <1>3, <1>5, <1>6 DEF q, Fills

\* A write that is done puts its bytes into their place.
LEMMA WriteKeeps ==
  ASSUME DmaInv, NEW s \in Sides, NEW i, WriteCompletes(s, i) PROVE DmaInv'
<1> DEFINE y == wr[s]
           q == y.pending[i]
           V == Source(job, mem)
           z == WriteDone(y, i)
<1>1. /\ wr' = [wr EXCEPT ![s] = z]
      /\ UNCHANGED <<registers, lastFlag, transfer, rd, tickScheduled, intLine>>
  BY DEF WriteCompletes
<1>2. /\ flags \in SUBSET Bits /\ running \in BOOLEAN /\ writesLeft \in Nat /\ job \in Job
      /\ readFifo \in Sides \cup {None} /\ writeFifo \in Sides \cup {None}
      /\ rd \in [Sides -> FifoOf(Nat)] /\ wr \in [Sides -> FifoOf(Nat)]
      /\ intLine \in BOOLEAN /\ mem \in Memory
      /\ \A u \in Sides : u # readFifo \/ ~running => Drained(rd[u])
      /\ \A u \in Sides : u # writeFifo \/ ~running => Drained(wr[u])
  BY PartTypes
<1>3. /\ running /\ s = writeFifo /\ i \in 1..Len(y.pending) /\ mem' \in Memory
      /\ mem' = [a \in 0..(MemSize - 1) |->
                   IF a - job.dst \in Place(job, q)
                     THEN mem[a - job.dst + job.src] ELSE mem[a]]
      /\ \A k \in 0..(job.len - 1) : mem'[job.src + k] = mem[job.src + k]
  BY WriteLands
<1>4. /\ readFifo \in Sides /\ writeFifo \in Sides
      /\ GoodRead(Nat, V, job.len, job.src, rd[readFifo])
      /\ GoodWrite(Nat, V, job.len, job.dst, y)
      /\ ReadPos(rd[readFifo]) - job.src = WritePos(y) - job.dst
      /\ writesLeft = job.len - (WritePos(y) - job.dst)
      /\ \A k \in 0..(job.len - 1) :
           job.dst + k \in Unwritten(y) \/ mem[job.dst + k] = mem[job.src + k]
  BY <1>3, WhileRunning
<1>5. /\ job.src \in Nat /\ job.dst \in Nat /\ job.len \in Nat
      /\ \A k \in 0..(job.len - 1) : job.dst + k \in 0..(MemSize - 1)
  BY <1>2, JobInMemory
<1> HIDE DEF y, q, V, z
<1>6. /\ GoodWrite(Nat, V, job.len, job.dst, z) /\ WritePos(z) = WritePos(y)
      /\ \A a \in Unwritten(y) :
           a \in Unwritten(z) \/ (q.addr <= a /\ a < q.addr + q.size)
  <2>1. PICK b \in Nat, m \in Nat : b = job.dst /\ m = job.len BY <1>5
  <2>2. Emptying(Nat, V, b, y) /\ y.endAddr = b + m /\ WritePos(y) <= y.endAddr
    BY <1>4, <2>1 DEF GoodWrite
  <2>3. /\ GoodWrite(Nat, V, m, b, WriteDone(y, i)) /\ WritePos(WriteDone(y, i)) = WritePos(y)
        /\ \A a \in Unwritten(y) :
             \/ a \in Unwritten(WriteDone(y, i))
             \/ y.pending[i].addr <= a /\ a < y.pending[i].addr + y.pending[i].size
    <3>1. i \in 1..Len(y.pending) BY <1>3
    <3>2. Writes(Nat, V, b, y, i)
      <4>1. b \in Int OBVIOUS
      <4> QED BY <2>2, <3>1, <4>1, WriteAnswer
    <3> QED BY <2>2, <3>2 DEF Writes, GoodWrite, Advances
  <2> QED BY <2>1, <2>3 DEF z, q
<1>7. wr'[s] = z /\ \A u \in Sides : u # s => wr'[u] = wr[u] BY <1>1, <1>2
<1>8. wr' \in [Sides -> FifoOf(Nat)]
  <2>1. z \in FifoOf(Nat) BY <1>6 DEF GoodWrite, Emptying
  <2> QED BY <1>1, <1>2, <2>1
<1>9. Source(job, mem') = V BY <1>3 DEF Source, V
<1>10. ASSUME NEW k \in 0..(job.len - 1)
       PROVE  job.dst + k \in Unwritten(z) \/ mem'[job.dst + k] = mem'[job.src + k]
  <2>1. /\ job.dst + k \in 0..(MemSize - 1) /\ (job.dst + k) - job.dst = k
        /\ k + job.src = job.src + k
    BY <1>5
  <2>2. mem'[job.dst + k] = IF k \in Place(job, q) THEN mem[job.src + k] ELSE mem[job.dst + k]
    BY <1>3, <2>1
  <2>3. mem'[job.src + k] = mem[job.src + k] BY <1>3
  <2>4. CASE k \in Place(job, q) BY <2>2, <2>3, <2>4
  <2>5. CASE k \notin Place(job, q) /\ job.dst + k \in Unwritten(y)
    <3>1. ~(q.addr <= job.dst + k /\ job.dst + k < q.addr + q.size) BY <2>5 DEF Place
    <3> QED BY <1>6, <2>5, <3>1
  <2>6. CASE k \notin Place(job, q) /\ job.dst + k \notin Unwritten(y)
    BY <1>4, <2>2, <2>3, <2>6
  <2> QED BY <2>4, <2>5, <2>6
<1> DEFINE f == Engine'
           M == mem'
<1>11. /\ f.flags = flags /\ f.running = running /\ f.left = writesLeft
       /\ f.job = job /\ f.rf = readFifo /\ f.wf = writeFifo
       /\ f.rd = rd /\ f.wr = wr' /\ f.int = intLine
       /\ f = [flags |-> flags, running |-> running, left |-> writesLeft, job |-> job,
               rf |-> readFifo, wf |-> writeFifo, rd |-> rd, wr |-> wr', int |-> intLine]
  BY <1>1 DEF Engine, registers, transfer
<1> HIDE DEF f
<1>12. f \in EngineType BY <1>2, <1>8, <1>11 DEF EngineType
<1>13. OthersDrained(f) BY <1>2, <1>3, <1>7, <1>11 DEF OthersDrained
<1>14. InStep(f, M) BY <1>3, <1>4, <1>6, <1>7, <1>9, <1>11 DEF InStep
<1>15. Landed(f, M) BY <1>3, <1>7, <1>10, <1>11 DEF Landed
<1>16. EngineOK(Engine, mem)'
  <2>1. EngineOK(f, M) BY <1>12, <1>13, <1>14, <1>15 DEF EngineOK
  <2> QED BY <2>1 DEF f
<1>17. (mem \in Memory)' BY <1>3 DEF Memory
<1>18. RegistersOK' /\ LineOK'
  BY <1>1 DEF DmaInv, RegistersOK, LineOK, registers
<1> QED BY <1>16, <1>17, <1>18 DEF DmaInv

(***************************************************************************)
(* The invariant is inductive                                              *)
(***************************************************************************)

\* The invariant holds in every initial state.
LEMMA InitOK == Init => DmaInv
<1> SUFFICES ASSUME Init PROVE DmaInv OBVIOUS
<1>1. /\ flags = {} /\ running = FALSE /\ writesLeft = 0
      /\ job = [src |-> 0, dst |-> 0, len |-> 0]
      /\ readFifo = None /\ writeFifo = None /\ intLine = FALSE
      /\ rd = [s \in Sides |-> EmptyFifo] /\ wr = [s \in Sides |-> EmptyFifo]
      /\ mem = [a \in 0..(MemSize - 1) |-> a]
  BY DEF Init
<1>2. EmptyFifo \in FifoOf(Nat) /\ Drained(EmptyFifo)
  BY DEF EmptyFifo, FifoOf, Drained, AtEndOfBlock
<1>3. job \in Job BY <1>1 DEF Job
<1>4. Engine \in EngineType BY <1>1, <1>2, <1>3 DEF EngineType, Engine
<1>5. OthersDrained(Engine) BY <1>1, <1>2, EngineParts DEF OthersDrained
<1>6. EngineOK(Engine, mem) BY <1>1, <1>4, <1>5, EngineParts DEF EngineOK
<1>7. mem \in Memory
  <2>1. MemSize \in Nat BY DmaAssumption
  <2> QED BY <1>1, <2>1 DEF Memory
<1>8. RegistersOK BY DEF Init, RegistersOK
<1>9. LineOK BY DEF Init, LineOK, Bits
<1> QED BY <1>6, <1>7, <1>8, <1>9 DEF DmaInv

\* Every step keeps the invariant.
LEMMA StepOK == DmaInv /\ [Next]_vars => DmaInv'
<1> SUFFICES ASSUME DmaInv, [Next]_vars PROVE DmaInv' OBVIOUS
<1>1. CASE HostWrite BY <1>1, HostKeeps
<1>2. CASE Tick BY <1>2, TickKeeps
<1>3. ASSUME NEW s \in Sides, NEW i \in 1..MaxPending, ReadCompletes(s, i) PROVE DmaInv'
  BY <1>3, ReadKeeps
<1>4. ASSUME NEW s \in Sides, NEW i \in 1..MaxPending, WriteCompletes(s, i) PROVE DmaInv'
  BY <1>4, WriteKeeps
<1>5. CASE UNCHANGED vars
  <2>1. /\ Engine' = Engine /\ mem' = mem /\ UNCHANGED registers
        /\ lastFlag' = lastFlag /\ tickScheduled' = tickScheduled /\ intLine' = intLine
    BY <1>5 DEF vars, registers, transfer, Engine
  <2>2. EngineOK(Engine, mem)' BY <2>1 DEF DmaInv
  <2>3. (mem \in Memory)' BY <2>1 DEF DmaInv, Memory
  <2>4. RegistersOK' /\ LineOK' BY <2>1 DEF DmaInv, RegistersOK, LineOK, registers
  <2> QED BY <2>2, <2>3, <2>4 DEF DmaInv
<1> QED BY <1>1, <1>2, <1>3, <1>4, <1>5 DEF Next, Completion

\* The invariant holds in every reachable state.
LEMMA Reached == Spec => []DmaInv
<1>1. DmaInv /\ [Next]_vars => DmaInv' BY StepOK
<1> QED BY <1>1, InitOK, PTL DEF Spec

(***************************************************************************)
(* What the engine promises                                                *)
(***************************************************************************)

\* Every variable has the shape that the class declares.
THEOREM TypeCorrect == Spec => []TypeOK
<1>1. DmaInv => TypeOK
  <2> SUFFICES ASSUME DmaInv PROVE TypeOK OBVIOUS
  <2>1. /\ flags \in SUBSET Bits /\ running \in BOOLEAN /\ writesLeft \in Nat /\ job \in Job
        /\ readFifo \in Sides \cup {None} /\ writeFifo \in Sides \cup {None}
        /\ rd \in [Sides -> FifoOf(Nat)] /\ wr \in [Sides -> FifoOf(Nat)]
        /\ intLine \in BOOLEAN /\ mem \in Memory
    BY PartTypes
  <2>2. lastFlag \subseteq Bits /\ tickScheduled \in BOOLEAN BY DEF DmaInv, LineOK
  <2>3. SRC \in Nat /\ DST \in Nat /\ LEN \in Nat
    <3> DEFINE j == [src |-> SRC, dst |-> DST, len |-> LEN]
    <3>1. j \in Job /\ j.src = SRC /\ j.dst = DST /\ j.len = LEN
      BY DEF DmaInv, RegistersOK, Job
    <3> HIDE DEF j
    <3> QED BY <3>1, JobInMemory
  <2>4. job \in [src : Nat, dst : Nat, len : Nat]
    <3>1. job.src \in Nat /\ job.dst \in Nat /\ job.len \in Nat BY <2>1, JobInMemory
    <3> QED BY <2>1, <3>1 DEF Job
  <2>5. rd \in [Sides -> Fifo] /\ wr \in [Sides -> Fifo]
    BY <2>1 DEF FifoOf, RequestOf, Fifo, Request
  <2> QED BY <2>1, <2>2, <2>3, <2>4, <2>5 DEF TypeOK, Memory
<1> QED BY <1>1, Reached, PTL

\* Between transfers every FIFO is empty: startFill() and startEmpty() never
\* meet a block that has not ended.
THEOREM IdleIsDrained == Spec => []IdleMeansDrained
<1>1. DmaInv => IdleMeansDrained
  <2> SUFFICES ASSUME DmaInv, ~running
               PROVE \A f \in Fifos : f.buffer = <<>> /\ f.pending = <<>> /\ AtEndOfBlock(f)
    BY DEF IdleMeansDrained
  <2>1. \A s \in Sides : Drained(rd[s]) /\ Drained(wr[s]) BY PartTypes
  <2> QED BY <2>1 DEF Fifos, Drained
<1> QED BY <1>1, Reached, PTL

\* No buffer overruns and every read under way has room for its answer.
THEOREM BuffersBounded == Spec => []NoOverrun
<1>1. DmaInv => NoOverrun
  <2> SUFFICES ASSUME DmaInv, NEW s \in Sides
               PROVE /\ Len(rd[s].buffer) + SizePending(rd[s]) <= FifoSize
                     /\ Len(wr[s].buffer) <= FifoSize
    BY DEF NoOverrun
  <2>1. FifoSize \in Nat BY FifoAssumption
  <2>2. ASSUME NEW f, Drained(f)
        PROVE  Len(f.buffer) + SizePending(f) <= FifoSize /\ Len(f.buffer) <= FifoSize
    <3>1. Len(f.buffer) = 0 /\ SizePending(f) = 0 BY <2>2 DEF Drained, SizePending
    <3> QED BY <2>1, <3>1
  <2>3. /\ \A u \in Sides : u # readFifo \/ ~running => Drained(rd[u])
        /\ \A u \in Sides : u # writeFifo \/ ~running => Drained(wr[u])
    BY PartTypes
  <2>4. running /\ s = readFifo => Len(rd[s].buffer) + SizePending(rd[s]) <= FifoSize
    BY WhileRunning DEF GoodRead
  <2>5. running /\ s = writeFifo => Len(wr[s].buffer) <= FifoSize
    BY WhileRunning DEF GoodWrite, Emptying
  <2> QED BY <2>2, <2>3, <2>4, <2>5
<1> QED BY <1>1, Reached, PTL

\* The interrupt line follows the done bit.
THEOREM InterruptFollowsDone == Spec => []InterruptTracksDone
<1>1. DmaInv => InterruptTracksDone BY DEF DmaInv, LineOK, InterruptTracksDone
<1> QED BY <1>1, Reached, PTL

\* While a transfer runs, the write FIFO and the read FIFO together hold the
\* next bytes of the source, in order and without a gap.
THEOREM PipelineOrdered == Spec => []PipelineInOrder
<1>1. DmaInv => PipelineInOrder
  <2> SUFFICES ASSUME DmaInv, running PROVE PipelineInOrder BY DEF PipelineInOrder
  <2> DEFINE r == rd[readFifo]
             w == wr[writeFifo]
             V == Source(job, mem)
  <2>1. /\ GoodRead(Nat, V, job.len, job.src, r) /\ GoodWrite(Nat, V, job.len, job.dst, w)
        /\ ReadPos(r) - job.src = WritePos(w) - job.dst
        /\ writesLeft = job.len - (WritePos(w) - job.dst)
    BY WhileRunning
  <2>2. job \in Job /\ mem \in Memory BY PartTypes
  <2>3. job.src \in Nat /\ job.dst \in Nat /\ job.len \in Nat BY <2>2, JobInMemory
  <2>4. \A k \in 0..(job.len - 1) : V[k] = mem[job.src + k] BY <2>2, SourceBlock
  <2> HIDE DEF r, w, V
  <2>5. /\ w \in FifoOf(Nat) /\ Shape(w) /\ r \in FifoOf(Nat) /\ Shape(r)
        /\ w.endAddr = job.dst + job.len /\ job.dst <= w.nextAddr /\ WritePos(w) <= w.endAddr
        /\ r.endAddr = job.src + job.len /\ job.src <= ReadPos(r)
        /\ \A k \in 1..Len(w.buffer) : w.buffer[k] = V[w.nextAddr - job.dst + k - 1]
        /\ \A k \in 1..Len(r.buffer) : r.buffer[k] = V[ReadPos(r) - job.src + k - 1]
    BY <2>1 DEF GoodRead, GoodWrite, Emptying
  <2>6. /\ w.nextAddr \in Nat /\ w.buffer \in Seq(Nat) /\ Len(w.buffer) \in Nat
        /\ r.nextAddr \in Nat /\ r.buffer \in Seq(Nat) /\ Len(r.buffer) \in Nat
        /\ SizePending(r) \in Nat /\ ReadPos(r) \in Int
        /\ ReadPos(r) + Len(r.buffer) + SizePending(r) = r.nextAddr
        /\ r.nextAddr <= r.endAddr
    BY <2>5, ReadNumbers
  <2>7. PICK s \in Nat, d \in Nat, n \in Nat, wn \in Nat, lw \in Nat, rn \in Nat, lr \in Nat,
             sp \in Nat, rp \in Int :
          /\ s = job.src /\ d = job.dst /\ n = job.len
          /\ wn = w.nextAddr /\ lw = Len(w.buffer)
          /\ rn = r.nextAddr /\ lr = Len(r.buffer) /\ sp = SizePending(r) /\ rp = ReadPos(r)
    BY <2>3, <2>6
  <2>8. /\ rp - s = (wn + lw) - d /\ writesLeft = n - ((wn + lw) - d)
        /\ d <= wn /\ wn + lw <= d + n /\ s <= rp /\ rp + lr + sp = rn /\ rn <= s + n
    BY <2>1, <2>5, <2>6, <2>7 DEF WritePos
  <2>9. /\ r.nextAddr - SizePending(r) = job.src + (w.nextAddr - job.dst) + (lw + lr)
        /\ writesLeft = job.len - (w.nextAddr - job.dst) - Len(w.buffer)
    <3>1. rn - sp = s + (wn - d) + (lw + lr) BY <2>8
    <3>2. n - ((wn + lw) - d) = n - (wn - d) - lw BY <2>8
    <3> QED BY <2>7, <2>8, <3>1, <3>2
  <2> DEFINE bytes == w.buffer \o r.buffer
  <2>10. /\ Len(bytes) = lw + lr
         /\ \A i \in 1..(lw + lr) :
              bytes[i] = IF i <= lw THEN w.buffer[i] ELSE r.buffer[i - lw]
    <3>1. PICK x \in Seq(Nat), y \in Seq(Nat) : x = w.buffer /\ y = r.buffer BY <2>6
    <3>2. /\ Len(x \o y) = Len(x) + Len(y)
          /\ \A i \in 1..(Len(x) + Len(y)) :
               (x \o y)[i] = IF i <= Len(x) THEN x[i] ELSE y[i - Len(x)]
      BY ConcatProperties
    <3>3. lw = Len(x) /\ lr = Len(y) /\ bytes = x \o y BY <2>7, <3>1
    <3> QED BY <3>1, <3>2, <3>3
  <2> HIDE DEF bytes
  <2>11. ASSUME NEW i \in 1..(lw + lr)
         PROVE  bytes[i] = mem[job.src + (w.nextAddr - job.dst) + i - 1]
    <3> DEFINE o == (wn - d) + i - 1
    <3>1. o \in 0..(n - 1) /\ s + o = s + (wn - d) + i - 1 BY <2>8
    <3>2. bytes[i] = V[o]
      <4>1. CASE i <= lw
        <5>1. i \in 1..lw /\ wn - d + i - 1 = o BY <4>1
        <5>2. w.buffer[i] = V[wn - d + i - 1] BY <2>5, <2>7, <5>1
        <5> QED BY <2>10, <4>1, <5>1, <5>2
      <4>2. CASE ~(i <= lw)
        <5>1. i - lw \in 1..lr /\ rp - s + (i - lw) - 1 = o BY <2>8, <4>2
        <5>2. r.buffer[i - lw] = V[rp - s + (i - lw) - 1] BY <2>5, <2>7, <5>1
        <5> QED BY <2>10, <4>2, <5>1, <5>2
      <4> QED BY <4>1, <4>2
    <3> HIDE DEF o
    <3>3. V[o] = mem[s + o] BY <2>4, <2>7, <3>1
    <3> QED BY <2>7, <3>1, <3>2, <3>3
  <2> QED BY <2>9, <2>10, <2>11 DEF PipelineInOrder, r, w, bytes
<1> QED BY <1>1, Reached, PTL

\* The done bit is set only when the whole block has reached the destination,
\* whatever the host does meanwhile and in whatever order the memories answer.
THEOREM DoneIsHonest == Spec => DoneOnlyWhenCopied
<1> DEFINE A == ("done" \notin flags /\ "done" \in flags') => Copied'
<1>1. DmaInv /\ [Next]_vars => [A]_vars
  <2> SUFFICES ASSUME DmaInv, Next, "done" \notin flags, "done" \in flags' PROVE Copied'
    OBVIOUS
  <2>1. ~HostWrite BY DEF HostWrite, Write
  <2>2. ASSUME NEW s \in Sides, NEW i \in 1..MaxPending PROVE ~ReadCompletes(s, i)
    BY DEF ReadCompletes, registers
  <2>3. ASSUME NEW s \in Sides, NEW i \in 1..MaxPending PROVE ~WriteCompletes(s, i)
    BY DEF WriteCompletes, registers
  <2>4. Tick BY <2>1, <2>2, <2>3 DEF Next, Completion
  <2> DEFINE e1 == StartTransfer(Engine)
             e2 == ClearInterrupt(e1)
  <2> HIDE DEF e1, e2
  <2>5. /\ EngineOK(e2, mem) /\ mem' = mem /\ mem \in Memory /\ job' = e2.job
        /\ "done" \in e1.flags <=> "done" \in flags
        /\ e2.flags = e1.flags
        /\ ~Finishes(e2) => flags' = e2.flags
    BY <2>4, TickParts DEF e1, e2
  <2>6. Finishes(e2) BY <2>5
  <2>7. \A k \in 0..(e2.job.len - 1) : mem[e2.job.dst + k] = mem[e2.job.src + k]
    BY <2>5, <2>6, FinishCopied
  <2> QED BY <2>5, <2>7 DEF Copied
<1> HIDE DEF A
<1>2. Spec => [][A]_vars BY <1>1, Reached, PTL DEF Spec
<1> QED BY <1>2 DEF A, DoneOnlyWhenCopied

(***************************************************************************)
(* The engine is a block copy                                              *)
(***************************************************************************)

\* A tick starts a copy, ends one that is complete, does both for an empty
\* block, or leaves the copy as it is.
LEMMA TickCopies ==
  ASSUME DmaInv, Tick PROVE Copy!Next \/ UNCHANGED Copy!vars
<1> DEFINE e1 == StartTransfer(Engine)
           e2 == ClearInterrupt(e1)
<1>1. e1 = StartTransfer(Engine) OBVIOUS
<1> HIDE DEF e1, e2
<1>2. /\ EngineOK(e1, mem) /\ EngineOK(e2, mem) /\ EngineOK(Engine, mem)'
      /\ mem' = mem /\ mem \in Memory
      /\ e1.job = IF Starts(Engine) THEN [src |-> SRC, dst |-> DST, len |-> LEN] ELSE job
      /\ e1.running = (running \/ Starts(Engine))
      /\ e2.running = e1.running /\ e2.job = e1.job /\ e2.left = e1.left
      /\ job' = e2.job
      /\ ~Finishes(e2) => running' = e2.running
      /\ Finishes(e2) => ~running'
  BY TickParts DEF e1, e2
<1>3. running \in BOOLEAN /\ Engine \in EngineType
  BY PartTypes DEF DmaInv, EngineOK
<1>4. running' \in BOOLEAN BY <1>2 DEF EngineOK, EngineType, Engine
<1>5. Starts(Engine) => ~running BY EngineParts DEF Starts
<1>6. SRC \in Srcs \cup {0} /\ DST \in Dsts \cup {0} /\ LEN \in Lens \cup {0}
  BY DEF DmaInv, RegistersOK
<1>7. CASE ~Finishes(e2) /\ Starts(Engine)
  <2>1. running' = TRUE /\ job' = [src |-> SRC, dst |-> DST, len |-> LEN] BY <1>2, <1>7
  <2>2. Copy!Start BY <1>2, <1>5, <1>6, <1>7, <2>1 DEF Copy!Start
  <2> QED BY <2>2 DEF Copy!Next
<1>8. CASE ~Finishes(e2) /\ ~Starts(Engine)
  BY <1>2, <1>3, <1>8 DEF Copy!vars
<1>9. CASE Finishes(e2) /\ ~Starts(Engine)
  <2>1. \A k \in 0..(e2.job.len - 1) : mem[e2.job.dst + k] = mem[e2.job.src + k]
    BY <1>2, <1>9, FinishCopied
  <2>2. e2.job = job /\ job' = job BY <1>2, <1>9
  <2>3. running
    <3>1. e2.running BY <1>9 DEF Finishes
    <3> QED BY <1>2, <1>9, <3>1
  <2>4. running' = FALSE BY <1>2, <1>4, <1>9
  <2>5. Copy!Finish BY <1>2, <2>1, <2>2, <2>3, <2>4 DEF Copy!Finish, Copy!Offsets
  <2> QED BY <2>5 DEF Copy!Next
<1>10. CASE Finishes(e2) /\ Starts(Engine)
  <2>1. e1.left = LEN BY <1>1, <1>3, <1>10, StartFields
  <2>2. e1.left \in Nat BY <1>2 DEF EngineOK, EngineType
  <2>3. LEN = 0
    <3>1. e2.left <= 0 BY <1>10 DEF Finishes
    <3> QED BY <1>2, <2>1, <2>2, <3>1
  <2>4. job' = [src |-> SRC, dst |-> DST, len |-> 0] BY <1>2, <1>10, <2>3
  <2>5. running' = running BY <1>2, <1>3, <1>4, <1>5, <1>10
  <2>6. Copy!StartAndFinish
    BY <1>2, <1>5, <1>6, <1>10, <2>4, <2>5 DEF Copy!StartAndFinish
  <2> QED BY <2>6 DEF Copy!Next
<1> QED BY <1>7, <1>8, <1>9, <1>10

\* Prefetching, buffering and answers out of order are invisible: the engine
\* implements a plain block copy.
THEOREM Refinement == Spec => ImplementsCopy
<1>1. Init => Copy!Init BY DEF Init, Copy!Init
<1>2. DmaInv /\ [Next]_vars => [Copy!Next]_(Copy!vars)
  <2> SUFFICES ASSUME DmaInv, [Next]_vars PROVE Copy!Next \/ UNCHANGED Copy!vars
    OBVIOUS
  <2>1. CASE HostWrite BY <2>1 DEF HostWrite, Write, transfer, Copy!vars
  <2>2. CASE Tick BY <2>2, TickCopies
  <2>3. ASSUME NEW s \in Sides, NEW i \in 1..MaxPending, ReadCompletes(s, i)
        PROVE  UNCHANGED Copy!vars
    BY <2>3 DEF ReadCompletes, transfer, Copy!vars
  <2>4. ASSUME NEW s \in Sides, NEW i \in 1..MaxPending, WriteCompletes(s, i)
        PROVE  Copy!Next
    <3> DEFINE S == Place(job, wr[s].pending[i])
    <3>1. /\ running
          /\ mem' = [a \in 0..(MemSize - 1) |->
                       IF a - job.dst \in S THEN mem[a - job.dst + job.src] ELSE mem[a]]
      BY <2>4, WriteLands
    <3>2. S \in SUBSET Copy!Offsets BY DEF Place, Copy!Offsets
    <3>3. running' = running /\ job' = job BY <2>4 DEF WriteCompletes, transfer
    <3> HIDE DEF S
    <3>4. Copy!Land BY <3>1, <3>2, <3>3 DEF Copy!Land
    <3> QED BY <3>4 DEF Copy!Next
  <2>5. CASE UNCHANGED vars BY <2>5 DEF vars, transfer, Copy!vars
  <2> QED BY <2>1, <2>2, <2>3, <2>4, <2>5 DEF Next, Completion
<1> QED BY <1>1, <1>2, Reached, PTL DEF Spec, ImplementsCopy, Copy!Spec
=============================================================================
