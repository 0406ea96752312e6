--------------------------- MODULE StreamPipeline ---------------------------
(***************************************************************************)
(* A chain of streaming accelerators between the two FIFOs of a StreamDma, *)
(* as configs/SALAM/vector.py builds it: stage 1 reads from the engine's   *)
(* stream_out, stage i writes to the StreamBuffer that stage i + 1 reads   *)
(* from, and the last stage writes to the engine's stream_in.              *)
(*                                                                         *)
(* Channel 0 is the engine's read FIFO, channel Stages its write FIFO, and *)
(* the channels between are StreamBuffers.  A stage is a CommInterface     *)
(* with a stream port on either side; it forwards the bytes it reads.      *)
(*                                                                         *)
(* Environment: the memory, which answers the requests of the FIFOs in any *)
(* order, and the host, top() of benchmarks/vector/hw/source/head/top.c:   *)
(* it writes the addresses, starts both directions, polls the running bit  *)
(* of the write direction until it is clear, and may then start again.     *)
(* The answer to a write of the host takes longer than a cycle, so it      *)
(* polls when the tick that its write scheduled has run.                   *)
(***************************************************************************)
EXTENDS StreamDma, StreamBuffer, StreamPort

CONSTANTS
  Stages,            \* the number of accelerators
  InSize, OutSize,   \* the bytes that a stage reads and writes at a time
  Depth,             \* bound: the bytes a stage holds
  Base,              \* Base[d]: the address of the first start of direction d
  MaxStarts          \* bound: how often the host starts the engine

Total(d) == NumFrames[d] * FrameSize[d]

\* The host asks for a number of frames ("*StrDmaNumRdFrames = 1") and reads as
\* many bytes as it writes, in whole tokens, elsewhere.
ASSUME PipelineAssumption ==
  /\ Stages \in Nat \ {0} /\ MaxStarts \in Nat
  /\ InSize \in [1..Stages -> Nat \ {0}] /\ OutSize \in [1..Stages -> Nat \ {0}]
  /\ Depth \in Nat /\ Base \in [Dirs -> Nat] /\ \A d \in Dirs : NumFrames[d] # 0
  /\ Total("rd") = Total("wr") /\ Base["rd"] + MaxStarts * Total("rd") <= Base["wr"]
  /\ \A i \in 1..Stages : /\ Total("rd") % InSize[i] = 0 /\ Total("rd") % OutSize[i] = 0
                          /\ InSize[i] <= Depth /\ OutSize[i] <= Depth

VARIABLES
  dma,             \* the engine, see StreamDma
  tickScheduled,   \* its tickEvent
  buffer,          \* buffer[i]: the StreamBuffer that stage i writes to
  inPort, outPort, \* the ports of each stage
  held,            \* the bytes a stage has read and not written
  host, starts,    \* what the host does, and how often it has started
  mem              \* the memory; a byte is the address it was first at

chain == <<buffer, inPort, outPort, held>>
vars == <<dma, tickScheduled, chain, host, starts, mem>>

\* The address registers after the k-th start.
Register(k) == [d \in Dirs |-> Base[d] + (k - 1) * Total(d)]
Addresses ==
  UNION {Base[d]..(Base[d] + MaxStarts * Total(d) - 1) : d \in Dirs}

Init ==
  /\ dma = [d \in Dirs |-> IdleSide] /\ tickScheduled = FALSE
  /\ buffer = [i \in 1..(Stages - 1) |-> <<>>]
  /\ inPort = [i \in 1..Stages |-> FreePort]
  /\ outPort = [i \in 1..Stages |-> FreePort]
  /\ held = [i \in 1..Stages |-> <<>>]
  /\ host = "idle" /\ starts = 0
  /\ mem = [a \in Addresses |-> a]

----------------------------------------------------------------------------
(***************************************************************************)
(* The host and the engine                                                 *)
(***************************************************************************)

\* write(): *FLAGS = STR_DMA_INIT_RD | STR_DMA_INIT_WR, all other bits cleared.
HostStart ==
  /\ host = "idle" /\ starts < MaxStarts
  /\ host' = "written" /\ starts' = starts + 1
  /\ dma' = [d \in Dirs |-> [dma[d] EXCEPT !.flags = {"start"}]]
  /\ tickScheduled' = TRUE
  /\ UNCHANGED <<chain, mem>>

\* read(): while ((*FLAGS & WR_RUNNING_MASK) == WR_RUNNING_MASK).  A tick is
\* scheduled by a read, too.
HostPoll ==
  /\ host = "polling"
  /\ host' = IF "running" \in dma["wr"].flags THEN "polling" ELSE "idle"
  /\ tickScheduled' = TRUE
  /\ UNCHANGED <<dma, chain, starts, mem>>

Tick ==
  /\ tickScheduled
  /\ \E e \in {TickEngine(dma, Register(starts))} :
       dma' = e /\ tickScheduled' = TicksAgain(e)
  /\ host' = IF host = "written" THEN "polling" ELSE host
  /\ UNCHANGED <<chain, starts, mem>>

\* The memory answers the i-th request of a FIFO.
ReadCompletes(i) ==
  /\ i \in 1..Len(dma["rd"].fifo.pending)
  /\ LET q == dma["rd"].fifo.pending[i]
     IN  /\ ~q.done
         /\ dma' = [dma EXCEPT !["rd"].fifo =
                      ReadDone(@, i, [k \in 1..q.size |-> mem[q.addr + k - 1]])]
  /\ UNCHANGED <<tickScheduled, chain, host, starts, mem>>

WriteCompletes(i) ==
  /\ i \in 1..Len(dma["wr"].fifo.pending)
  /\ LET q == dma["wr"].fifo.pending[i]
     IN  /\ ~q.done
         /\ mem' = [a \in Addresses |->
                      IF a \in q.addr..(q.addr + q.size - 1)
                        THEN q.data[a - q.addr + 1] ELSE mem[a]]
         /\ dma' = [dma EXCEPT !["wr"].fifo = WriteDone(@, i)]
  /\ UNCHANGED <<tickScheduled, chain, host, starts>>

----------------------------------------------------------------------------
(***************************************************************************)
(* The stream ports                                                        *)
(***************************************************************************)

\* tvalid() of the device that stage i reads from, and of the one it writes to.
InValid(i) == IF i = 1 THEN ValidRead(dma, InSize[i])
                       ELSE CanReadStream(buffer[i - 1], InSize[i])
OutValid(i) == IF i = Stages THEN ValidWrite(dma, OutSize[i])
                             ELSE CanWriteStream(buffer[i], OutSize[i])

\* Port p takes the read packet of stage i: streamRead().
TakeRead(i, p) ==
  IF i = 1
    THEN /\ inPort' = [inPort EXCEPT ![i] = Taken(p, Got(dma["rd"].fifo, InSize[i]))]
         /\ dma' = StreamRead(dma, InSize[i])
         /\ UNCHANGED buffer
    ELSE /\ inPort' = [inPort EXCEPT ![i] =
                         Taken(p, ReadFromStream(buffer[i - 1], InSize[i]))]
         /\ buffer' = [buffer EXCEPT ![i - 1] = ReadStream(@, InSize[i])]
         /\ UNCHANGED dma

\* Port p takes the write packet of stage i: streamWrite().
TakeWrite(i, p, bytes) ==
  /\ outPort' = [outPort EXCEPT ![i] = Taken(p, <<>>)]
  /\ IF i = Stages
       THEN dma' = StreamWrite(dma, bytes) /\ UNCHANGED buffer
       ELSE buffer' = [buffer EXCEPT ![i] = WriteStream(@, bytes)] /\ UNCHANGED dma

\* processMemoryRequests() of stage i finds its stream port valid and free and
\* sends a packet (tryRead(), sendPacket()).
SendRead(i) ==
  /\ inPort[i].pkt = "none" /\ InValid(i)
  /\ Len(held[i]) + InSize[i] <= Depth
  /\ IF inPort[i].isBusy
       THEN /\ inPort' = [inPort EXCEPT ![i] = Refused(@, <<>>)]
            /\ UNCHANGED <<dma, buffer>>
       ELSE TakeRead(i, inPort[i])
  /\ UNCHANGED <<tickScheduled, outPort, held, host, starts, mem>>

SendWrite(i) ==
  /\ outPort[i].pkt = "none" /\ OutValid(i)
  /\ Len(held[i]) >= OutSize[i]
  /\ LET bytes == SubSeq(held[i], 1, OutSize[i])
     IN  IF outPort[i].isBusy
           THEN /\ outPort' = [outPort EXCEPT ![i] = Refused(@, bytes)]
                /\ UNCHANGED <<dma, buffer>>
           ELSE TakeWrite(i, outPort[i], bytes)
  /\ held' = [held EXCEPT ![i] = SubSeq(@, OutSize[i] + 1, Len(@))]
  /\ UNCHANGED <<tickScheduled, inPort, host, starts, mem>>

\* release() of a port: if it has promised to, it calls the master back, which
\* sends its packet again at once (recvReqRetry()).  A packet refused because
\* tvalid() is false by then is not called for again.
ReleaseIn(i) ==
  /\ inPort[i].isBusy
  /\ IF inPort[i].retryReq /\ InValid(i)
       THEN TakeRead(i, Released(inPort[i]))
       ELSE /\ inPort' = [inPort EXCEPT ![i] = Released(@)]
            /\ UNCHANGED <<dma, buffer>>
  /\ UNCHANGED <<tickScheduled, outPort, held, host, starts, mem>>

ReleaseOut(i) ==
  /\ outPort[i].isBusy
  /\ IF outPort[i].retryReq /\ OutValid(i)
       THEN TakeWrite(i, Released(outPort[i]), outPort[i].data)
       ELSE /\ outPort' = [outPort EXCEPT ![i] = Released(@)]
            /\ UNCHANGED <<dma, buffer>>
  /\ UNCHANGED <<tickScheduled, inPort, held, host, starts, mem>>

\* The answers reach the stage (recvTimingResp()).
AnswerRead(i) ==
  /\ inPort[i].pkt = "taken"
  /\ held' = [held EXCEPT ![i] = @ \o inPort[i].data]
  /\ inPort' = [inPort EXCEPT ![i] = Answered(@)]
  /\ UNCHANGED <<dma, tickScheduled, buffer, outPort, host, starts, mem>>

AnswerWrite(i) ==
  /\ outPort[i].pkt = "taken"
  /\ outPort' = [outPort EXCEPT ![i] = Answered(@)]
  /\ UNCHANGED <<dma, tickScheduled, buffer, inPort, held, host, starts, mem>>

MemoryAnswers == \E i \in 1..MaxPending : ReadCompletes(i) \/ WriteCompletes(i)

PortsAndStages ==
  \E i \in 1..Stages :
    \/ SendRead(i) \/ ReleaseIn(i) \/ AnswerRead(i)
    \/ SendWrite(i) \/ ReleaseOut(i) \/ AnswerWrite(i)

Next == HostStart \/ HostPoll \/ Tick \/ MemoryAnswers \/ PortsAndStages

Spec == Init /\ [][Next]_vars

\* Scheduled ticks run, the memory answers, the ports and the interfaces of the
\* stages, which check their ports in every cycle while a request waits, do not
\* stop while one of them can go on, and the host polls.
Fairness ==
  WF_vars(Tick) /\ WF_vars(MemoryAnswers) /\ WF_vars(PortsAndStages) /\ WF_vars(HostPoll)

FairSpec == Spec /\ Fairness

----------------------------------------------------------------------------
(***************************************************************************)
(* Properties                                                              *)
(***************************************************************************)

\* Where the j-th byte (from 0) of everything the host has asked for comes from or
\* goes to: each start has addresses of its own, of which the frames use the first
\* FrameBuffSize[d] frames again and again.
Place(d, j) ==
  Base[d] + (j \div Total(d)) * Total(d) + ((j % Total(d)) % (FrameBuffSize[d] * FrameSize[d]))

\* The bytes for which direction d has issued requests since the first start.
Issued(d) ==
  IF dma[d].running
    THEN (starts - 1) * Total(d) + dma[d].frames * FrameSize[d]
         + FrameSize[d] - (dma[d].fifo.endAddr - dma[d].fifo.nextAddr)
    ELSE (IF "start" \in dma[d].flags THEN starts - 1 ELSE starts) * Total(d)

\* The bytes in and around stage i, the oldest first.
StageBytes(i) == outPort[i].data \o held[i] \o inPort[i].data
ChannelBytes(i) == IF i = Stages THEN dma["wr"].fifo.buffer ELSE buffer[i]

\* All bytes under way, the oldest first.
Stream ==
  LET upTo[i \in 0..Stages] ==
        IF i = 0 THEN dma["rd"].fifo.buffer ELSE ChannelBytes(i) \o StageBytes(i) \o upTo[i - 1]
  IN  upTo[Stages]

\* From the write FIFO back to the read FIFO the bytes under way are a piece of
\* the source without gap, repetition or change of order, whatever was refused,
\* retried or answered late; and no byte is lost at either end.
StreamIntact ==
  LET first == Issued("wr")
      read == Issued("rd") - SizePending(dma["rd"].fifo)
  IN  /\ Len(Stream) = read - first
      /\ \A j \in 1..Len(Stream) : Stream[j] = Place("rd", first + j - 1)

\* A packet that was refused will be called for, and will be taken then: its
\* port is busy, has promised a retry, and tvalid() still holds (the check of
\* recvTimingReq() that refuses a packet without a promise is never the reason).
RefusedIsRetried ==
  \A i \in 1..Stages :
    /\ inPort[i].pkt = "stalled" => inPort[i].isBusy /\ inPort[i].retryReq /\ InValid(i)
    /\ outPort[i].pkt = "stalled" => outPort[i].isBusy /\ outPort[i].retryReq /\ OutValid(i)

\* No FIFO or buffer holds more than its size: no fill() or writeStream() panics,
\* and the answers to the reads under way will fit.
NoOverrun ==
  /\ Len(dma["rd"].fifo.buffer) + SizePending(dma["rd"].fifo) <= FifoSize
  /\ Len(dma["wr"].fifo.buffer) <= FifoSize
  /\ \A i \in 1..(Stages - 1) : Len(buffer[i]) <= BufferSize

\* When the host has seen the running bit clear, both directions are at rest and
\* every byte is at its place in memory, unless a later one belongs there.
IdleMeansWritten ==
  host = "idle" =>
    /\ \A d \in Dirs : ~dma[d].running /\ "start" \notin dma[d].flags
    /\ \A j \in 0..(starts * Total("wr") - 1) :
         (\E i \in (j + 1)..(starts * Total("wr") - 1) : Place("wr", i) = Place("wr", j))
           \/ mem[Place("wr", j)] = Place("rd", j)

\* Every start comes to an end that the host sees.
HostProceeds == host = "written" ~> host = "idle"
=============================================================================
