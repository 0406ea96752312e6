------------------------ MODULE StreamPipelineProofs ------------------------
(***************************************************************************)
(* The bytes of a StreamDma and the accelerators behind it stay in order   *)
(* and reach their places, for every number of stages, frame, token, FIFO  *)
(* and buffer size.                                                        *)
(*                                                                         *)
(* Everything the host has ever asked for is one stream, numbered from 0.  *)
(* Each FIFO reads or writes a piece of it (GoodRead and Emptying of       *)
(* DmaFifosProofs), and the accelerators hold the bytes between.           *)
(***************************************************************************)
EXTENDS StreamPipeline, DmaFifosProofs

(***************************************************************************)
(* The invariant                                                           *)
(***************************************************************************)

\* The byte at each place of the stream.
Source == [o \in Nat |-> Place("rd", o)]

\* The sequence s is the piece of the stream that starts at o.
At(s, o) == s \in Seq(Nat) /\ \A j \in 1..Len(s) : s[j] = Source[o + j - 1]

SideType ==
  [flags : SUBSET Bits, running : BOOLEAN, addr : Nat, frames : Nat,
   fifo : FifoOf(Nat), int : BOOLEAN]

\* Where in the stream the frame of direction d in state e ends, after k starts,
\* and where its next request starts.
StreamEnd(e, d, k) ==
  IF e.running THEN (k - 1) * Total(d) + (e.frames + 1) * FrameSize[d]
  ELSE (IF "start" \in e.flags THEN k - 1 ELSE k) * Total(d)
StreamNext(e, d, k) == StreamEnd(e, d, k) - (e.fifo.endAddr - e.fifo.nextAddr)

\* The address at which the stream would have started to end at the end of the
\* frame.
Origin(e, d, k) == e.fifo.endAddr - StreamEnd(e, d, k)

\* A direction that runs is in a frame of its k-th start, and its requests are
\* in that frame; one that does not run has none.
SideOK(e, d, k) ==
  /\ e \in SideType
  /\ "running" \in e.flags <=> e.running
  /\ "start" \in e.flags => ~e.running /\ k >= 1
  /\ ~e.running => e.fifo.pending = <<>> /\ e.fifo.nextAddr = e.fifo.endAddr
  /\ e.running => /\ k >= 1 /\ e.addr = Register(k)[d] /\ e.frames < NumFrames[d]
                  /\ e.fifo.endAddr = FrameAddr(e.addr, e.frames, d) + FrameSize[d]
                  /\ FrameAddr(e.addr, e.frames, d) <= FirstUnderWay(e.fifo)

ReadSide(e, k) ==
  /\ SideOK(e, "rd", k)
  /\ GoodRead(Nat, Source, StreamEnd(e, "rd", k), Origin(e, "rd", k), e.fifo)
WriteSide(e, k) ==
  /\ SideOK(e, "wr", k)
  /\ Emptying(Nat, Source, Origin(e, "wr", k), e.fifo)

\* Where in the stream the byte is that the read FIFO gives next.
ReadNext(e, k) == ReadPos(e.fifo) - Origin(e, "rd", k)

\* What the channel c, the packet o to it, the stage h and the packet i to the
\* stage hold is the piece of the stream from lo to hi.
StageOK(c, o, h, i, lo, hi) ==
  /\ At(c, lo) /\ At(o, lo + Len(c)) /\ At(h, lo + Len(c) + Len(o))
  /\ At(i, lo + Len(c) + Len(o) + Len(h))
  /\ hi = lo + Len(c) + Len(o) + Len(h) + Len(i)

\* pos[i] is where in the stream channel i begins.
InPlace(pos) ==
  /\ pos[0] = ReadNext(dma["rd"], starts)
  /\ pos[Stages] = StreamNext(dma["wr"], "wr", starts)
  /\ \A i \in 1..Stages :
       StageOK(ChannelBytes(i), outPort[i].data, held[i], inPort[i].data, pos[i], pos[i - 1])

ChainOK == \E pos \in [0..Stages -> Nat] : InPlace(pos)

PortType ==
  [isBusy : BOOLEAN, retryReq : BOOLEAN, pkt : {"none", "stalled", "taken"},
   data : Seq(Nat)]

\* A port calls back exactly for the packet that it has refused.
PortOK(p) ==
  p \in PortType /\ (p.retryReq <=> p.pkt = "stalled") /\ (p.retryReq => p.isBusy)

InOK(i) ==
  /\ PortOK(inPort[i]) /\ (inPort[i].pkt # "taken" => inPort[i].data = <<>>)
  /\ inPort[i].pkt = "stalled" => InValid(i)
OutOK(i) ==
  /\ PortOK(outPort[i]) /\ (outPort[i].pkt # "stalled" => outPort[i].data = <<>>)
  /\ outPort[i].pkt = "stalled" => OutValid(i) /\ Len(outPort[i].data) = OutSize[i]

PortsOK ==
  /\ inPort \in [1..Stages -> PortType] /\ outPort \in [1..Stages -> PortType]
  /\ held \in [1..Stages -> Seq(Nat)] /\ buffer \in [1..(Stages - 1) -> Seq(Nat)]
  /\ \A i \in 1..Stages : InOK(i) /\ OutOK(i)
  /\ \A i \in 1..(Stages - 1) : Len(buffer[i]) <= BufferSize

\* The read direction never runs longer than the write direction.
HostOK ==
  /\ host \in {"idle", "written", "polling"} /\ starts \in 0..MaxStarts
  /\ \A d \in Dirs : "start" \in dma[d].flags <=> host = "written"
  /\ ~dma["wr"].running => ~dma["rd"].running
  /\ host = "idle" => ~dma["wr"].running

\* The addresses of direction d.
Region(d) == Base[d]..(Base[d] + MaxStarts * Total(d) - 1)

\* Byte j of those before s is at its place in memory M unless a later one belongs
\* there or its request in FIFO f is under way.
ByteLanded(j, s, f, M) ==
  \/ \E i \in (j + 1)..(s - 1) : Place("wr", i) = Place("wr", j)
  \/ M[Place("wr", j)] = Source[j]
  \/ Place("wr", j) \in Unwritten(f) /\ Place("wr", j) < f.nextAddr

\* So is every byte that was issued.
Landed(e, k, M) ==
  \A j \in 0..(StreamNext(e, "wr", k) - 1) :
    ByteLanded(j, StreamNext(e, "wr", k), e.fifo, M)

MemOK(M) == M \in [Addresses -> Nat] /\ \A a \in Region("rd") : M[a] = a

SidesOK == /\ dma \in [Dirs -> SideType]
           /\ ReadSide(dma["rd"], starts) /\ WriteSide(dma["wr"], starts)

IInv ==
  /\ SidesOK /\ HostOK /\ PortsOK /\ ChainOK
  /\ MemOK(mem) /\ Landed(dma["wr"], starts, mem)

(***************************************************************************)
(* Places                                                                  *)
(***************************************************************************)

\* Products of natural numbers.
LEMMA Times ==
  /\ \A a, b \in Nat : a * b \in Nat /\ (a + 1) * b = a * b + b
  /\ \A a, b, c \in Nat : a <= c => a * b <= c * b
  /\ \A a, b, c, d \in Nat : (a * b + c) * d = a * (b * d) + c * d
BY Z3

\* What quotient and remainder are.
LEMMA Division ==
  ASSUME NEW a \in Nat, NEW b \in Nat, b >= 1
  PROVE  /\ (a \div b) \in Nat /\ (a % b) \in Nat /\ (a % b) < b /\ (a % b) <= a
         /\ a = ((a \div b) * b) + (a % b)
<1>1. PICK x \in Int, y \in Nat : x = (a \div b) /\ y = (a % b) /\ y < b /\ a = x * b + y
  <2>1. (a \div b) \in Int /\ (a % b) \in Nat /\ (a % b) < b /\ a = ((a \div b) * b) + (a % b)
    BY Z3
  <2> QED BY <2>1
<1>2. x >= 0
  <2>1. x <= -1 => x * b <= 0 - b BY Z3
  <2>2. PICK p \in Int : p = x * b BY Z3
  <2> QED BY <1>1, <2>1, <2>2
<1>3. PICK p \in Nat : p = x * b
  <2>1. x \in Nat BY <1>2
  <2> QED BY <2>1, Times
<1>4. y <= a BY <1>1, <1>3
<1> QED BY <1>1, <1>2, <1>4

\* Quotient and remainder are determined by what they are.
LEMMA Divided ==
  ASSUME NEW a \in Nat, NEW b \in Nat, b >= 1, NEW q \in Nat, NEW r \in Nat,
         a = q * b + r, r < b
  PROVE  a \div b = q /\ a % b = r
<1>1. PICK x \in Int, y \in Nat : x = a \div b /\ y = a % b /\ y < b /\ a = x * b + y
  <2>1. (a \div b) \in Int /\ (a % b) \in Nat /\ a % b < b /\ a = ((a \div b) * b) + (a % b)
    BY Z3
  <2> QED BY <2>1
<1>2. x = q
  <2>1. (x - q) * b = r - y BY <1>1, Z3
  <2>2. x - q >= 1 => (x - q) * b >= b BY <1>1, Z3
  <2>3. q - x >= 1 => (x - q) * b <= 0 - b BY <1>1, Z3
  <2> DEFINE p == (x - q) * b
  <2>4. p \in Int /\ p = r - y /\ (x - q >= 1 => p >= b) /\ (q - x >= 1 => p <= 0 - b)
    BY <1>1, <2>1, <2>2, <2>3, Z3
  <2> HIDE DEF p
  <2> QED BY <1>1, <2>4
<1>3. y = r BY <1>1, <1>2, Z3
<1> QED BY <1>1, <1>2, <1>3

\* The sizes that the constants give direction d.
LEMMA Sizes ==
  ASSUME NEW d \in Dirs
  PROVE  /\ FrameSize[d] \in Nat /\ FrameSize[d] >= 1
         /\ NumFrames[d] \in Nat /\ NumFrames[d] >= 1
         /\ FrameBuffSize[d] \in Nat /\ FrameBuffSize[d] >= 1
         /\ Total(d) \in Nat /\ Total(d) >= 1 /\ Total(d) = Total("rd")
         /\ Base[d] \in Nat /\ MaxStarts \in Nat
<1>1. /\ FrameSize[d] \in Nat /\ FrameSize[d] >= 1 /\ NumFrames[d] \in Nat
      /\ FrameBuffSize[d] \in Nat /\ FrameBuffSize[d] >= 1
  BY FrameAssumption
<1>2. NumFrames[d] >= 1 BY <1>1, PipelineAssumption
<1>3. Total(d) \in Nat /\ Total(d) >= 1
  <2>1. PICK x \in Nat, y \in Nat : x = NumFrames[d] /\ y = FrameSize[d] BY <1>1
  <2>2. x * y \in Nat /\ x * y >= 1 BY <1>1, <1>2, <2>1, Z3
  <2> QED BY <2>1, <2>2 DEF Total
<1>4. Total(d) = Total("rd") BY PipelineAssumption DEF Dirs
<1>5. Base[d] \in Nat /\ MaxStarts \in Nat BY PipelineAssumption
<1> QED BY <1>1, <1>2, <1>3, <1>4, <1>5

\* Byte r of frame n of the k-th start of direction d.
FrameByte(d, k, n, r) == (k - 1) * Total(d) + n * FrameSize[d] + r

\* A byte of a frame is in its place: the division that Place makes of the place
\* in the stream is the one that tick() makes with its counters.
LEMMA PlaceOfByte ==
  ASSUME NEW d \in Dirs, NEW k \in 1..MaxStarts, NEW n \in 0..(NumFrames[d] - 1),
         NEW r \in 0..(FrameSize[d] - 1)
  PROVE  /\ FrameByte(d, k, n, r) \in Nat
         /\ Place(d, FrameByte(d, k, n, r)) = FrameAddr(Register(k)[d], n, d) + r
         /\ Place(d, FrameByte(d, k, n, r)) \in Region(d)
         /\ Register(k)[d] \in Nat /\ FrameAddr(Register(k)[d], n, d) \in Nat
<1>1. PICK F \in Nat, N \in Nat, W \in Nat, T \in Nat, B \in Nat :
        /\ F = FrameSize[d] /\ N = NumFrames[d] /\ W = FrameBuffSize[d] /\ T = Total(d)
        /\ B = Base[d] /\ F >= 1 /\ N >= 1 /\ W >= 1 /\ T >= 1 /\ T = N * F
        /\ MaxStarts \in Nat
  BY Sizes DEF Total
<1>2. k \in Nat /\ k >= 1 /\ k <= MaxStarts /\ n \in Nat /\ n <= N - 1
      /\ r \in Nat /\ r < F /\ MaxStarts \in Nat
  BY <1>1
<1>3. PICK i \in Nat, v \in Nat, w \in Nat :
        i = n * F + r /\ i < T /\ v = n \div W /\ w = n % W /\ w < W /\ n = v * W + w /\ w <= n
  <2>1. n * F + r \in Nat BY <1>1, <1>2, Z3
  <2>2. n * F + F <= N * F
    <3>1. (n + 1) * F <= N * F BY <1>1, <1>2, Z3
    <3>2. (n + 1) * F = n * F + F BY <1>1, <1>2, Z3
    <3> QED BY <3>1, <3>2
  <2>3. n * F + r < T
    <3>1. PICK x \in Nat : x = n * F BY <1>1, <1>2, Z3
    <3> QED BY <1>1, <1>2, <2>2, <3>1
  <2>4. /\ (n \div W) \in Nat /\ (n % W) \in Nat /\ n % W < W
        /\ n = ((n \div W) * W) + (n % W) /\ n % W <= n
    BY <1>1, <1>2, Division
  <2> QED BY <2>1, <2>3, <2>4
<1>4. PICK o \in Nat, q \in Nat : o = q * T + i /\ q = k - 1 /\ o = FrameByte(d, k, n, r)
  <2>1. PICK q \in Nat : q = k - 1 BY <1>2
  <2>2. q * T + i \in Nat
    <3>1. PICK x \in Nat : x = q * T BY Times
    <3> QED BY <3>1
  <2>3. q * T + i = (k - 1) * T + n * F + r
    <3>1. PICK x \in Nat, y \in Nat : x = q * T /\ y = n * F BY <1>1, <1>2, Z3
    <3>2. i = y + r BY <1>3, <3>1
    <3> QED BY <1>2, <2>1, <3>1, <3>2
  <2> QED BY <1>1, <2>1, <2>2, <2>3 DEF FrameByte
<1>5. o \div T = q /\ o % T = i
  <2>1. T >= 1 /\ i < T /\ o = q * T + i BY <1>1, <1>3, <1>4
  <2> QED BY <2>1, Divided
<1>6. i % (W * F) = w * F + r
  <2>1. PICK z \in Nat : z = W * F /\ z >= 1 BY <1>1, Z3
  <2>2. PICK y \in Nat : y = w * F + r
    <3>1. PICK x \in Nat : x = w * F BY Times
    <3>2. x + r \in Nat BY <1>2
    <3> QED BY <3>1, <3>2
  <2>3. y < z
    <3>1. (w + 1) * F <= W * F
      <4>1. w + 1 \in Nat /\ w + 1 <= W BY <1>3
      <4> QED BY <4>1, Times
    <3>2. (w + 1) * F = w * F + F BY Times
    <3>3. PICK x \in Nat : x = w * F BY Times
    <3>4. x + F <= z /\ y = x + r /\ r < F BY <1>2, <2>1, <2>2, <3>1, <3>2, <3>3
    <3> QED BY <1>2, <3>4
  <2>4. i = v * z + y
    <3>1. n * F = v * (W * F) + w * F
      <4>1. n = v * W + w BY <1>3
      <4> QED BY <4>1, Times
    <3>2. PICK x \in Nat, u \in Nat, t \in Nat : x = n * F /\ u = v * (W * F) /\ t = w * F
      <4>1. n * F \in Nat /\ w * F \in Nat BY <1>2, Times
      <4>2. v * z \in Nat BY Times
      <4> QED BY <2>1, <4>1, <4>2
    <3>3. x = u + t /\ i = x + r /\ y = t + r /\ v * z = u
      BY <1>3, <2>1, <2>2, <3>1, <3>2
    <3>4. i = u + y BY <1>2, <3>3
    <3> QED BY <3>3, <3>4
  <2>5. i % z = y BY <2>1, <2>3, <2>4, Divided
  <2> QED BY <2>1, <2>2, <2>5
<1>7. PICK x \in Nat, y \in Nat, z \in Nat :
        /\ x = q * T /\ y = w * F /\ z = MaxStarts * T
        /\ x + T <= z /\ y + F <= T
  <2>1. q * T \in Nat /\ w * F \in Nat /\ MaxStarts * T \in Nat BY <1>1, Times
  <2>2. (q + 1) * T <= MaxStarts * T /\ (q + 1) * T = q * T + T
    <3>1. q + 1 \in Nat /\ q + 1 <= MaxStarts BY <1>2, <1>4
    <3> QED BY <1>2, <3>1, Times
  <2>3. (w + 1) * F <= N * F /\ (w + 1) * F = w * F + F
    <3>1. n <= N - 1 /\ w <= n BY <1>2, <1>3
    <3>2. w + 1 \in Nat /\ w + 1 <= N BY <1>2, <3>1
    <3> QED BY <3>2, Times
  <2> QED BY <1>1, <2>1, <2>2, <2>3
<1>8. Place(d, o) = B + x + (y + r)
  BY <1>1, <1>5, <1>6, <1>7 DEF Place
<1>9. Register(k)[d] = B + x BY <1>1, <1>4, <1>7 DEF Register
<1>10. FrameAddr(Register(k)[d], n, d) = (B + x) + y
  BY <1>1, <1>3, <1>7, <1>9 DEF FrameAddr
<1>11. Region(d) = B..(B + z - 1) BY <1>1, <1>7 DEF Region
<1>12. B + x + (y + r) \in B..(B + z - 1) /\ B + x + (y + r) = ((B + x) + y) + r
  BY <1>1, <1>2, <1>7
<1> QED BY <1>4, <1>8, <1>9, <1>10, <1>11, <1>12

\* Every byte has a place, and those of the starts have it in the region of their
\* direction.
LEMMA PlaceInRegion ==
  ASSUME NEW d \in Dirs, NEW o \in Nat
  PROVE  /\ Place(d, o) \in Nat
         /\ o < MaxStarts * Total(d) => Place(d, o) \in Region(d)
<1>1. PICK F \in Nat, W \in Nat, T \in Nat, B \in Nat, K \in Nat :
        /\ F = FrameSize[d] /\ W = FrameBuffSize[d] /\ T = Total(d) /\ B = Base[d]
        /\ F >= 1 /\ W >= 1 /\ T >= 1 /\ K = MaxStarts
  BY Sizes
<1>2. PICK q \in Nat, i \in Nat : q = (o \div T) /\ i = (o % T) /\ o = (q * T) + i
  <2>1. (o \div T) \in Nat /\ (o % T) \in Nat /\ o = ((o \div T) * T) + (o % T)
    BY <1>1, Division
  <2> QED BY <2>1
<1>3. PICK z \in Nat : z = W * F /\ z >= 1 BY <1>1, Z3
<1>4. PICK y \in Nat : y = (i % z) /\ y <= i BY <1>3, Division
<1>5. PICK x \in Nat, m \in Nat : x = q * T /\ m = K * T BY Times
<1>6. Place(d, o) = B + x + y BY <1>1, <1>2, <1>3, <1>4, <1>5 DEF Place
<1>7. Region(d) = B..(B + m - 1) BY <1>1, <1>5 DEF Region
<1>8. o = x + i BY <1>2, <1>5
<1>9. MaxStarts * Total(d) = m BY <1>1, <1>5
<1>10. B + x + y \in Nat /\ (o < m => B + x + y \in B..(B + m - 1)) BY <1>4, <1>8
<1> QED BY <1>6, <1>7, <1>9, <1>10

\* The stream is a block of natural numbers.
LEMMA SourceBlock ==
  ASSUME NEW m \in Nat
  PROVE  IsBlock(Nat, Source, m) /\ \A o \in Nat : Source[o] = Place("rd", o) /\ Source[o] \in Nat
<1>1. "rd" \in Dirs BY DEF Dirs
<1>2. \A o \in Nat : Source[o] = Place("rd", o) BY DEF Source
<1>3. \A o \in Nat : Place("rd", o) \in Nat BY <1>1, PlaceInRegion
<1>4. \A j \in 0..(m - 1) : j \in Nat OBVIOUS
<1> QED BY <1>2, <1>3, <1>4 DEF IsBlock

(***************************************************************************)
(* A direction                                                             *)
(***************************************************************************)

\* What the arithmetic of the later proofs needs of a direction: it ends, at the
\* latest, with the last byte of its start, and only in its last frame.
LEMMA SideNumbers ==
  ASSUME NEW d \in Dirs, NEW k \in Nat, NEW e, SideOK(e, d, k)
  PROVE  /\ e.fifo \in FifoOf(Nat) /\ e.fifo.nextAddr \in Nat /\ e.fifo.endAddr \in Nat
         /\ e.fifo.buffer \in Seq(Nat) /\ Len(e.fifo.buffer) \in Nat
         /\ k * Total(d) \in Nat /\ StreamEnd(e, d, k) \in Nat
         /\ StreamEnd(e, d, k) <= k * Total(d)
         /\ Origin(e, d, k) \in Int /\ StreamNext(e, d, k) \in Int
         /\ StreamNext(e, d, k) = e.fifo.nextAddr - Origin(e, d, k)
         /\ StreamEnd(e, d, k) = e.fifo.endAddr - Origin(e, d, k)
         /\ e.running /\ StreamEnd(e, d, k) = k * Total(d) => e.frames + 1 >= NumFrames[d]
         /\ e.running /\ e.frames + 1 >= NumFrames[d] => StreamEnd(e, d, k) = k * Total(d)
         /\ ~e.running /\ "start" \notin e.flags => StreamNext(e, d, k) = k * Total(d)
<1>1. /\ e.fifo \in FifoOf(Nat) /\ e.fifo.nextAddr \in Nat /\ e.fifo.endAddr \in Nat
      /\ e.fifo.buffer \in Seq(Nat) /\ Len(e.fifo.buffer) \in Nat
      /\ e.frames \in Nat /\ e.running \in BOOLEAN
  BY DEF SideOK, SideType, FifoOf
<1>2. PICK F \in Nat, N \in Nat, T \in Nat :
        /\ F = FrameSize[d] /\ N = NumFrames[d] /\ T = Total(d) /\ F >= 1 /\ N >= 1
        /\ T >= 1 /\ T = N * F
  BY Sizes DEF Total
<1>3. PICK m \in Nat : m = k * T BY Times
<1>4. ASSUME e.running
      PROVE  /\ StreamEnd(e, d, k) \in Nat /\ StreamEnd(e, d, k) <= m
             /\ StreamEnd(e, d, k) = m => e.frames + 1 >= N
             /\ e.frames + 1 >= N => StreamEnd(e, d, k) = m
  <2>1. k >= 1 /\ e.frames < N BY <1>2, <1>4 DEF SideOK
  <2>2. PICK h \in Nat, n \in Nat : h = k - 1 /\ n = e.frames + 1 /\ n <= N
    <3>1. k - 1 \in Nat BY <2>1
    <3>2. e.frames + 1 \in Nat /\ e.frames + 1 <= N BY <1>1, <2>1
    <3> QED BY <3>1, <3>2
  <2>3. PICK x \in Nat, y \in Nat : x = h * T /\ y = n * F BY Times
  <2>4. m = x + T
    <3>1. (h + 1) * T = h * T + T BY Times
    <3> QED BY <1>3, <2>2, <2>1, <2>3, <3>1
  <2>5. StreamEnd(e, d, k) = x + y BY <1>2, <1>4, <2>2, <2>3 DEF StreamEnd
  <2>6. y <= T BY <1>2, <2>2, <2>3, Times
  <2>7. n < N => y + F <= T
    <3>1. (n + 1) * F = n * F + F BY Times
    <3>2. n + 1 <= N => (n + 1) * F <= N * F BY Times
    <3> QED BY <1>2, <2>3, <3>1, <3>2
  <2>8. n = N => y = T BY <1>2, <2>3
  <2>9. x + y \in Nat /\ x + y <= m /\ (x + y = m => n >= N) /\ (n >= N => x + y = m)
    <3>1. F >= 1 /\ n <= N BY <1>2, <2>2
    <3> QED BY <2>4, <2>6, <2>7, <2>8, <3>1
  <2> QED BY <2>2, <2>5, <2>9
<1>5. ASSUME ~e.running
      PROVE  /\ StreamEnd(e, d, k) \in Nat /\ StreamEnd(e, d, k) <= m
             /\ "start" \notin e.flags => StreamEnd(e, d, k) = m
  <2>1. CASE "start" \in e.flags
    <3>1. PICK h \in Nat : h = k - 1 BY <2>1 DEF SideOK
    <3>2. PICK x \in Nat : x = h * T BY Times
    <3>3. x <= m
      <4>1. h <= k BY <3>1
      <4> QED BY <1>3, <3>2, <4>1, Times
    <3>4. StreamEnd(e, d, k) = x BY <1>2, <1>5, <2>1, <3>1, <3>2 DEF StreamEnd
    <3> QED BY <2>1, <3>3, <3>4
  <2>2. CASE "start" \notin e.flags
    <3>1. StreamEnd(e, d, k) = m BY <1>2, <1>3, <1>5, <2>2 DEF StreamEnd
    <3> QED BY <3>1
  <2> QED BY <2>1, <2>2
<1>6. PICK s \in Nat : s = StreamEnd(e, d, k) /\ s <= m BY <1>4, <1>5
<1>7. PICK a \in Nat, b \in Nat : a = e.fifo.nextAddr /\ b = e.fifo.endAddr BY <1>1
<1>8. Origin(e, d, k) = b - s BY <1>6, <1>7 DEF Origin
<1>9. StreamNext(e, d, k) = s - (b - a) BY <1>6, <1>7 DEF StreamNext
<1>10. /\ b - s \in Int /\ s - (b - a) \in Int /\ s - (b - a) = a - (b - s) /\ s = b - (b - s)
       /\ (a = b => s - (b - a) = s)
  OBVIOUS
<1>11. ~e.running => a = b BY <1>7 DEF SideOK
<1>12. k * Total(d) = m BY <1>2, <1>3
<1>13. /\ k * Total(d) \in Nat /\ StreamEnd(e, d, k) \in Nat
       /\ StreamEnd(e, d, k) <= k * Total(d)
  BY <1>6, <1>12
<1>14. /\ Origin(e, d, k) \in Int /\ StreamNext(e, d, k) \in Int
       /\ StreamNext(e, d, k) = e.fifo.nextAddr - Origin(e, d, k)
       /\ StreamEnd(e, d, k) = e.fifo.endAddr - Origin(e, d, k)
  BY <1>6, <1>7, <1>8, <1>9, <1>10
<1>15. /\ e.running /\ StreamEnd(e, d, k) = k * Total(d) => e.frames + 1 >= NumFrames[d]
       /\ e.running /\ e.frames + 1 >= NumFrames[d] => StreamEnd(e, d, k) = k * Total(d)
  BY <1>2, <1>4, <1>12
<1>16. ~e.running /\ "start" \notin e.flags => StreamNext(e, d, k) = k * Total(d)
  BY <1>5, <1>6, <1>9, <1>10, <1>11, <1>12
<1> QED BY <1>1, <1>13, <1>14, <1>15, <1>16

\* a is the address of a byte of the current frame.
InFrame(e, d, a) == e.fifo.endAddr - FrameSize[d] <= a /\ a < e.fifo.endAddr

\* A byte of the current frame is in its place.
LEMMA FramePlace ==
  ASSUME NEW d \in Dirs, NEW k \in 0..MaxStarts, NEW e, SideOK(e, d, k), e.running,
         NEW a \in Nat, InFrame(e, d, a)
  PROVE  /\ a - Origin(e, d, k) \in Nat /\ Place(d, a - Origin(e, d, k)) = a
         /\ a \in Region(d)
<1>1. k \in Nat /\ k \in 1..MaxStarts BY Sizes DEF SideOK
<1>2. /\ e.fifo.endAddr \in Nat /\ Origin(e, d, k) \in Int /\ StreamEnd(e, d, k) \in Nat
      /\ StreamEnd(e, d, k) = e.fifo.endAddr - Origin(e, d, k)
  BY <1>1, SideNumbers
<1>3. PICK F \in Nat, T \in Nat, n \in Nat : F = FrameSize[d] /\ T = Total(d) /\ n = e.frames
  BY Sizes DEF SideOK, SideType
<1>4. PICK r \in Int : r = a - (e.fifo.endAddr - F) BY <1>2, <1>3
<1>5. r \in 0..(FrameSize[d] - 1) /\ r \in Nat BY <1>2, <1>3, <1>4 DEF InFrame
<1>6. n \in 0..(NumFrames[d] - 1) BY <1>3, Sizes DEF SideOK
<1>7. /\ FrameByte(d, k, n, r) \in Nat
      /\ Place(d, FrameByte(d, k, n, r)) = FrameAddr(Register(k)[d], n, d) + r
      /\ Place(d, FrameByte(d, k, n, r)) \in Region(d)
      /\ FrameAddr(Register(k)[d], n, d) \in Nat
  BY <1>1, <1>5, <1>6, PlaceOfByte
<1>8. e.fifo.endAddr = FrameAddr(Register(k)[d], n, d) + F BY <1>3 DEF SideOK
<1>9. FrameAddr(Register(k)[d], n, d) + r = a BY <1>4, <1>7, <1>8
<1>10. FrameByte(d, k, n, r) = a - Origin(e, d, k)
  <2>1. PICK h \in Nat : h = k - 1 BY <1>1
  <2>2. PICK x \in Nat, y \in Nat : x = h * T /\ y = n * F BY Times
  <2>3. (n + 1) * F = y + F BY <2>2, Times
  <2>4. StreamEnd(e, d, k) = x + (y + F) BY <1>3, <2>1, <2>2, <2>3 DEF StreamEnd
  <2>5. FrameByte(d, k, n, r) = x + y + r BY <1>3, <2>1, <2>2 DEF FrameByte
  <2> QED BY <1>2, <1>4, <1>5, <2>4, <2>5
<1> QED BY <1>7, <1>9, <1>10

\* The direction e with FIFO g.
WithFifo(e, g) == [e EXCEPT !.fifo = g]

\* What changing the FIFO of a direction changes.
LEMMA FifoOnly ==
  ASSUME NEW e \in SideType, NEW g \in FifoOf(Nat)
  PROVE  /\ WithFifo(e, g) \in SideType /\ WithFifo(e, g).fifo = g
         /\ WithFifo(e, g).flags = e.flags /\ WithFifo(e, g).running = e.running
         /\ WithFifo(e, g).addr = e.addr /\ WithFifo(e, g).frames = e.frames
         /\ WithFifo(e, g).int = e.int
BY DEF WithFifo, SideType

\* A FIFO that goes on in its block stays in the frame of its direction.
LEMMA SideMoves ==
  ASSUME NEW d \in Dirs, NEW k \in Nat, NEW e, SideOK(e, d, k), Shape(e.fifo),
         NEW g \in FifoOf(Nat), Shape(g), Advances(e.fifo, g)
  PROVE  /\ SideOK(WithFifo(e, g), d, k)
         /\ StreamEnd(WithFifo(e, g), d, k) = StreamEnd(e, d, k)
         /\ Origin(WithFifo(e, g), d, k) = Origin(e, d, k)
<1> DEFINE h == WithFifo(e, g)
<1>1. /\ h \in SideType /\ h.fifo = g /\ h.flags = e.flags /\ h.running = e.running
      /\ h.addr = e.addr /\ h.frames = e.frames
  <2>1. e \in SideType BY DEF SideOK
  <2> QED BY <2>1, FifoOnly
<1>2. /\ e.fifo \in FifoOf(Nat) /\ e.fifo.nextAddr \in Nat /\ e.fifo.endAddr \in Nat
  BY SideNumbers
<1>3. /\ g.nextAddr \in Nat /\ g.endAddr \in Nat /\ g.nextAddr <= g.endAddr BY DEF FifoOf, Shape
<1>4. /\ SizePending(e.fifo) \in Nat /\ SizePending(g) \in Nat
      /\ (SizePending(g) = 0 <=> g.pending = <<>>)
      /\ (SizePending(e.fifo) = 0 <=> e.fifo.pending = <<>>)
  BY <1>2, PendingBytes
<1>5. /\ g.endAddr = e.fifo.endAddr /\ e.fifo.nextAddr <= g.nextAddr
      /\ e.fifo.nextAddr - SizePending(e.fifo) <= g.nextAddr - SizePending(g)
  BY DEF Advances, FirstUnderWay
<1> HIDE DEF h
<1>6. ~h.running => g.pending = <<>> /\ g.nextAddr = g.endAddr
  <2>1. SUFFICES ASSUME ~h.running PROVE g.pending = <<>> /\ g.nextAddr = g.endAddr
    OBVIOUS
  <2>2. e.fifo.pending = <<>> /\ e.fifo.nextAddr = e.fifo.endAddr BY <1>1, <2>1 DEF SideOK
  <2> QED BY <1>2, <1>3, <1>4, <1>5, <2>2
<1>7. ASSUME h.running
      PROVE  /\ k >= 1 /\ h.addr = Register(k)[d] /\ h.frames < NumFrames[d]
             /\ g.endAddr = FrameAddr(h.addr, h.frames, d) + FrameSize[d]
             /\ FrameAddr(h.addr, h.frames, d) <= FirstUnderWay(g)
  <2>1. /\ k >= 1 /\ e.addr = Register(k)[d] /\ e.frames < NumFrames[d]
        /\ e.fifo.endAddr = FrameAddr(e.addr, e.frames, d) + FrameSize[d]
        /\ FrameAddr(e.addr, e.frames, d) <= FirstUnderWay(e.fifo)
    BY <1>1, <1>7 DEF SideOK
  <2>2. FrameAddr(e.addr, e.frames, d) \in Int
    <3>1. e.addr \in Nat /\ e.frames \in Nat BY DEF SideOK, SideType
    <3>2. PICK W \in Nat, F \in Nat : W = FrameBuffSize[d] /\ W >= 1 /\ F = FrameSize[d]
      BY Sizes
    <3>3. PICK y \in Nat : y = (e.frames % W) BY <3>1, <3>2, Division
    <3>4. PICK z \in Nat : z = y * F BY Times
    <3> QED BY <3>1, <3>2, <3>3, <3>4 DEF FrameAddr
  <2>3. FirstUnderWay(e.fifo) \in Int /\ FirstUnderWay(g) \in Int
    BY <1>2, <1>3, <1>4 DEF FirstUnderWay
  <2>4. FrameAddr(e.addr, e.frames, d) <= FirstUnderWay(g)
    BY <2>1, <2>2, <2>3 DEF Advances
  <2> QED BY <1>1, <1>5, <2>1, <2>4
<1>8. StreamEnd(h, d, k) = StreamEnd(e, d, k) BY <1>1 DEF StreamEnd
<1>9. Origin(h, d, k) = Origin(e, d, k) BY <1>1, <1>5, <1>8 DEF Origin
<1>10. SideOK(h, d, k)
  <2>1. ("running" \in h.flags <=> h.running) /\ ("start" \in h.flags => ~h.running /\ k >= 1)
    BY <1>1 DEF SideOK
  <2> QED BY <1>1, <1>6, <1>7, <2>1 DEF SideOK
<1> QED BY <1>8, <1>9, <1>10 DEF h

\* A step of the engine from e to h in which its read direction gives no byte.
ReadSteps(e, k, h, n) ==
  /\ ReadSide(h, n) /\ ReadNext(h, n) = ReadNext(e, k)
  /\ Len(e.fifo.buffer) <= Len(h.fifo.buffer)

\* Where in the stream the byte belongs that the write FIFO takes next.
WriteNext(e, k) == WritePos(e.fifo) - Origin(e, "wr", k)

\* A step in which its write direction takes none.
WriteSteps(e, k, h, n) ==
  /\ WriteSide(h, n) /\ WriteNext(h, n) = WriteNext(e, k)
  /\ Len(h.fifo.buffer) <= Len(e.fifo.buffer)

\* The read FIFO goes on in its frame, after it has given n bytes.
LEMMA ReadMoves ==
  ASSUME NEW k \in Nat, NEW e, ReadSide(e, k), NEW g, NEW n \in Nat,
         GoodRead(Nat, Source, StreamEnd(e, "rd", k), Origin(e, "rd", k), g),
         Advances(e.fifo, g), ReadPos(g) = ReadPos(e.fifo) + n
  PROVE  /\ ReadSide(WithFifo(e, g), k) /\ ReadNext(WithFifo(e, g), k) = ReadNext(e, k) + n
         /\ Len(g.buffer) >= Len(e.fifo.buffer) - n
         /\ WithFifo(e, g).fifo = g /\ WithFifo(e, g).flags = e.flags
         /\ WithFifo(e, g).running = e.running
<1>1. SideOK(e, "rd", k) /\ "rd" \in Dirs BY DEF ReadSide, Dirs
<1>2. e.fifo \in FifoOf(Nat) /\ Shape(e.fifo) BY DEF ReadSide, GoodRead
<1>3. g \in FifoOf(Nat) /\ Shape(g) BY DEF GoodRead
<1>4. /\ SideOK(WithFifo(e, g), "rd", k)
      /\ StreamEnd(WithFifo(e, g), "rd", k) = StreamEnd(e, "rd", k)
      /\ Origin(WithFifo(e, g), "rd", k) = Origin(e, "rd", k)
  BY <1>1, <1>2, <1>3, SideMoves
<1>5. /\ WithFifo(e, g).fifo = g /\ WithFifo(e, g).flags = e.flags
      /\ WithFifo(e, g).running = e.running
  <2>1. e \in SideType BY <1>1 DEF SideOK
  <2> QED BY <1>3, <2>1, FifoOnly
<1>6. ReadSide(WithFifo(e, g), k) BY <1>4, <1>5 DEF ReadSide
<1>7. Origin(e, "rd", k) \in Int BY <1>1, SideNumbers
<1>8. /\ ReadPos(g) \in Int /\ ReadPos(e.fifo) \in Int
      /\ ReadPos(g) + Len(g.buffer) + SizePending(g) = g.nextAddr
      /\ ReadPos(e.fifo) + Len(e.fifo.buffer) + SizePending(e.fifo) = e.fifo.nextAddr
      /\ Len(g.buffer) \in Nat /\ Len(e.fifo.buffer) \in Nat
      /\ SizePending(g) \in Nat /\ SizePending(e.fifo) \in Nat
      /\ g.nextAddr \in Nat /\ e.fifo.nextAddr \in Nat
  BY <1>2, <1>3, ReadNumbers
<1>9. ReadNext(WithFifo(e, g), k) = ReadNext(e, k) + n
  BY <1>4, <1>5, <1>7, <1>8 DEF ReadNext
<1>10. Len(g.buffer) >= Len(e.fifo.buffer) - n
  <2>1. e.fifo.nextAddr - SizePending(e.fifo) <= g.nextAddr - SizePending(g)
    BY DEF Advances, FirstUnderWay
  <2>2. PICK x \in Nat, y \in Nat : x = Len(g.buffer) /\ y = Len(e.fifo.buffer) BY <1>8
  <2>3. PICK p \in Int, q \in Int : p = ReadPos(g) /\ q = ReadPos(e.fifo) /\ p = q + n
    BY <1>8
  <2>4. PICK s \in Nat, t \in Nat : s = SizePending(g) /\ t = SizePending(e.fifo) BY <1>8
  <2>5. (q + y + t) - t <= (p + x + s) - s BY <1>8, <2>1, <2>2, <2>3, <2>4
  <2>6. x >= y - n BY <2>3, <2>5
  <2> QED BY <2>2, <2>6
<1> QED BY <1>5, <1>6, <1>9, <1>10

\* The write FIFO goes on in its frame, after it has taken n bytes.
LEMMA WriteMoves ==
  ASSUME NEW k \in Nat, NEW e, WriteSide(e, k), NEW g, NEW n \in Nat,
         Emptying(Nat, Source, Origin(e, "wr", k), g),
         Advances(e.fifo, g), WritePos(g) = WritePos(e.fifo) + n
  PROVE  /\ WriteSide(WithFifo(e, g), k) /\ WriteNext(WithFifo(e, g), k) = WriteNext(e, k) + n
         /\ Len(g.buffer) <= Len(e.fifo.buffer) + n
         /\ Origin(WithFifo(e, g), "wr", k) = Origin(e, "wr", k)
         /\ WithFifo(e, g).fifo = g /\ WithFifo(e, g).flags = e.flags
         /\ WithFifo(e, g).running = e.running
<1>1. SideOK(e, "wr", k) /\ "wr" \in Dirs BY DEF WriteSide, Dirs
<1>2. e.fifo \in FifoOf(Nat) /\ Shape(e.fifo) BY DEF WriteSide, Emptying
<1>3. g \in FifoOf(Nat) /\ Shape(g) BY DEF Emptying
<1>4. /\ SideOK(WithFifo(e, g), "wr", k)
      /\ Origin(WithFifo(e, g), "wr", k) = Origin(e, "wr", k)
  BY <1>1, <1>2, <1>3, SideMoves
<1>5. /\ WithFifo(e, g).fifo = g /\ WithFifo(e, g).flags = e.flags
      /\ WithFifo(e, g).running = e.running
  <2>1. e \in SideType BY <1>1 DEF SideOK
  <2> QED BY <1>3, <2>1, FifoOnly
<1>6. WriteSide(WithFifo(e, g), k) BY <1>4, <1>5 DEF WriteSide
<1>7. Origin(e, "wr", k) \in Int BY <1>1, SideNumbers
<1>8. /\ Len(g.buffer) \in Nat /\ Len(e.fifo.buffer) \in Nat
      /\ g.nextAddr \in Nat /\ e.fifo.nextAddr \in Nat
  BY <1>2, <1>3, ReadNumbers
<1>9. WriteNext(WithFifo(e, g), k) = WriteNext(e, k) + n
  BY <1>4, <1>5, <1>7, <1>8 DEF WriteNext, WritePos
<1>10. Len(g.buffer) <= Len(e.fifo.buffer) + n
  <2>1. e.fifo.nextAddr <= g.nextAddr BY DEF Advances
  <2>2. PICK x \in Nat, y \in Nat : x = Len(g.buffer) /\ y = Len(e.fifo.buffer) BY <1>8
  <2>3. PICK a \in Nat, b \in Nat : a = g.nextAddr /\ b = e.fifo.nextAddr /\ b <= a
    BY <1>8, <2>1
  <2>4. a + x = (b + y) + n BY <2>2, <2>3 DEF WritePos
  <2>5. x <= y + n BY <2>3, <2>4
  <2> QED BY <2>2, <2>5
<1> QED BY <1>4, <1>5, <1>6, <1>9, <1>10

\* If the bytes before s have landed, and those from s on are the bytes of the
\* current frame from address c on, still to be written, then all have landed.
LEMMA LandedOn ==
  ASSUME NEW n \in 0..MaxStarts, NEW h, WriteSide(h, n), NEW M, NEW s \in Nat, NEW c \in Nat,
         \A j \in 0..(s - 1) : ByteLanded(j, s, h.fifo, M),
         s <= StreamNext(h, "wr", n), c = s + Origin(h, "wr", n),
         c < h.fifo.nextAddr => h.running /\ h.fifo.endAddr - FrameSize["wr"] <= c,
         \A a \in Nat : c <= a => a \in Unwritten(h.fifo)
  PROVE  Landed(h, n, M)
<1>1. n \in Nat /\ "wr" \in Dirs /\ SideOK(h, "wr", n) /\ h.fifo \in FifoOf(Nat) /\ Shape(h.fifo)
  BY Sizes DEF WriteSide, Emptying, Dirs
<1>2. PICK t \in Int, b \in Int, x \in Nat, y \in Nat :
        /\ t = StreamNext(h, "wr", n) /\ b = Origin(h, "wr", n)
        /\ x = h.fifo.nextAddr /\ y = h.fifo.endAddr /\ t = x - b /\ x <= y
  <2>1. h.fifo.nextAddr <= h.fifo.endAddr BY <1>1 DEF Shape
  <2>2. /\ h.fifo.nextAddr \in Nat /\ h.fifo.endAddr \in Nat
        /\ Origin(h, "wr", n) \in Int /\ StreamNext(h, "wr", n) \in Int
        /\ StreamNext(h, "wr", n) = h.fifo.nextAddr - Origin(h, "wr", n)
    BY <1>1, SideNumbers
  <2> QED BY <2>1, <2>2
<1>3. SUFFICES ASSUME NEW j \in 0..(t - 1)
               PROVE  ByteLanded(j, t, h.fifo, M)
  BY <1>2 DEF Landed
<1>4. CASE j < s
  <2>1. ByteLanded(j, s, h.fifo, M) BY <1>4
  <2>2. (j + 1)..(s - 1) \subseteq (j + 1)..(t - 1) BY <1>2
  <2> QED BY <2>1, <2>2 DEF ByteLanded
<1>5. CASE s <= j
  <2>1. PICK a \in Nat : a = j + b /\ c <= a /\ a < x /\ a - b = j BY <1>2, <1>5
  <2>2. h.running /\ InFrame(h, "wr", a)
    <3>1. FrameSize["wr"] \in Nat BY <1>1, Sizes
    <3> QED BY <1>2, <2>1, <3>1 DEF InFrame
  <2>3. Place("wr", a - Origin(h, "wr", n)) = a BY <1>1, <2>2, FramePlace
  <2>4. Place("wr", j) = a BY <1>2, <2>1, <2>3
  <2> QED BY <1>2, <2>1, <2>4 DEF ByteLanded
<1> QED BY <1>2, <1>4, <1>5

\* The write FIFO goes on in its frame and forgets no byte: what has landed has.
LEMMA LandedStays ==
  ASSUME NEW k \in 0..MaxStarts, NEW e, WriteSide(e, k), NEW g,
         Emptying(Nat, Source, Origin(e, "wr", k), g), Advances(e.fifo, g),
         WriteSide(WithFifo(e, g), k), NEW M,
         \A j \in 0..(StreamNext(e, "wr", k) - 1) :
           ByteLanded(j, StreamNext(e, "wr", k), g, M),
         \A a \in Nat : e.fifo.nextAddr <= a => a \in Unwritten(g)
  PROVE  Landed(WithFifo(e, g), k, M)
<1> DEFINE h == WithFifo(e, g)
<1>1. k \in Nat /\ "wr" \in Dirs /\ SideOK(e, "wr", k) BY Sizes DEF WriteSide, Dirs
<1>2. /\ e.fifo \in FifoOf(Nat) /\ Shape(e.fifo) /\ g \in FifoOf(Nat) /\ Shape(g)
      /\ Origin(e, "wr", k) <= e.fifo.nextAddr
  BY DEF WriteSide, Emptying
<1>3. /\ Origin(h, "wr", k) = Origin(e, "wr", k) /\ SideOK(h, "wr", k)
  BY <1>1, <1>2, SideMoves
<1>4. h.fifo = g /\ h.running = e.running
  <2>1. e \in SideType BY <1>1 DEF SideOK
  <2> QED BY <1>2, <2>1, FifoOnly
<1> HIDE DEF h
<1>5. PICK b \in Int, x \in Nat, z \in Nat :
        b = Origin(e, "wr", k) /\ x = e.fifo.nextAddr /\ z = e.fifo.endAddr
  BY <1>1, SideNumbers
<1>6. PICK s \in Nat : s = StreamNext(e, "wr", k) /\ s = x - b
  <2>1. StreamNext(e, "wr", k) = e.fifo.nextAddr - Origin(e, "wr", k) BY <1>1, SideNumbers
  <2>2. x - b \in Nat BY <1>2, <1>5
  <2> QED BY <1>5, <2>1, <2>2
<1>7. PICK y \in Nat : y = g.nextAddr /\ x <= y /\ y <= z /\ g.endAddr = z
  BY <1>2, <1>5 DEF FifoOf, Advances, Shape
<1>8. StreamNext(h, "wr", k) = y - b
  <2>1. StreamNext(h, "wr", k) = h.fifo.nextAddr - Origin(h, "wr", k)
    BY <1>1, <1>3, SideNumbers
  <2> QED BY <1>3, <1>4, <1>5, <1>7, <2>1
<1>9. x < h.fifo.nextAddr => h.running /\ h.fifo.endAddr - FrameSize["wr"] <= x
  <2>1. SUFFICES ASSUME x < y PROVE e.running /\ z - FrameSize["wr"] <= x
    BY <1>4, <1>7
  <2>2. e.running BY <1>1, <1>5, <1>7, <2>1 DEF SideOK
  <2>3. /\ e.fifo.endAddr = FrameAddr(e.addr, e.frames, "wr") + FrameSize["wr"]
        /\ FrameAddr(e.addr, e.frames, "wr") <= FirstUnderWay(e.fifo)
    BY <1>1, <2>2 DEF SideOK
  <2>4. PICK p \in Nat : p = SizePending(e.fifo) BY <1>2, PendingBytes
  <2>5. FirstUnderWay(e.fifo) = x - p BY <1>5, <2>4 DEF FirstUnderWay
  <2>6. PICK F \in Nat : F = FrameSize["wr"] BY <1>1, Sizes
  <2>7. PICK v \in Nat : v = FrameAddr(e.addr, e.frames, "wr")
    <3>1. /\ e.addr \in Nat /\ e.frames \in Nat /\ e.addr = Register(k)["wr"]
          /\ e.frames < NumFrames["wr"] /\ k >= 1
      BY <1>1, <2>2 DEF SideOK, SideType
    <3>2. k \in 1..MaxStarts /\ e.frames \in 0..(NumFrames["wr"] - 1)
          /\ 0 \in 0..(FrameSize["wr"] - 1)
      BY <1>1, <3>1, Sizes
    <3> QED BY <1>1, <3>1, <3>2, PlaceOfByte
  <2>8. z = v + F /\ v <= x - p BY <1>5, <2>3, <2>5, <2>6, <2>7
  <2>9. z - F <= x BY <2>8
  <2> QED BY <2>2, <2>6, <2>9
<1>10. \A j \in 0..(s - 1) : ByteLanded(j, s, h.fifo, M) BY <1>4, <1>6
<1>11. s <= StreamNext(h, "wr", k) /\ x = s + Origin(h, "wr", k)
  BY <1>3, <1>5, <1>6, <1>7, <1>8
<1>12. \A a \in Nat : x <= a => a \in Unwritten(h.fifo) BY <1>4, <1>5
<1>13. WriteSide(h, k) BY DEF h
<1> QED BY <1>9, <1>10, <1>11, <1>12, <1>13, LandedOn DEF h

(***************************************************************************)
(* Frames                                                                  *)
(***************************************************************************)

\* h is direction e at the start of another frame.
NewFrame(e, h, d, k) ==
  /\ h.fifo \in FifoOf(Nat) => h \in SideType
  /\ h.running /\ "running" \in h.flags /\ "start" \notin h.flags
  /\ h.addr = Register(k)[d] /\ h.frames \in 0..(NumFrames[d] - 1)
  /\ h.fifo = StartBlock(d, e.fifo, FrameAddr(h.addr, h.frames, d))
  /\ StreamEnd(h, d, k) = StreamEnd(e, d, k) + FrameSize[d]

\* A FIFO between two frames.
AtRest(f) == f.pending = <<>> /\ f.nextAddr = f.endAddr

\* A new frame starts at its address.
LEMMA FrameStart ==
  ASSUME NEW d \in Dirs, NEW k \in 1..MaxStarts, NEW e, NEW h, NewFrame(e, h, d, k)
  PROVE  /\ FrameAddr(h.addr, h.frames, d) \in Nat /\ FrameSize[d] \in Nat
         /\ h.fifo \in FifoOf(Nat) /\ h.fifo.endAddr = FrameAddr(h.addr, h.frames, d) + FrameSize[d]
              /\ FrameAddr(h.addr, h.frames, d) <= FirstUnderWay(h.fifo) => SideOK(h, d, k)
<1>1. 0 \in 0..(FrameSize[d] - 1) /\ FrameSize[d] \in Nat BY Sizes
<1>2. FrameAddr(h.addr, h.frames, d) \in Nat BY <1>1, PlaceOfByte DEF NewFrame
<1>3. k >= 1 /\ h.frames < NumFrames[d] BY Sizes DEF NewFrame
<1> QED BY <1>1, <1>2, <1>3 DEF NewFrame, SideOK

\* The read direction keeps its bytes in their places when a frame starts.
LEMMA ReadFrame ==
  ASSUME NEW k \in 1..MaxStarts, NEW e, ReadSide(e, k), AtRest(e.fifo),
         NEW h, NewFrame(e, h, "rd", k)
  PROVE  ReadSteps(e, k, h, k)
<1>1. k \in Nat /\ "rd" \in Dirs /\ SideOK(e, "rd", k) BY Sizes DEF ReadSide, Dirs
<1>2. PICK a \in Nat, s \in Nat : a = FrameAddr(h.addr, h.frames, "rd") /\ s = FrameSize["rd"]
  BY <1>1, FrameStart
<1>3. PICK m \in Nat, b \in Int : m = StreamEnd(e, "rd", k) /\ b = Origin(e, "rd", k)
  BY <1>1, SideNumbers
<1>4. GoodRead(Nat, Source, m, b, e.fifo) /\ e.fifo.pending = <<>>
      /\ e.fifo.nextAddr = e.fifo.endAddr
  BY <1>3 DEF ReadSide, AtRest
<1>5. ReadsOn(Nat, Source, m, b, e.fifo, a, s) BY <1>4, ReadRestart
<1>6. h.fifo = StartFill(e.fifo, a, s) BY <1>2 DEF NewFrame, StartBlock
<1>7. /\ GoodRead(Nat, Source, m + s, a - m, h.fifo)
      /\ ReadPos(h.fifo) - (a - m) = ReadPos(e.fifo) - b
      /\ h.fifo.endAddr = a + s /\ a <= h.fifo.nextAddr /\ a <= FirstUnderWay(h.fifo)
  BY <1>5, <1>6 DEF ReadsOn
<1>8. h.fifo \in FifoOf(Nat) /\ Shape(h.fifo) BY <1>7 DEF GoodRead
<1>9. SideOK(h, "rd", k) BY <1>1, <1>2, <1>7, <1>8, FrameStart
<1>10. StreamEnd(h, "rd", k) = m + s BY <1>2, <1>3 DEF NewFrame
<1>11. Origin(h, "rd", k) = a - m BY <1>7, <1>10 DEF Origin
<1>12. ReadSide(h, k) BY <1>7, <1>9, <1>10, <1>11 DEF ReadSide
<1>13. ReadNext(h, k) = ReadNext(e, k) BY <1>3, <1>7, <1>11 DEF ReadNext
<1>14. Len(e.fifo.buffer) <= Len(h.fifo.buffer)
  <2>1. e.fifo \in FifoOf(Nat) /\ Shape(e.fifo) BY <1>4 DEF GoodRead
  <2>2. PICK x \in Nat, y \in Nat, p \in Int, q \in Int :
          /\ x = Len(e.fifo.buffer) /\ y = Len(h.fifo.buffer)
          /\ p = ReadPos(e.fifo) /\ q = ReadPos(h.fifo)
    BY <1>8, <2>1, ReadNumbers
  <2>3. PICK u \in Nat : u = e.fifo.nextAddr /\ p + x = u
    <3>1. /\ ReadPos(e.fifo) + Len(e.fifo.buffer) + SizePending(e.fifo) = e.fifo.nextAddr
          /\ SizePending(e.fifo) = 0 /\ e.fifo.nextAddr \in Nat
      BY <1>4, <2>1, ReadNumbers, PendingBytes
    <3> QED BY <2>2, <3>1
  <2>4. a <= q + y
    <3>1. PICK v \in Nat, w \in Nat : v = h.fifo.nextAddr /\ w = SizePending(h.fifo)
      BY <1>8, ReadNumbers
    <3>2. q + y + w = v
      <4>1. ReadPos(h.fifo) + Len(h.fifo.buffer) + SizePending(h.fifo) = h.fifo.nextAddr
        BY <1>8, ReadNumbers
      <4> QED BY <2>2, <3>1, <4>1
    <3>3. a <= v - w BY <1>7, <3>1 DEF FirstUnderWay
    <3> QED BY <3>2, <3>3
  <2>5. u = b + m BY <1>4, <2>3 DEF GoodRead
  <2>6. q - (a - m) = p - b BY <1>7, <2>2
  <2>7. x <= y BY <2>3, <2>4, <2>5, <2>6
  <2> QED BY <2>2, <2>7
<1> QED BY <1>12, <1>13, <1>14 DEF ReadSteps

\* So does the write direction.
LEMMA WriteFrame ==
  ASSUME NEW k \in 1..MaxStarts, NEW e, WriteSide(e, k), AtRest(e.fifo),
         NEW h, NewFrame(e, h, "wr", k), NEW M, Landed(e, k, M)
  PROVE  WriteSteps(e, k, h, k) /\ Landed(h, k, M)
<1>1. k \in Nat /\ k \in 0..MaxStarts /\ "wr" \in Dirs /\ SideOK(e, "wr", k)
  BY Sizes DEF WriteSide, Dirs
<1>2. PICK a \in Nat, s \in Nat : a = FrameAddr(h.addr, h.frames, "wr") /\ s = FrameSize["wr"]
  BY <1>1, FrameStart
<1>3. PICK m \in Nat, b \in Int, u \in Nat :
        /\ m = StreamEnd(e, "wr", k) /\ b = Origin(e, "wr", k) /\ u = e.fifo.nextAddr
        /\ u - b = m /\ StreamNext(e, "wr", k) = m
  <2>1. /\ StreamEnd(e, "wr", k) \in Nat /\ Origin(e, "wr", k) \in Int
        /\ e.fifo.nextAddr \in Nat /\ e.fifo.endAddr \in Nat
        /\ StreamNext(e, "wr", k) = e.fifo.nextAddr - Origin(e, "wr", k)
        /\ StreamEnd(e, "wr", k) = e.fifo.endAddr - Origin(e, "wr", k)
    BY <1>1, SideNumbers
  <2> QED BY <2>1 DEF AtRest
<1>4. Emptying(Nat, Source, b, e.fifo) /\ e.fifo.pending = <<>>
      /\ e.fifo.nextAddr = e.fifo.endAddr
  BY <1>3 DEF WriteSide, AtRest
<1>5. WritesOn(Nat, Source, b, e.fifo, a, s) BY <1>4, WriteRestart
<1>6. h.fifo = StartEmpty(e.fifo, a, s) BY <1>1, <1>2 DEF NewFrame, StartBlock
<1>7. /\ Emptying(Nat, Source, a - m, h.fifo)
      /\ WritePos(h.fifo) - (a - m) = WritePos(e.fifo) - b
      /\ h.fifo.endAddr = a + s /\ a <= h.fifo.nextAddr /\ a <= FirstUnderWay(h.fifo)
      /\ \A x \in Nat : a <= x => x \in Unwritten(h.fifo)
  <2>1. e.fifo.nextAddr - b = m BY <1>3
  <2> QED BY <1>5, <1>6, <2>1 DEF WritesOn
<1>8. h.fifo \in FifoOf(Nat) /\ Shape(h.fifo) BY <1>7 DEF Emptying
<1>9. SideOK(h, "wr", k) BY <1>1, <1>2, <1>7, <1>8, FrameStart
<1>10. StreamEnd(h, "wr", k) = m + s BY <1>2, <1>3 DEF NewFrame
<1>11. Origin(h, "wr", k) = a - m BY <1>7, <1>10 DEF Origin
<1>12. WriteSide(h, k) BY <1>7, <1>9, <1>11 DEF WriteSide
<1>13. WriteNext(h, k) = WriteNext(e, k) BY <1>3, <1>7, <1>11 DEF WriteNext
<1>14. PICK v \in Nat : v = h.fifo.nextAddr BY <1>8, ReadNumbers
<1>15. Len(h.fifo.buffer) <= Len(e.fifo.buffer)
  <2>1. e.fifo \in FifoOf(Nat) /\ Shape(e.fifo) BY <1>4 DEF Emptying
  <2>2. PICK x \in Nat, y \in Nat : x = Len(e.fifo.buffer) /\ y = Len(h.fifo.buffer)
    BY <1>8, <2>1, ReadNumbers
  <2>3. WritePos(h.fifo) = v + y /\ WritePos(e.fifo) = u + x
    BY <1>3, <1>14, <2>2 DEF WritePos
  <2>4. (v + y) - (a - m) = (u + x) - b /\ a <= v BY <1>7, <1>14, <2>3
  <2>5. y <= x BY <1>3, <2>4
  <2> QED BY <2>2, <2>5
<1>16. WriteSteps(e, k, h, k) BY <1>12, <1>13, <1>15 DEF WriteSteps
<1>17. \A j \in 0..(m - 1) : ByteLanded(j, m, h.fifo, M)
  <2>1. SUFFICES ASSUME NEW j \in 0..(m - 1) PROVE ByteLanded(j, m, h.fifo, M) OBVIOUS
  <2>2. ByteLanded(j, m, e.fifo, M) BY <1>3 DEF Landed
  <2>3. ~(Place("wr", j) \in Unwritten(e.fifo) /\ Place("wr", j) < e.fifo.nextAddr)
    <3>1. Len(e.fifo.pending) = 0 BY <1>4
    <3>2. \A x \in Unwritten(e.fifo) : x \in Nat /\ u <= x BY <1>3, <3>1 DEF Unwritten
    <3> QED BY <1>3, <3>2
  <2> QED BY <2>2, <2>3 DEF ByteLanded
<1>18. StreamNext(h, "wr", k) = v - (a - m)
  <2>1. StreamNext(h, "wr", k) = h.fifo.nextAddr - Origin(h, "wr", k)
    BY <1>1, <1>9, SideNumbers
  <2> QED BY <1>11, <1>14, <2>1
<1>19. Landed(h, k, M)
  <2>1. m <= StreamNext(h, "wr", k) /\ a = m + Origin(h, "wr", k)
    BY <1>7, <1>11, <1>14, <1>18
  <2>2. h.running /\ h.fifo.endAddr - FrameSize["wr"] <= a
    <3>1. h.running BY DEF NewFrame
    <3> QED BY <1>2, <1>7, <3>1
  <2> QED BY <1>1, <1>7, <1>12, <1>17, <2>1, <2>2, LandedOn
<1> QED BY <1>16, <1>19

\* h, after n starts, is where e was after k in the stream, with the same FIFO.
Restated(e, k, h, n, d) ==
  SideOK(h, d, n) /\ h.fifo = e.fifo /\ StreamEnd(h, d, n) = StreamEnd(e, d, k)

\* What a part of tick() makes of direction e.
SideStep(e, h, d, k) ==
  \/ Restated(e, k, h, k, d)
  \/ k \in 1..MaxStarts /\ AtRest(e.fifo) /\ NewFrame(e, h, d, k)

\* tick() notices a start bit: the first frame starts.
LEMMA StartSideStep ==
  ASSUME NEW d \in Dirs, NEW k \in 0..MaxStarts, NEW e, SideOK(e, d, k)
  PROVE  LET h == StartSide(e, d, Register(k)[d])
         IN  /\ SideStep(e, h, d, k) /\ "start" \notin h.flags
             /\ "start" \notin e.flags => h = e
<1> DEFINE h == StartSide(e, d, Register(k)[d])
<1>1. CASE e.running \/ "start" \notin e.flags
  <2>1. h = e BY <1>1 DEF StartSide
  <2>2. "start" \notin e.flags BY <1>1 DEF SideOK
  <2> HIDE DEF h
  <2> QED BY <2>1, <2>2 DEF SideStep, Restated, h
<1>2. CASE ~e.running /\ "start" \in e.flags
  <2>1. k \in 1..MaxStarts /\ AtRest(e.fifo) BY <1>2, Sizes DEF SideOK, AtRest
  <2>2. e \in SideType BY DEF SideOK
  <2>3. h = [e EXCEPT !.flags = (@ \ {"start"}) \cup {"running"},
                      !.running = TRUE, !.addr = Register(k)[d], !.frames = 0,
                      !.fifo = StartBlock(d, @, Register(k)[d])]
    BY <1>2 DEF StartSide
  <2>4. /\ h.flags = (e.flags \ {"start"}) \cup {"running"} /\ h.running = TRUE
        /\ h.addr = Register(k)[d] /\ h.frames = 0 /\ h.int = e.int
        /\ h.fifo = StartBlock(d, e.fifo, Register(k)[d])
    BY <2>2, <2>3 DEF SideType
  <2>5. Register(k)[d] \in Nat /\ FrameAddr(Register(k)[d], 0, d) = Register(k)[d]
    <3>1. Register(k)[d] \in Nat
      <4>1. 0 \in 0..(NumFrames[d] - 1) /\ 0 \in 0..(FrameSize[d] - 1) BY Sizes
      <4> QED BY <2>1, <4>1, PlaceOfByte
    <3>2. PICK W \in Nat, F \in Nat : W = FrameBuffSize[d] /\ W >= 1 /\ F = FrameSize[d]
      BY Sizes
    <3>3. (0 % W) = 0 BY <3>2, Z3
    <3>4. 0 * F = 0 BY Z3
    <3> QED BY <3>1, <3>2, <3>3, <3>4 DEF FrameAddr
  <2>6. h.fifo \in FifoOf(Nat) => h \in SideType
    <3>1. e.flags \in SUBSET Bits /\ e.int \in BOOLEAN BY <2>2 DEF SideType
    <3>2. (e.flags \ {"start"}) \cup {"running"} \in SUBSET Bits BY <3>1 DEF Bits
    <3>3. h = [s \in {"flags", "running", "addr", "frames", "fifo", "int"} |-> h[s]]
      BY <2>2, <2>3 DEF SideType
    <3> HIDE DEF h
    <3>4. h.running \in BOOLEAN BY <2>4, Zenon
    <3>5. h.flags \in SUBSET Bits /\ h.addr \in Nat /\ h.frames \in Nat /\ h.int \in BOOLEAN
      BY <2>4, <2>5, <3>1, <3>2
    <3> QED BY <3>3, <3>4, <3>5 DEF SideType
  <2> HIDE DEF h
  <2>7. StreamEnd(h, d, k) = StreamEnd(e, d, k) + FrameSize[d]
    <3>1. PICK F \in Nat, x \in Nat : F = FrameSize[d] /\ x = (k - 1) * Total(d)
      <4>1. PICK i \in Nat : i = k - 1 BY <2>1
      <4>2. i * Total(d) \in Nat BY Sizes, Times
      <4> QED BY <4>1, <4>2, Sizes
    <3>2. StreamEnd(e, d, k) = x BY <1>2, <3>1 DEF StreamEnd
    <3>3. (0 + 1) * F = F BY Z3
    <3>4. StreamEnd(h, d, k) = x + F BY <2>4, <3>1, <3>3 DEF StreamEnd
    <3> QED BY <3>1, <3>2, <3>4
  <2>8. h.frames \in 0..(NumFrames[d] - 1) BY <2>4, Sizes
  <2>9. NewFrame(e, h, d, k) BY <2>4, <2>5, <2>6, <2>7, <2>8 DEF NewFrame
  <2>10. "start" \notin h.flags BY <2>4
  <2> QED BY <1>2, <2>1, <2>9, <2>10 DEF SideStep, h
<1> QED BY <1>1, <1>2 DEF SideOK, SideType

\* tick() clears an interrupt.
LEMMA ClearIntStep ==
  ASSUME NEW d \in Dirs, NEW k \in Nat, NEW e, SideOK(e, d, k)
  PROVE  /\ Restated(e, k, ClearInt(e), k, d) /\ ClearInt(e).flags = e.flags
         /\ ClearInt(e).running = e.running /\ ClearInt(e).frames = e.frames
<1> DEFINE h == ClearInt(e)
<1>1. e \in SideType BY DEF SideOK
<1>2. h \in SideType BY <1>1 DEF ClearInt, SideType
<1>3. /\ h.flags = e.flags /\ h.running = e.running /\ h.addr = e.addr
      /\ h.frames = e.frames /\ h.fifo = e.fifo
  BY <1>1 DEF ClearInt, SideType
<1> HIDE DEF h
<1>4. SideOK(h, d, k) /\ StreamEnd(h, d, k) = StreamEnd(e, d, k)
  BY <1>2, <1>3 DEF SideOK, StreamEnd
<1> QED BY <1>3, <1>4 DEF Restated, h

\* tick() counts a frame that has ended: the next one starts, unless it was the
\* last.
LEMMA EndFrameStep ==
  ASSUME NEW d \in Dirs, NEW k \in 0..MaxStarts, NEW e, SideOK(e, d, k),
         "start" \notin e.flags
  PROVE  LET h == EndFrame(e, d)
         IN  /\ SideStep(e, h, d, k) /\ "start" \notin h.flags
             /\ ~e.running => ~h.running
             /\ FrameEnds(e) /\ e.frames + 1 >= NumFrames[d] => ~h.running
<1> DEFINE h == EndFrame(e, d)
<1>1. CASE ~FrameEnds(e)
  <2>1. h = e BY <1>1 DEF EndFrame
  <2> HIDE DEF h
  <2> QED BY <1>1, <2>1 DEF SideStep, Restated, h
<1>2. CASE FrameEnds(e)
  <2>1. /\ e.running /\ e.fifo.pending = <<>> /\ e.fifo.nextAddr = e.fifo.endAddr
        /\ AtRest(e.fifo)
    BY <1>2 DEF FrameEnds, IsActive, AtEndOfBlock, AtRest
  <2>2. e \in SideType /\ e.flags \in SUBSET Bits /\ e.frames \in Nat /\ e.int \in BOOLEAN
        /\ e.addr \in Nat
    BY DEF SideOK, SideType
  <2>3. k \in 1..MaxStarts /\ e.addr = Register(k)[d] BY <2>1, Sizes DEF SideOK
  <2>4. PICK N \in Nat, F \in Nat, T \in Nat :
          N = NumFrames[d] /\ N >= 1 /\ F = FrameSize[d] /\ T = Total(d)
    BY Sizes
  <2>5. PICK n \in Nat : n = e.frames + 1 BY <2>2
  <2>6. LastFrame(e.frames + 1, d) <=> n >= N BY <2>4, <2>5 DEF LastFrame
  <2>7. PICK X \in SUBSET {"int"}, Y \in SUBSET {"running"}, z \in BOOLEAN :
          /\ h.flags = (e.flags \cup X) \ Y /\ (Y = {"running"} <=> n >= N)
          /\ h.int = z
    <3> DEFINE R == IntFrames[d] # 0 /\ (e.frames + 1) % IntFrames[d] = 0
               L == LastFrame(e.frames + 1, d)
    <3>1. h.flags = (e.flags \cup (IF R THEN {"int"} ELSE {})) \ (IF L THEN {"running"} ELSE {})
      BY <1>2, <2>2 DEF EndFrame, SideType
    <3>2. h.int = (e.int \/ R) BY <1>2, <2>2 DEF EndFrame, SideType
    <3>3. L <=> n >= N BY <2>6
    <3>4. (e.int \/ R) \in BOOLEAN OBVIOUS
    <3> HIDE DEF R, L, h
    <3> QED BY <3>1, <3>2, <3>3, <3>4
  <2>8. /\ h.frames = n /\ (h.running <=> n < N) /\ h.addr = e.addr
        /\ h.running \in BOOLEAN
    <3>1. h.frames = e.frames + 1 /\ h.addr = e.addr BY <1>2, <2>2 DEF EndFrame, SideType
    <3>2. h.running = ~LastFrame(e.frames + 1, d) BY <1>2, <2>2 DEF EndFrame, SideType
    <3>3. ~(n >= N) <=> n < N OBVIOUS
    <3> HIDE DEF h
    <3> QED BY <2>5, <2>6, <3>1, <3>2, <3>3
  <2>9. h.fifo = IF LastFrame(e.frames + 1, d) THEN e.fifo
                 ELSE StartBlock(d, e.fifo, FrameAddr(e.addr, e.frames + 1, d))
    BY <1>2, <2>2 DEF EndFrame, SideType
  <2>10. h = [s \in {"flags", "running", "addr", "frames", "fifo", "int"} |-> h[s]]
    BY <1>2, <2>2 DEF EndFrame, SideType
  <2> HIDE DEF h
  <2>11. h.fifo \in FifoOf(Nat) => h \in SideType
    <3>1. (e.flags \cup X) \ Y \in SUBSET Bits BY <2>2 DEF Bits
    <3> QED BY <2>2, <2>7, <2>8, <2>10, <3>1 DEF SideType
  <2>12. "start" \notin h.flags BY <2>7
  <2>13. CASE n < N
    <3>1. h.fifo = StartBlock(d, e.fifo, FrameAddr(h.addr, h.frames, d))
      BY <2>4, <2>5, <2>6, <2>8, <2>9, <2>13
    <3>2. "running" \in h.flags
      <4>1. Y = {} BY <2>4, <2>7, <2>13
      <4>2. "running" \in e.flags BY <2>1 DEF SideOK
      <4> QED BY <2>7, <4>1, <4>2
    <3>3. StreamEnd(h, d, k) = StreamEnd(e, d, k) + FrameSize[d]
      <4>1. PICK i \in Nat : i = k - 1 BY <2>3
      <4>2. PICK x \in Nat, y \in Nat : x = i * T /\ y = n * F BY Times
      <4>3. (n + 1) * F = y + F BY <4>2, Times
      <4>4. StreamEnd(e, d, k) = x + y BY <2>1, <2>4, <2>5, <4>1, <4>2 DEF StreamEnd
      <4>5. StreamEnd(h, d, k) = x + (y + F)
        BY <2>4, <2>8, <2>13, <4>1, <4>2, <4>3 DEF StreamEnd
      <4> QED BY <2>4, <4>4, <4>5
    <3>4. h.frames \in 0..(NumFrames[d] - 1) BY <2>4, <2>8, <2>13
    <3>5. h.addr = Register(k)[d] /\ h.running BY <2>3, <2>8, <2>13
    <3>6. NewFrame(e, h, d, k) BY <2>11, <2>12, <3>1, <3>2, <3>3, <3>4, <3>5 DEF NewFrame
    <3> QED BY <2>1, <2>3, <2>4, <2>5, <2>12, <2>13, <3>6 DEF SideStep, h
  <2>14. CASE n >= N
    <3>1. h.fifo = e.fifo BY <2>6, <2>9, <2>14
    <3>2. ~h.running /\ "running" \notin h.flags BY <2>4, <2>7, <2>8, <2>14
    <3>3. e.fifo \in FifoOf(Nat) BY <2>2 DEF SideType
    <3>4. SideOK(h, d, k) BY <2>1, <2>11, <2>12, <3>1, <3>2, <3>3 DEF SideOK
    <3>5. k \in Nat BY <2>3
    <3>6. StreamEnd(e, d, k) = k * Total(d)
      <4>1. e.frames + 1 >= NumFrames[d] BY <2>4, <2>5, <2>14
      <4> QED BY <2>1, <3>5, <4>1, SideNumbers
    <3>7. StreamEnd(h, d, k) = k * Total(d) BY <2>12, <3>2 DEF StreamEnd
    <3> QED BY <2>1, <2>12, <3>1, <3>2, <3>4, <3>6, <3>7 DEF SideStep, Restated, h
  <2> QED BY <2>4, <2>13, <2>14
<1> QED BY <1>1, <1>2

\* Nothing moves in the stream when a direction only changes its flags.
LEMMA ReadRestated ==
  ASSUME NEW k \in Nat, NEW n \in Nat, NEW e, ReadSide(e, k), NEW h, Restated(e, k, h, n, "rd")
  PROVE  ReadSteps(e, k, h, n)
<1>1. SideOK(h, "rd", n) /\ h.fifo = e.fifo /\ StreamEnd(h, "rd", n) = StreamEnd(e, "rd", k)
  BY DEF Restated
<1>2. Origin(h, "rd", n) = Origin(e, "rd", k) BY <1>1 DEF Origin
<1>3. ReadSide(h, n) BY <1>1, <1>2 DEF ReadSide
<1>4. ReadNext(h, n) = ReadNext(e, k) BY <1>1, <1>2 DEF ReadNext
<1>5. Len(e.fifo.buffer) \in Nat
  <2>1. SideOK(e, "rd", k) /\ "rd" \in Dirs BY DEF ReadSide, Dirs
  <2> QED BY <2>1, SideNumbers
<1> QED BY <1>1, <1>3, <1>4, <1>5 DEF ReadSteps

\* The same for the write direction, whose bytes stay where they are.
LEMMA WriteRestated ==
  ASSUME NEW k \in Nat, NEW n \in Nat, NEW e, WriteSide(e, k), NEW h,
         Restated(e, k, h, n, "wr"), NEW M, Landed(e, k, M)
  PROVE  WriteSteps(e, k, h, n) /\ Landed(h, n, M)
<1>1. SideOK(h, "wr", n) /\ h.fifo = e.fifo /\ StreamEnd(h, "wr", n) = StreamEnd(e, "wr", k)
  BY DEF Restated
<1>2. Origin(h, "wr", n) = Origin(e, "wr", k) BY <1>1 DEF Origin
<1>3. WriteSide(h, n) BY <1>1, <1>2 DEF WriteSide
<1>4. WriteNext(h, n) = WriteNext(e, k) BY <1>1, <1>2 DEF WriteNext
<1>5. Len(e.fifo.buffer) \in Nat
  <2>1. SideOK(e, "wr", k) /\ "wr" \in Dirs BY DEF WriteSide, Dirs
  <2> QED BY <2>1, SideNumbers
<1>6. StreamNext(h, "wr", n) = StreamNext(e, "wr", k) BY <1>1 DEF StreamNext
<1>7. Landed(h, n, M) BY <1>1, <1>6 DEF Landed
<1> QED BY <1>1, <1>3, <1>4, <1>5, <1>7 DEF WriteSteps

\* Steps of the read direction add up.
LEMMA ReadStepsOn ==
  ASSUME NEW k \in Nat, NEW e, ReadSide(e, k), NEW g, ReadSteps(e, k, g, k),
         NEW h, ReadSteps(g, k, h, k)
  PROVE  ReadSteps(e, k, h, k)
<1>1. "rd" \in Dirs /\ SideOK(e, "rd", k) /\ SideOK(g, "rd", k) /\ SideOK(h, "rd", k)
  BY DEF ReadSide, ReadSteps, Dirs
<1>2. /\ Len(e.fifo.buffer) \in Nat /\ Len(g.fifo.buffer) \in Nat /\ Len(h.fifo.buffer) \in Nat
  BY <1>1, SideNumbers
<1>3. /\ Len(e.fifo.buffer) <= Len(g.fifo.buffer) /\ Len(g.fifo.buffer) <= Len(h.fifo.buffer)
      /\ ReadNext(g, k) = ReadNext(e, k) /\ ReadNext(h, k) = ReadNext(g, k) /\ ReadSide(h, k)
  BY DEF ReadSteps
<1> QED BY <1>2, <1>3 DEF ReadSteps

\* Steps of the write direction add up.
LEMMA WriteStepsOn ==
  ASSUME NEW k \in Nat, NEW e, WriteSide(e, k), NEW g, WriteSteps(e, k, g, k),
         NEW h, WriteSteps(g, k, h, k)
  PROVE  WriteSteps(e, k, h, k)
<1>1. "wr" \in Dirs /\ SideOK(e, "wr", k) /\ SideOK(g, "wr", k) /\ SideOK(h, "wr", k)
  BY DEF WriteSide, WriteSteps, Dirs
<1>2. /\ Len(e.fifo.buffer) \in Nat /\ Len(g.fifo.buffer) \in Nat /\ Len(h.fifo.buffer) \in Nat
  BY <1>1, SideNumbers
<1>3. /\ Len(g.fifo.buffer) <= Len(e.fifo.buffer) /\ Len(h.fifo.buffer) <= Len(g.fifo.buffer)
      /\ WriteNext(g, k) = WriteNext(e, k) /\ WriteNext(h, k) = WriteNext(g, k)
      /\ WriteSide(h, k)
  BY DEF WriteSteps
<1> QED BY <1>2, <1>3 DEF WriteSteps

\* tick() of direction d.
TickSide(e, d, k) == EndFrame(ClearInt(StartSide(e, d, Register(k)[d])), d)

\* tick() moves no byte of the read direction in the stream, and stops it once
\* all of them have been given.
LEMMA TickRead ==
  ASSUME NEW k \in 0..MaxStarts, NEW e, ReadSide(e, k)
  PROVE  LET h == TickSide(e, "rd", k)
         IN  /\ ReadSteps(e, k, h, k) /\ "start" \notin h.flags
             /\ k * Total("rd") <= ReadNext(e, k) => ~h.running
<1> DEFINE f == StartSide(e, "rd", Register(k)["rd"])
           g == ClearInt(f)
           h == EndFrame(g, "rd")
<1>0. k \in Nat /\ "rd" \in Dirs BY Sizes DEF Dirs
<1>1. SideOK(e, "rd", k) BY DEF ReadSide
<1>2. SideStep(e, f, "rd", k) /\ "start" \notin f.flags BY <1>0, <1>1, StartSideStep
<1> HIDE DEF f
<1>3. ReadSteps(e, k, f, k)
  <2>1. CASE Restated(e, k, f, k, "rd") BY <1>0, <2>1, ReadRestated
  <2>2. CASE k \in 1..MaxStarts /\ AtRest(e.fifo) /\ NewFrame(e, f, "rd", k)
    BY <2>2, ReadFrame
  <2> QED BY <1>2, <2>1, <2>2 DEF SideStep
<1>4. ReadSide(f, k) /\ SideOK(f, "rd", k) BY <1>3 DEF ReadSteps, ReadSide
<1>5. Restated(f, k, g, k, "rd") /\ g.flags = f.flags BY <1>0, <1>4, ClearIntStep
<1> HIDE DEF g
<1>6. ReadSteps(f, k, g, k) BY <1>0, <1>4, <1>5, ReadRestated
<1>7. ReadSide(g, k) /\ SideOK(g, "rd", k) /\ "start" \notin g.flags
  BY <1>2, <1>5, <1>6 DEF ReadSteps, ReadSide
<1>8. /\ SideStep(g, h, "rd", k) /\ "start" \notin h.flags /\ (~g.running => ~h.running)
      /\ (FrameEnds(g) /\ g.frames + 1 >= NumFrames["rd"] => ~h.running)
  BY <1>0, <1>7, EndFrameStep
<1> HIDE DEF h
<1>9. ReadSteps(g, k, h, k)
  <2>1. CASE Restated(g, k, h, k, "rd") BY <1>0, <1>7, <2>1, ReadRestated
  <2>2. CASE k \in 1..MaxStarts /\ AtRest(g.fifo) /\ NewFrame(g, h, "rd", k)
    BY <1>7, <2>2, ReadFrame
  <2> QED BY <1>8, <2>1, <2>2 DEF SideStep
<1>10. ReadSteps(e, k, g, k) BY <1>0, <1>3, <1>6, ReadStepsOn
<1>11. ReadSteps(e, k, h, k) BY <1>0, <1>9, <1>10, ReadStepsOn
<1>12. ASSUME k * Total("rd") <= ReadNext(e, k) PROVE ~h.running
  <2>1. SUFFICES ASSUME g.running PROVE ~h.running BY <1>8
  <2>2. g.fifo \in FifoOf(Nat) /\ Shape(g.fifo) BY <1>7 DEF ReadSide, GoodRead
  <2>3. PICK m \in Nat, t \in Nat, b \in Int, x \in Nat, y \in Nat :
          /\ m = StreamEnd(g, "rd", k) /\ t = k * Total("rd") /\ b = Origin(g, "rd", k)
          /\ x = g.fifo.nextAddr /\ y = g.fifo.endAddr /\ m <= t /\ m = y - b
          /\ (m = t => g.frames + 1 >= NumFrames["rd"])
    BY <1>0, <1>7, <2>1, SideNumbers, SMTT(30)
  <2>4. PICK p \in Int, l \in Nat, s \in Nat :
          /\ p = ReadPos(g.fifo) /\ l = Len(g.fifo.buffer) /\ s = SizePending(g.fifo)
          /\ p + l + s = x /\ x <= y
    BY <2>2, <2>3, ReadNumbers
  <2>5. t <= p - b
    <3>1. ReadNext(g, k) = ReadNext(e, k) BY <1>10 DEF ReadSteps
    <3> QED BY <1>12, <2>3, <2>4, <3>1 DEF ReadNext
  <2>6. s = 0 /\ x = y /\ m = t
    <3>1. m <= t /\ m = y - b BY <2>3
    <3>2. p + l + s = x /\ x <= y BY <2>4
    <3>3. y <= p BY <2>5, <3>1
    <3> QED BY <2>5, <3>1, <3>2, <3>3
  <2>7. g.fifo.pending = <<>> BY <2>2, <2>4, <2>6, PendingBytes
  <2>8. FrameEnds(g) BY <2>1, <2>3, <2>6, <2>7 DEF FrameEnds, IsActive, AtEndOfBlock
  <2> QED BY <1>8, <2>3, <2>6, <2>8
<1> QED BY <1>8, <1>11, <1>12 DEF TickSide, h, g, f

\* tick() moves no byte of the write direction in the stream, leaves what was
\* written, and starts nothing of its own.
LEMMA TickWrite ==
  ASSUME NEW k \in 0..MaxStarts, NEW e, WriteSide(e, k), NEW M, Landed(e, k, M)
  PROVE  LET h == TickSide(e, "wr", k)
         IN  /\ WriteSteps(e, k, h, k) /\ "start" \notin h.flags /\ Landed(h, k, M)
             /\ ~e.running /\ "start" \notin e.flags => ~h.running
<1> DEFINE f == StartSide(e, "wr", Register(k)["wr"])
           g == ClearInt(f)
           h == EndFrame(g, "wr")
<1>0. k \in Nat /\ "wr" \in Dirs BY Sizes DEF Dirs
<1>1. SideOK(e, "wr", k) BY DEF WriteSide
<1>2. SideStep(e, f, "wr", k) /\ "start" \notin f.flags /\ ("start" \notin e.flags => f = e)
  BY <1>0, <1>1, StartSideStep
<1> HIDE DEF f
<1>3. WriteSteps(e, k, f, k) /\ Landed(f, k, M)
  <2>1. CASE Restated(e, k, f, k, "wr") BY <1>0, <2>1, WriteRestated
  <2>2. CASE k \in 1..MaxStarts /\ AtRest(e.fifo) /\ NewFrame(e, f, "wr", k)
    BY <2>2, WriteFrame
  <2> QED BY <1>2, <2>1, <2>2 DEF SideStep
<1>4. WriteSide(f, k) /\ SideOK(f, "wr", k) BY <1>3 DEF WriteSteps, WriteSide
<1>5. Restated(f, k, g, k, "wr") /\ g.flags = f.flags /\ g.running = f.running
  BY <1>0, <1>4, ClearIntStep
<1> HIDE DEF g
<1>6. WriteSteps(f, k, g, k) /\ Landed(g, k, M) BY <1>0, <1>3, <1>4, <1>5, WriteRestated
<1>7. WriteSide(g, k) /\ SideOK(g, "wr", k) /\ "start" \notin g.flags
  BY <1>2, <1>5, <1>6 DEF WriteSteps, WriteSide
<1>8. /\ SideStep(g, h, "wr", k) /\ "start" \notin h.flags /\ (~g.running => ~h.running)
  BY <1>0, <1>7, EndFrameStep
<1> HIDE DEF h
<1>9. WriteSteps(g, k, h, k) /\ Landed(h, k, M)
  <2>1. CASE Restated(g, k, h, k, "wr") BY <1>0, <1>6, <1>7, <2>1, WriteRestated
  <2>2. CASE k \in 1..MaxStarts /\ AtRest(g.fifo) /\ NewFrame(g, h, "wr", k)
    BY <1>6, <1>7, <2>2, WriteFrame
  <2> QED BY <1>8, <2>1, <2>2 DEF SideStep
<1>10. WriteSteps(e, k, g, k) BY <1>0, <1>3, <1>6, WriteStepsOn
<1>11. WriteSteps(e, k, h, k) BY <1>0, <1>9, <1>10, WriteStepsOn
<1>12. ~e.running /\ "start" \notin e.flags => ~h.running BY <1>2, <1>5, <1>8
<1> QED BY <1>8, <1>9, <1>11, <1>12 DEF TickSide, h, g, f

(***************************************************************************)
(* Pieces of the stream                                                    *)
(***************************************************************************)

\* Two pieces, one after the other, are a piece.
LEMMA AtJoin ==
  ASSUME NEW o \in Nat, NEW s, NEW t, At(s, o), At(t, o + Len(s))
  PROVE  At(s \o t, o) /\ Len(s \o t) = Len(s) + Len(t)
<1>1. s \in Seq(Nat) /\ t \in Seq(Nat) BY DEF At
<1>2. PICK l \in Nat, m \in Nat : l = Len(s) /\ m = Len(t) BY <1>1
<1>3. PICK u : u = s \o t OBVIOUS
<1>4. /\ u \in Seq(Nat) /\ Len(u) = l + m
      /\ \A i \in 1..l : u[i] = s[i]
      /\ \A i \in 1..(l + m) : i > l => i - l \in 1..m /\ u[i] = t[i - l]
  BY <1>1, <1>2, <1>3, Joined
<1>5. ASSUME NEW j \in 1..(l + m) PROVE u[j] = Source[o + j - 1]
  <2>1. CASE j <= l
    <3>1. j \in 1..l BY <2>1
    <3> QED BY <1>2, <1>4, <3>1 DEF At
  <2>2. CASE j > l
    <3>1. PICK i \in 1..m : i = j - l /\ u[j] = t[i] BY <1>4, <2>2
    <3>2. t[i] = Source[(o + l) + i - 1] BY <1>2 DEF At
    <3>3. (o + l) + i - 1 = o + j - 1 BY <3>1
    <3> QED BY <3>1, <3>2, <3>3
  <2> QED BY <2>1, <2>2
<1>6. At(u, o) BY <1>4, <1>5 DEF At
<1> QED BY <1>2, <1>3, <1>4, <1>6

\* The parts of a piece are pieces.
LEMMA AtSplit ==
  ASSUME NEW o \in Nat, NEW s, At(s, o), NEW n \in Nat, n <= Len(s)
  PROVE  /\ At(SubSeq(s, 1, n), o) /\ Len(SubSeq(s, 1, n)) = n
         /\ At(SubSeq(s, n + 1, Len(s)), o + n)
         /\ Len(SubSeq(s, n + 1, Len(s))) = Len(s) - n
<1>1. s \in Seq(Nat) BY DEF At
<1>2. PICK l \in Nat : l = Len(s) /\ n <= l BY <1>1
<1>3. PICK u, v : u = SubSeq(s, 1, n) /\ v = SubSeq(s, n + 1, l) OBVIOUS
<1>4. /\ u \in Seq(Nat) /\ Len(u) = n /\ \A j \in 1..n : u[j] = s[j]
  BY <1>1, <1>2, <1>3
<1>5. /\ v \in Seq(Nat) /\ Len(v) = l - n /\ \A j \in 1..(l - n) : v[j] = s[n + j]
  <2>1. v \in Seq(Nat) /\ Len(v) = l - n BY <1>1, <1>2, <1>3
  <2>2. ASSUME NEW j \in 1..(l - n) PROVE v[j] = s[n + j] BY <1>1, <1>2, <1>3
  <2> QED BY <2>1, <2>2
<1>6. At(u, o) BY <1>2, <1>4 DEF At
<1>7. At(v, o + n)
  <2>1. ASSUME NEW j \in 1..(l - n) PROVE v[j] = Source[(o + n) + j - 1]
    <3>1. n + j \in 1..l BY <1>2
    <3>2. s[n + j] = Source[o + (n + j) - 1] BY <1>2, <3>1 DEF At
    <3>3. o + (n + j) - 1 = (o + n) + j - 1 OBVIOUS
    <3> QED BY <1>5, <3>2, <3>3
  <2> QED BY <1>5, <2>1 DEF At
<1> QED BY <1>2, <1>3, <1>4, <1>5, <1>6, <1>7

\* Lengths and ends of what is in and around a stage.
LEMMA StageNumbers ==
  ASSUME NEW lo \in Nat, NEW hi, NEW c, NEW o, NEW h, NEW i, StageOK(c, o, h, i, lo, hi)
  PROVE  /\ Len(c) \in Nat /\ Len(o) \in Nat /\ Len(h) \in Nat /\ Len(i) \in Nat
         /\ hi \in Nat /\ lo + Len(c) <= hi
         /\ lo + Len(c) \in Nat /\ lo + Len(c) + Len(o) \in Nat
         /\ lo + Len(c) + Len(o) + Len(h) \in Nat
<1>1. c \in Seq(Nat) /\ o \in Seq(Nat) /\ h \in Seq(Nat) /\ i \in Seq(Nat)
  BY DEF StageOK, At
<1>2. PICK x \in Nat, y \in Nat, z \in Nat, w \in Nat :
        x = Len(c) /\ y = Len(o) /\ z = Len(h) /\ w = Len(i)
  BY <1>1
<1>3. hi = lo + x + y + z + w BY <1>2 DEF StageOK
<1> QED BY <1>2, <1>3

\* The answer of a read packet: its bytes are the stage's.
LEMMA StageAnswers ==
  ASSUME NEW lo \in Nat, NEW hi, NEW c, NEW o, NEW h, NEW i, StageOK(c, o, h, i, lo, hi)
  PROVE  StageOK(c, o, h \o i, <<>>, lo, hi)
<1>1. /\ Len(c) \in Nat /\ Len(o) \in Nat /\ Len(h) \in Nat /\ Len(i) \in Nat
      /\ lo + Len(c) + Len(o) \in Nat
  BY StageNumbers
<1>2. At(h \o i, lo + Len(c) + Len(o)) /\ Len(h \o i) = Len(h) + Len(i)
  BY <1>1, AtJoin DEF StageOK
<1>3. At(<<>>, lo + Len(c) + Len(o) + Len(h \o i)) /\ Len(<<>>) = 0 BY DEF At
<1>4. hi = lo + Len(c) + Len(o) + Len(h \o i) + Len(<<>>)
  BY <1>1, <1>2, <1>3 DEF StageOK
<1> QED BY <1>2, <1>3, <1>4 DEF StageOK

\* A read packet is taken: its port holds the next bytes of the stream.
LEMMA StageReads ==
  ASSUME NEW lo \in Nat, NEW hi, NEW c, NEW o, NEW h, StageOK(c, o, h, <<>>, lo, hi),
         NEW i, At(i, hi)
  PROVE  StageOK(c, o, h, i, lo, hi + Len(i))
<1>1. /\ Len(c) \in Nat /\ Len(o) \in Nat /\ Len(h) \in Nat
  BY StageNumbers
<1>2. hi = lo + Len(c) + Len(o) + Len(h) BY <1>1 DEF StageOK
<1> QED BY <1>2 DEF StageOK

\* The first n bytes of the channel are taken out.
LEMMA StageDrains ==
  ASSUME NEW lo \in Nat, NEW hi, NEW c, NEW o, NEW h, NEW i, StageOK(c, o, h, i, lo, hi),
         NEW n \in Nat, n <= Len(c)
  PROVE  /\ At(SubSeq(c, 1, n), lo) /\ Len(SubSeq(c, 1, n)) = n
         /\ StageOK(SubSeq(c, n + 1, Len(c)), o, h, i, lo + n, hi)
<1>1. Len(c) \in Nat /\ At(c, lo) BY StageNumbers DEF StageOK
<1>2. PICK v : v = SubSeq(c, n + 1, Len(c)) OBVIOUS
<1>3. /\ At(SubSeq(c, 1, n), lo) /\ Len(SubSeq(c, 1, n)) = n
      /\ At(v, lo + n) /\ Len(v) = Len(c) - n
  BY <1>1, <1>2, AtSplit
<1>4. (lo + n) + Len(v) = lo + Len(c) BY <1>1, <1>3
<1>5. StageOK(v, o, h, i, lo + n, hi) BY <1>3, <1>4 DEF StageOK
<1> QED BY <1>2, <1>3, <1>5

\* A write packet is made of the first n bytes of the stage.
LEMMA StageOffers ==
  ASSUME NEW lo \in Nat, NEW hi, NEW c, NEW h, NEW i, StageOK(c, <<>>, h, i, lo, hi),
         NEW n \in Nat, n <= Len(h)
  PROVE  StageOK(c, SubSeq(h, 1, n), SubSeq(h, n + 1, Len(h)), i, lo, hi)
<1>1. /\ Len(c) \in Nat /\ Len(h) \in Nat /\ Len(i) \in Nat /\ Len(<<>>) = 0 BY StageNumbers
<1>2. PICK a \in Nat : a = lo + Len(c) BY <1>1
<1>3. At(h, a) /\ hi = a + Len(h) + Len(i) /\ At(i, a + Len(h)) /\ At(c, lo)
  BY <1>1, <1>2 DEF StageOK
<1>4. PICK u, v : u = SubSeq(h, 1, n) /\ v = SubSeq(h, n + 1, Len(h)) OBVIOUS
<1>5. At(u, a) /\ Len(u) = n /\ At(v, a + n) /\ Len(v) = Len(h) - n
  BY <1>3, <1>4, AtSplit
<1>6. a + Len(u) + Len(v) = a + Len(h) BY <1>1, <1>5
<1>7. StageOK(c, u, v, i, lo, hi) BY <1>2, <1>3, <1>5, <1>6 DEF StageOK
<1> QED BY <1>4, <1>7

\* The channel and the packet to it change, but not where the stage begins.
LEMMA StageRejoins ==
  ASSUME NEW lo \in Nat, NEW hi, NEW c, NEW o, NEW h, NEW i, StageOK(c, o, h, i, lo, hi),
         NEW lo2 \in Nat, NEW c2, At(c2, lo2), NEW o2, At(o2, lo2 + Len(c2)),
         lo2 + Len(c2) + Len(o2) = lo + Len(c) + Len(o)
  PROVE  StageOK(c2, o2, h, i, lo2, hi)
BY DEF StageOK

\* A write packet is taken: its bytes follow those of the channel.
LEMMA StageWrites ==
  ASSUME NEW lo \in Nat, NEW hi, NEW c, NEW o, NEW h, NEW i, StageOK(c, o, h, i, lo, hi)
  PROVE  StageOK(c \o o, <<>>, h, i, lo, hi)
<1>1. Len(c) \in Nat /\ Len(o) \in Nat /\ Len(<<>>) = 0 BY StageNumbers
<1>2. PICK u : u = c \o o OBVIOUS
<1>3. At(u, lo) /\ Len(u) = Len(c) + Len(o) BY <1>2, AtJoin DEF StageOK
<1>4. At(<<>>, lo + Len(u)) BY <1>1 DEF At
<1>5. lo + Len(u) + Len(<<>>) = lo + Len(c) + Len(o) BY <1>1, <1>3
<1>6. StageOK(u, <<>>, h, i, lo, hi) BY <1>3, <1>4, <1>5, StageRejoins
<1> QED BY <1>2, <1>6

\* The channels lie in the stream in their order.
LEMMA Ordered ==
  ASSUME NEW pos \in [0..Stages -> Nat], \A i \in 1..Stages : pos[i] <= pos[i - 1]
  PROVE  \A i \in 1..Stages : pos[i] <= pos[0]
<1> DEFINE S == {i \in 1..Stages : pos[i] <= pos[0]}
<1>1. Stages \in Nat BY PipelineAssumption
<1>2. ASSUME NEW i \in 1..Stages, (1..(i - 1)) \subseteq S PROVE i \in S
  <2>1. i - 1 \in 0..Stages /\ i \in 0..Stages /\ 0 \in 0..Stages BY <1>1
  <2>2. PICK x \in Nat, y \in Nat, z \in Nat : x = pos[i] /\ y = pos[i - 1] /\ z = pos[0]
    BY <2>1
  <2>3. y <= z
    <3>1. CASE i = 1 BY <2>2, <3>1
    <3>2. CASE i # 1
      <4>1. i - 1 \in 1..(i - 1) BY <1>1, <3>2
      <4> QED BY <1>2, <2>2, <4>1
    <3> QED BY <3>1, <3>2
  <2>4. x <= y BY <2>2
  <2> QED BY <2>2, <2>3, <2>4
<1>3. S \in SUBSET (1..Stages) OBVIOUS
<1> HIDE DEF S
<1>4. S = 1..Stages BY <1>1, <1>2, <1>3, GoRound
<1> QED BY <1>4 DEF S

\* The bytes in the read FIFO are a piece of the stream that ends where its
\* requests begin.
LEMMA ReadHolds ==
  ASSUME NEW k \in Nat, NEW e, ReadSide(e, k)
  PROVE  /\ ReadNext(e, k) \in Nat /\ At(e.fifo.buffer, ReadNext(e, k))
         /\ Len(e.fifo.buffer) \in Nat /\ SizePending(e.fifo) \in Nat
         /\ ReadNext(e, k) + Len(e.fifo.buffer) + SizePending(e.fifo) = StreamNext(e, "rd", k)
         /\ Len(e.fifo.buffer) + SizePending(e.fifo) <= FifoSize
         /\ StreamNext(e, "rd", k) <= StreamEnd(e, "rd", k)
<1>1. "rd" \in Dirs /\ SideOK(e, "rd", k) BY DEF ReadSide, Dirs
<1>2. PICK m \in Nat, b \in Int : m = StreamEnd(e, "rd", k) /\ b = Origin(e, "rd", k)
  BY <1>1, SideNumbers
<1>3. /\ GoodRead(Nat, Source, m, b, e.fifo) /\ e.fifo \in FifoOf(Nat) /\ Shape(e.fifo)
  BY <1>2 DEF ReadSide, GoodRead
<1>4. PICK p \in Int, l \in Nat, s \in Nat, x \in Nat :
        /\ p = ReadPos(e.fifo) /\ l = Len(e.fifo.buffer) /\ s = SizePending(e.fifo)
        /\ x = e.fifo.nextAddr /\ p + l + s = x
  <2>1. /\ ReadPos(e.fifo) \in Int /\ Len(e.fifo.buffer) \in Nat /\ SizePending(e.fifo) \in Nat
        /\ ReadPos(e.fifo) + Len(e.fifo.buffer) + SizePending(e.fifo) = e.fifo.nextAddr
        /\ e.fifo.nextAddr \in Nat
    BY <1>3, ReadNumbers
  <2> QED BY <2>1
<1>5. e.fifo.buffer \in Seq(Nat) /\ x <= e.fifo.endAddr BY <1>3, <1>4, ReadNumbers
<1>6. b <= p /\ l + s <= FifoSize BY <1>3, <1>4 DEF GoodRead
<1>7. PICK r \in Nat : r = p - b /\ ReadNext(e, k) = r BY <1>2, <1>4, <1>6 DEF ReadNext
<1>8. At(e.fifo.buffer, r)
  <2>1. ASSUME NEW j \in 1..l PROVE e.fifo.buffer[j] = Source[r + j - 1]
    <3>1. e.fifo.buffer[j] = Source[p - b + j - 1] BY <1>3, <1>4 DEF GoodRead
    <3> QED BY <1>7, <3>1
  <2> QED BY <1>4, <1>5, <2>1 DEF At
<1>9. StreamNext(e, "rd", k) = x - b /\ m = e.fifo.endAddr - b /\ e.fifo.endAddr \in Nat
  BY <1>1, <1>2, <1>4, SideNumbers, SMTT(30)
<1>10. r + l + s = x - b /\ x - b <= m
  <2>1. PICK y \in Nat : y = e.fifo.endAddr BY <1>9
  <2>2. m = y - b /\ x <= y BY <1>5, <1>9, <2>1
  <2>3. p + l + s = x /\ r = p - b BY <1>4, <1>7
  <2> QED BY <2>2, <2>3
<1> QED BY <1>2, <1>4, <1>6, <1>7, <1>8, <1>9, <1>10

\* The bytes in the write FIFO are a piece of the stream that begins where its
\* requests end.
LEMMA WriteHolds ==
  ASSUME NEW k \in Nat, NEW e, WriteSide(e, k)
  PROVE  /\ StreamNext(e, "wr", k) \in Nat /\ At(e.fifo.buffer, StreamNext(e, "wr", k))
         /\ Len(e.fifo.buffer) \in Nat /\ Len(e.fifo.buffer) <= FifoSize
         /\ StreamNext(e, "wr", k) + Len(e.fifo.buffer) = WriteNext(e, k)
<1>1. "wr" \in Dirs /\ SideOK(e, "wr", k) BY DEF WriteSide, Dirs
<1>2. PICK b \in Int, x \in Nat, l \in Nat :
        b = Origin(e, "wr", k) /\ x = e.fifo.nextAddr /\ l = Len(e.fifo.buffer)
  BY <1>1, SideNumbers
<1>3. /\ Emptying(Nat, Source, b, e.fifo) /\ b <= x /\ l <= FifoSize
  BY <1>2 DEF WriteSide, Emptying
<1>4. PICK s \in Nat : s = x - b /\ StreamNext(e, "wr", k) = s
  <2>1. StreamNext(e, "wr", k) = e.fifo.nextAddr - Origin(e, "wr", k) BY <1>1, SideNumbers
  <2> QED BY <1>2, <1>3, <2>1
<1>5. At(e.fifo.buffer, s)
  <2>1. ASSUME NEW j \in 1..l PROVE e.fifo.buffer[j] = Source[s + j - 1]
    <3>1. e.fifo.buffer[j] = Source[x - b + j - 1] BY <1>2, <1>3 DEF Emptying
    <3> QED BY <1>4, <3>1
  <2>2. e.fifo.buffer \in Seq(Nat) BY <1>1, SideNumbers
  <2> QED BY <1>2, <2>1, <2>2 DEF At
<1>6. WriteNext(e, k) = (x + l) - b BY <1>2 DEF WriteNext, WritePos
<1> QED BY <1>2, <1>3, <1>4, <1>5, <1>6

(***************************************************************************)
(* The steps of the engine, the host and the memory                        *)
(***************************************************************************)

\* A step of the engine alone leaves the bytes in the accelerators in their
\* places, and takes nothing back from a packet that was refused.
LEMMA EngineStep ==
  ASSUME IInv, UNCHANGED chain, dma' \in [Dirs -> SideType], starts' \in Nat,
         ReadSteps(dma["rd"], starts, dma'["rd"], starts'),
         WriteSteps(dma["wr"], starts, dma'["wr"], starts')
  PROVE  SidesOK' /\ PortsOK' /\ ChainOK'
<1>1. PICK e, w, k : e = dma'["rd"] /\ w = dma'["wr"] /\ k = starts' OBVIOUS
<1>2. k \in Nat /\ starts \in Nat BY <1>1, Sizes DEF IInv, HostOK
<1>3. ReadSide(e, k) /\ WriteSide(w, k) BY <1>1 DEF ReadSteps, WriteSteps
<1>4. SidesOK' BY <1>1, <1>3 DEF SidesOK
<1>5. UNCHANGED <<buffer, inPort, outPort, held>> BY DEF chain
<1>6. ReadSide(dma["rd"], starts) /\ WriteSide(dma["wr"], starts) BY DEF IInv, SidesOK
<1>7. /\ Len(dma["rd"].fifo.buffer) \in Nat /\ Len(dma["wr"].fifo.buffer) \in Nat
      /\ Len(e.fifo.buffer) \in Nat /\ Len(w.fifo.buffer) \in Nat
      /\ Len(dma["rd"].fifo.buffer) <= Len(e.fifo.buffer)
      /\ Len(w.fifo.buffer) <= Len(dma["wr"].fifo.buffer)
  <2>1. Len(dma["rd"].fifo.buffer) \in Nat /\ Len(dma["wr"].fifo.buffer) \in Nat
    BY <1>2, <1>6, ReadHolds, WriteHolds
  <2>2. Len(e.fifo.buffer) \in Nat /\ Len(w.fifo.buffer) \in Nat
    BY <1>2, <1>3, ReadHolds, WriteHolds
  <2> QED BY <1>1, <2>1, <2>2 DEF ReadSteps, WriteSteps
<1>8. PortsOK'
  <2>1. PortsOK BY DEF IInv
  <2>2. ASSUME NEW i \in 1..Stages PROVE InOK(i)' /\ OutOK(i)'
    <3>1. InOK(i) /\ OutOK(i) BY <2>1 DEF PortsOK
    <3>2. InSize[i] \in Nat /\ OutSize[i] \in Nat BY PipelineAssumption
    <3>3. InValid(i) => InValid(i)'
      <4>1. CASE i = 1
        <5>1. Len(dma["rd"].fifo.buffer) >= InSize[i] => Len(dma'["rd"].fifo.buffer) >= InSize[i]
          <6>1. PICK u \in Nat, v \in Nat, n \in Nat :
                  u = Len(dma["rd"].fifo.buffer) /\ v = Len(dma'["rd"].fifo.buffer)
                  /\ n = InSize[i] /\ u <= v
            BY <1>1, <1>7, <3>2
          <6>2. u >= n => v >= n BY <6>1, SMTT(30)
          <6> QED BY <6>1, <6>2
        <5> QED BY <4>1, <5>1 DEF InValid, ValidRead
      <4>2. CASE i # 1 BY <1>5, <4>2 DEF InValid, CanReadStream
      <4> QED BY <4>1, <4>2
    <3>4. OutValid(i) => OutValid(i)'
      <4>1. FifoSize \in Nat BY FifoAssumption
      <4>2. CASE i = Stages
        <5>1. Len(dma["wr"].fifo.buffer) + OutSize[i] <= FifoSize =>
                Len(dma'["wr"].fifo.buffer) + OutSize[i] <= FifoSize
          <6>1. PICK u \in Nat, v \in Nat, n \in Nat :
                  u = Len(dma["wr"].fifo.buffer) /\ v = Len(dma'["wr"].fifo.buffer)
                  /\ n = OutSize[i] /\ v <= u
            BY <1>1, <1>7, <3>2
          <6>2. v <= u BY <6>1
          <6>3. u + n <= FifoSize => v + n <= FifoSize BY <4>1, <6>2
          <6> QED BY <6>1, <6>3
        <5> QED BY <4>2, <5>1 DEF OutValid, ValidWrite, CanFill
      <4>3. CASE i # Stages BY <1>5, <4>3 DEF OutValid, CanWriteStream
      <4> QED BY <4>2, <4>3
    <3> QED BY <1>5, <3>1, <3>3, <3>4 DEF InOK, OutOK
  <2> QED BY <1>5, <2>1, <2>2 DEF PortsOK
<1>9. ChainOK'
  <2>1. PICK pos \in [0..Stages -> Nat] : InPlace(pos) BY DEF IInv, ChainOK
  <2>2. Stages \in Nat /\ Stages >= 1 BY PipelineAssumption
  <2>3. PICK s \in Nat : s = StreamNext(w, "wr", k) /\ At(w.fifo.buffer, s)
                         /\ s + Len(w.fifo.buffer) = WriteNext(w, k)
    BY <1>2, <1>3, WriteHolds
  <2>4. pos[Stages] + Len(dma["wr"].fifo.buffer) = WriteNext(dma["wr"], starts)
    BY <1>2, <1>6, <2>1, WriteHolds DEF InPlace
  <2>5. WriteNext(w, k) = WriteNext(dma["wr"], starts) /\ ReadNext(e, k) = ReadNext(dma["rd"], starts)
    BY <1>1 DEF ReadSteps, WriteSteps
  <2> DEFINE q == [pos EXCEPT ![Stages] = s]
  <2>6. /\ q \in [0..Stages -> Nat] /\ q[Stages] = s
        /\ \A i \in 0..(Stages - 1) : q[i] = pos[i]
    BY <2>2
  <2> HIDE DEF q
  <2>7. ASSUME NEW i \in 1..Stages
        PROVE  StageOK(ChannelBytes(i)', outPort'[i].data, held'[i], inPort'[i].data, q[i], q[i - 1])
    <3>1. StageOK(ChannelBytes(i), outPort[i].data, held[i], inPort[i].data, pos[i], pos[i - 1])
      BY <2>1 DEF InPlace
    <3>2. q[i - 1] = pos[i - 1] BY <2>2, <2>6
    <3>3. CASE i # Stages
      <4>1. ChannelBytes(i)' = ChannelBytes(i) BY <1>5, <3>3 DEF ChannelBytes
      <4>2. q[i] = pos[i] BY <2>2, <2>6, <3>3
      <4> QED BY <1>5, <3>1, <3>2, <4>1, <4>2
    <3>4. CASE i = Stages
      <4>1. ChannelBytes(i)' = w.fifo.buffer /\ ChannelBytes(i) = dma["wr"].fifo.buffer
        BY <1>1, <3>4 DEF ChannelBytes
      <4>2. PICK c, o, h, x : c = ChannelBytes(i) /\ o = outPort[i].data /\ h = held[i]
                              /\ x = inPort[i].data
        OBVIOUS
      <4>3. PICK lo \in Nat, hi \in Nat : lo = pos[i] /\ hi = pos[i - 1]
        BY <2>2
      <4>4. StageOK(c, o, h, x, lo, hi) BY <3>1, <4>2, <4>3
      <4>5. s + Len(w.fifo.buffer) = lo + Len(c)
        BY <2>3, <2>4, <2>5, <3>4, <4>1, <4>2, <4>3
      <4>6. At(o, lo + Len(c)) BY <4>4 DEF StageOK
      <4>7. StageOK(w.fifo.buffer, o, h, x, s, hi)
        BY <2>3, <4>4, <4>5, <4>6, StageRejoins
      <4> QED BY <1>5, <2>6, <3>2, <3>4, <4>1, <4>2, <4>3, <4>7
    <3> QED BY <3>3, <3>4
  <2>8. q[0] = ReadNext(dma'["rd"], starts') /\ q[Stages] = StreamNext(dma'["wr"], "wr", starts')
    <3>1. 0 \in 0..(Stages - 1) BY <2>2
    <3> QED BY <1>1, <2>1, <2>3, <2>5, <2>6, <3>1 DEF InPlace
  <2>9. InPlace(q)' BY <2>7, <2>8 DEF InPlace
  <2> QED BY <2>6, <2>9 DEF ChainOK
<1> QED BY <1>4, <1>8, <1>9

\* What both directions are.
LEMMA BothSides ==
  ASSUME NEW D, D = [d \in Dirs |-> D[d]], D["rd"] \in SideType, D["wr"] \in SideType
  PROVE  D \in [Dirs -> SideType]
<1>1. \A d \in Dirs : D[d] \in SideType BY DEF Dirs
<1> QED BY <1>1

\* A start bit in direction e: the stream goes on where it ended.
LEMMA StartBit ==
  ASSUME NEW d \in Dirs, NEW k \in Nat, NEW e, SideOK(e, d, k), ~e.running,
         "start" \notin e.flags
  PROVE  LET h == [e EXCEPT !.flags = {"start"}]
         IN  Restated(e, k, h, k + 1, d) /\ h.flags = {"start"} /\ ~h.running /\ h \in SideType
<1> DEFINE h == [e EXCEPT !.flags = {"start"}]
<1>1. e \in SideType BY DEF SideOK
<1>2. /\ h.flags = {"start"} /\ h.running = e.running /\ h.fifo = e.fifo BY <1>1 DEF SideType
<1>3. h \in SideType
  <2>1. {"start"} \in SUBSET Bits BY DEF Bits
  <2> QED BY <1>1, <2>1 DEF SideType
<1> HIDE DEF h
<1>4. SideOK(h, d, k + 1)
  <2>1. "running" \notin h.flags /\ k + 1 >= 1 BY <1>2
  <2>2. e.fifo.pending = <<>> /\ e.fifo.nextAddr = e.fifo.endAddr BY DEF SideOK
  <2> QED BY <1>2, <1>3, <2>1, <2>2 DEF SideOK
<1>5. StreamEnd(h, d, k + 1) = StreamEnd(e, d, k)
  <2>1. (k + 1) - 1 = k OBVIOUS
  <2>2. StreamEnd(h, d, k + 1) = ((k + 1) - 1) * Total(d) BY <1>2 DEF StreamEnd
  <2>3. StreamEnd(e, d, k) = k * Total(d) BY DEF StreamEnd
  <2> QED BY <2>1, <2>2, <2>3
<1> QED BY <1>2, <1>3, <1>4, <1>5 DEF Restated, h

\* The host starts the engine.
LEMMA HostStartStep ==
  ASSUME IInv, HostStart
  PROVE  IInv'
<1>1. /\ host = "idle" /\ starts < MaxStarts /\ host' = "written" /\ starts' = starts + 1
      /\ dma' = [d \in Dirs |-> [dma[d] EXCEPT !.flags = {"start"}]]
      /\ UNCHANGED chain /\ mem' = mem
  BY DEF HostStart
<1>2. PICK k \in Nat : k = starts /\ k + 1 \in 0..MaxStarts
  BY <1>1, Sizes, PipelineAssumption DEF IInv, HostOK
<1>3. "rd" \in Dirs /\ "wr" \in Dirs BY DEF Dirs
<1>4. ReadSide(dma["rd"], k) /\ WriteSide(dma["wr"], k) /\ Landed(dma["wr"], k, mem)
  BY <1>2 DEF IInv, SidesOK
<1>5. /\ ~dma["rd"].running /\ ~dma["wr"].running
      /\ "start" \notin dma["rd"].flags /\ "start" \notin dma["wr"].flags
  BY <1>1, <1>3 DEF IInv, HostOK
<1>6. PICK e, w : /\ e = [dma["rd"] EXCEPT !.flags = {"start"}]
                  /\ w = [dma["wr"] EXCEPT !.flags = {"start"}]
  OBVIOUS
<1>7. dma'["rd"] = e /\ dma'["wr"] = w /\ dma' = [d \in Dirs |-> dma'[d]]
  BY <1>1, <1>3, <1>6
<1>8. /\ Restated(dma["rd"], k, e, k + 1, "rd") /\ e.flags = {"start"} /\ ~e.running
      /\ e \in SideType
  BY <1>3, <1>4, <1>5, <1>6, StartBit DEF ReadSide
<1>9. /\ Restated(dma["wr"], k, w, k + 1, "wr") /\ w.flags = {"start"} /\ ~w.running
      /\ w \in SideType
  BY <1>3, <1>4, <1>5, <1>6, StartBit DEF WriteSide
<1>10. k + 1 \in Nat OBVIOUS
<1>11. ReadSteps(dma["rd"], k, e, k + 1) BY <1>4, <1>8, <1>10, ReadRestated
<1>12. WriteSteps(dma["wr"], k, w, k + 1) /\ Landed(w, k + 1, mem)
  BY <1>4, <1>9, <1>10, WriteRestated
<1>13. dma' \in [Dirs -> SideType]
  <2>1. PICK D : D = dma' OBVIOUS
  <2>2. D = [d \in Dirs |-> D[d]] /\ D["rd"] \in SideType /\ D["wr"] \in SideType
    BY <1>7, <1>8, <1>9, <2>1
  <2>3. D \in [Dirs -> SideType] BY <2>2, BothSides
  <2> QED BY <2>1, <2>3
<1>14. starts' = k + 1 BY <1>1, <1>2
<1>15. SidesOK' /\ PortsOK' /\ ChainOK'
  BY <1>1, <1>2, <1>7, <1>10, <1>11, <1>12, <1>13, <1>14, EngineStep
<1>16. HostOK'
  <2>1. \A d \in Dirs : "start" \in dma'[d].flags BY <1>7, <1>8, <1>9 DEF Dirs
  <2>2. host' = "written" /\ starts' \in 0..MaxStarts BY <1>1, <1>2, <1>14
  <2> QED BY <1>7, <1>8, <1>9, <2>1, <2>2 DEF HostOK
<1>17. MemOK(mem)' BY <1>1 DEF IInv, MemOK
<1>18. Landed(dma["wr"], starts, mem)'
  <2>1. Landed(dma'["wr"], starts', mem') BY <1>1, <1>7, <1>12, <1>14
  <2> QED BY <2>1
<1> QED BY <1>15, <1>16, <1>17, <1>18 DEF IInv

\* The host polls.
LEMMA HostPollStep ==
  ASSUME IInv, HostPoll
  PROVE  IInv'
<1>1. /\ host = "polling" /\ host' = IF "running" \in dma["wr"].flags THEN "polling" ELSE "idle"
      /\ UNCHANGED <<dma, chain, starts, mem>>
  BY DEF HostPoll
<1>2. UNCHANGED <<buffer, inPort, outPort, held>> BY <1>1 DEF chain
<1>3. SidesOK' BY <1>1 DEF IInv, SidesOK
<1>4. PortsOK' BY <1>1, <1>2 DEF IInv, PortsOK, InOK, OutOK, InValid, OutValid
<1>5. ChainOK' BY <1>1, <1>2 DEF IInv, ChainOK, InPlace, ChannelBytes
<1>6. HostOK'
  <2>1. "running" \in dma["wr"].flags <=> dma["wr"].running
    BY DEF IInv, SidesOK, WriteSide, SideOK
  <2> QED BY <1>1, <2>1 DEF IInv, HostOK
<1>7. MemOK(mem)' /\ Landed(dma["wr"], starts, mem)' BY <1>1 DEF IInv, MemOK
<1> QED BY <1>3, <1>4, <1>5, <1>6, <1>7 DEF IInv

\* tick().
LEMMA TickStep ==
  ASSUME IInv, Tick
  PROVE  IInv'
<1>1. /\ dma' = TickEngine(dma, Register(starts))
      /\ host' = (IF host = "written" THEN "polling" ELSE host)
      /\ UNCHANGED chain /\ starts' = starts /\ mem' = mem
  BY DEF Tick
<1>2. PICK k \in Nat : k = starts /\ k \in 0..MaxStarts
  BY Sizes, PipelineAssumption DEF IInv, HostOK
<1>3. "rd" \in Dirs /\ "wr" \in Dirs BY DEF Dirs
<1>4. ReadSide(dma["rd"], k) /\ WriteSide(dma["wr"], k) /\ Landed(dma["wr"], k, mem)
  BY <1>2 DEF IInv, SidesOK
<1>5. PICK e, w : e = TickSide(dma["rd"], "rd", k) /\ w = TickSide(dma["wr"], "wr", k)
  OBVIOUS
<1>6. dma' = [d \in Dirs |-> TickSide(dma[d], d, k)]
  BY <1>1, <1>2 DEF TickEngine, TickSide
<1>7. dma'["rd"] = e /\ dma'["wr"] = w /\ dma' = [d \in Dirs |-> dma'[d]]
  BY <1>3, <1>5, <1>6
<1>8. /\ ReadSteps(dma["rd"], k, e, k) /\ "start" \notin e.flags
      /\ (k * Total("rd") <= ReadNext(dma["rd"], k) => ~e.running)
  BY <1>2, <1>4, <1>5, TickRead
<1>9. /\ WriteSteps(dma["wr"], k, w, k) /\ "start" \notin w.flags /\ Landed(w, k, mem)
      /\ (~dma["wr"].running /\ "start" \notin dma["wr"].flags => ~w.running)
  BY <1>2, <1>4, <1>5, TickWrite
<1>10. /\ ReadSide(e, k) /\ WriteSide(w, k) /\ e \in SideType /\ w \in SideType
       /\ SideOK(w, "wr", k)
  BY <1>8, <1>9 DEF ReadSteps, WriteSteps, ReadSide, WriteSide, SideOK
<1>11. dma' \in [Dirs -> SideType]
  <2>1. PICK D : D = dma' OBVIOUS
  <2>2. D = [d \in Dirs |-> D[d]] /\ D["rd"] \in SideType /\ D["wr"] \in SideType
    BY <1>7, <1>10, <2>1
  <2>3. D \in [Dirs -> SideType] BY <2>2, BothSides
  <2> QED BY <2>1, <2>3
<1>12. SidesOK' /\ PortsOK' /\ ChainOK'
  BY <1>1, <1>2, <1>7, <1>8, <1>9, <1>11, EngineStep
<1>13. ~w.running => ~e.running
  <2>1. SUFFICES ASSUME ~w.running PROVE k * Total("rd") <= ReadNext(dma["rd"], k) BY <1>8
  <2>2. PICK pos \in [0..Stages -> Nat] : InPlace(pos)' BY <1>12 DEF ChainOK
  <2>3. Stages \in Nat /\ Stages >= 1 BY PipelineAssumption
  <2>4. ASSUME NEW i \in 1..Stages PROVE pos[i] <= pos[i - 1]
    <3>1. PICK c, o, h, x : StageOK(c, o, h, x, pos[i], pos[i - 1]) BY <2>2 DEF InPlace
    <3>2. PICK lo \in Nat, hi \in Nat : lo = pos[i] /\ hi = pos[i - 1] BY <2>3
    <3>3. lo + Len(c) <= hi /\ Len(c) \in Nat BY <3>1, <3>2, StageNumbers
    <3> QED BY <3>2, <3>3
  <2>5. pos[Stages] <= pos[0]
    <3>1. \A i \in 1..Stages : pos[i] <= pos[0] BY <2>4, Ordered
    <3>2. Stages \in 1..Stages BY <2>3
    <3> QED BY <3>1, <3>2
  <2>6. pos[0] = ReadNext(e, k) /\ pos[Stages] = StreamNext(w, "wr", k)
    BY <1>1, <1>2, <1>7, <2>2 DEF InPlace
  <2>7. ReadNext(e, k) = ReadNext(dma["rd"], k) BY <1>8 DEF ReadSteps
  <2>8. StreamNext(w, "wr", k) = k * Total("wr")
    BY <1>3, <1>9, <1>10, <2>1, SideNumbers
  <2>9. Total("wr") = Total("rd") BY PipelineAssumption
  <2> QED BY <2>5, <2>6, <2>7, <2>8, <2>9
<1>14. HostOK'
  <2>1. \A d \in Dirs : "start" \notin dma'[d].flags BY <1>7, <1>8, <1>9 DEF Dirs
  <2>2. host' \in {"idle", "polling"} /\ starts' \in 0..MaxStarts
    BY <1>1, <1>2 DEF IInv, HostOK
  <2>3. host' = "idle" => ~dma'["wr"].running
    <3>1. SUFFICES ASSUME host' = "idle" PROVE ~w.running BY <1>7
    <3>2. host = "idle" BY <1>1, <3>1 DEF IInv, HostOK
    <3> QED BY <1>3, <1>9, <3>2 DEF IInv, HostOK
  <2> QED BY <1>7, <1>13, <2>1, <2>2, <2>3 DEF HostOK
<1>15. MemOK(mem)' BY <1>1 DEF IInv, MemOK
<1>16. Landed(dma["wr"], starts, mem)'
  <2>1. Landed(dma'["wr"], starts', mem') BY <1>1, <1>2, <1>7, <1>9
  <2> QED BY <2>1
<1> QED BY <1>12, <1>14, <1>15, <1>16 DEF IInv

\* Direction d of an engine with another FIFO.
LEMMA OneSide ==
  ASSUME NEW D \in [Dirs -> SideType], NEW d \in Dirs, NEW g \in FifoOf(Nat),
         NEW E, E = [D EXCEPT ![d].fifo = g]
  PROVE  /\ E[d] = WithFifo(D[d], g) /\ \A c \in Dirs : c # d => E[c] = D[c]
         /\ E \in [Dirs -> SideType]
<1>1. PICK h : h = WithFifo(D[d], g) OBVIOUS
<1>2. h \in SideType BY <1>1, FifoOnly
<1>3. E = [D EXCEPT ![d] = h] BY <1>1 DEF WithFifo
<1> QED BY <1>1, <1>2, <1>3

\* A request of a direction lies in its frame.
LEMMA RequestInFrame ==
  ASSUME NEW d \in Dirs, NEW k \in 0..MaxStarts, NEW e, SideOK(e, d, k), Shape(e.fifo),
         NEW i \in 1..Len(e.fifo.pending),
         NEW a \in Nat, e.fifo.pending[i].addr <= a,
         a < e.fifo.pending[i].addr + e.fifo.pending[i].size
  PROVE  e.running /\ InFrame(e, d, a) /\ a < e.fifo.nextAddr
<1>1. k \in Nat /\ e.fifo \in FifoOf(Nat) BY Sizes, PipelineAssumption DEF SideOK, SideType
<1>2. /\ e.fifo.pending \in Seq(RequestOf(Nat)) /\ Len(e.fifo.pending) \in Nat
      /\ e.fifo.pending[i].addr \in Nat /\ e.fifo.pending[i].size \in Nat
      /\ e.fifo.pending[1] \in RequestOf(Nat)
      /\ e.fifo.pending[1].addr <= e.fifo.pending[i].addr
      /\ e.fifo.pending[i].addr + e.fifo.pending[i].size <= e.fifo.nextAddr
      /\ e.fifo.nextAddr <= e.fifo.endAddr
      /\ e.fifo.nextAddr \in Nat /\ e.fifo.endAddr \in Nat
  <2>1. 1 \in 1..Len(e.fifo.pending) BY <1>1, ReadNumbers
  <2> QED BY <1>1, <2>1, ReadNumbers
<1>3. e.fifo.pending # <<>> BY <1>2
<1>4. e.running BY <1>3 DEF SideOK
<1>5. SizePending(e.fifo) = e.fifo.nextAddr - e.fifo.pending[1].addr BY <1>1, <1>3, PendingBytes
<1>6. PICK x \in Nat, y \in Nat, z \in Nat, u \in Nat, n \in Nat :
        /\ x = e.fifo.nextAddr /\ y = e.fifo.endAddr /\ z = e.fifo.pending[1].addr
        /\ u = e.fifo.pending[i].addr /\ n = e.fifo.pending[i].size
  BY <1>2 DEF RequestOf
<1>7. z <= u /\ u + n <= x /\ x <= y /\ u <= a /\ a < u + n BY <1>2, <1>6
<1>8. FirstUnderWay(e.fifo) = z
  <2>1. FirstUnderWay(e.fifo) = x - (x - z) BY <1>5, <1>6 DEF FirstUnderWay
  <2> QED BY <2>1
<1>9. PICK F \in Nat : F = FrameSize[d] BY Sizes
<1>10. PICK v \in Nat : v = FrameAddr(e.addr, e.frames, d)
  <2>1. /\ e.addr \in Nat /\ e.frames \in Nat /\ e.addr = Register(k)[d]
        /\ e.frames < NumFrames[d] /\ k >= 1
    BY <1>4 DEF SideOK, SideType
  <2>2. k \in 1..MaxStarts /\ e.frames \in 0..(NumFrames[d] - 1) /\ 0 \in 0..(FrameSize[d] - 1)
    BY <2>1, Sizes
  <2> QED BY <2>1, <2>2, PlaceOfByte
<1>11. y = v + F /\ v <= z BY <1>4, <1>6, <1>8, <1>9, <1>10 DEF SideOK
<1>12. y - F <= a /\ a < y /\ a < x BY <1>7, <1>11
<1> QED BY <1>4, <1>6, <1>9, <1>12 DEF InFrame

\* Only the FIFO of the read direction changes.
LEMMA ReadFifoStep ==
  ASSUME IInv, NEW g \in FifoOf(Nat), dma' = [dma EXCEPT !["rd"].fifo = g],
         UNCHANGED <<host, starts, mem>>
  PROVE  /\ dma'["rd"] = WithFifo(dma["rd"], g) /\ dma'["wr"] = dma["wr"]
         /\ dma' \in [Dirs -> SideType]
         /\ HostOK' /\ MemOK(mem)' /\ Landed(dma["wr"], starts, mem)'
         /\ WriteSide(dma'["wr"], starts')
<1>1. "rd" \in Dirs /\ "wr" \in Dirs /\ "wr" # "rd" BY DEF Dirs
<1>2. dma \in [Dirs -> SideType] /\ dma["rd"] \in SideType /\ WriteSide(dma["wr"], starts)
  BY <1>1 DEF IInv, SidesOK
<1>3. PICK E : E = dma' OBVIOUS
<1>4. /\ E["rd"] = WithFifo(dma["rd"], g) /\ E["wr"] = dma["wr"] /\ E \in [Dirs -> SideType]
  BY <1>1, <1>2, <1>3, OneSide
<1>5. E["rd"].flags = dma["rd"].flags /\ E["rd"].running = dma["rd"].running
  BY <1>2, <1>4, FifoOnly
<1>6. HostOK'
  <2>1. \A d \in Dirs : E[d].flags = dma[d].flags BY <1>4, <1>5 DEF Dirs
  <2> QED BY <1>3, <1>4, <1>5, <2>1 DEF IInv, HostOK
<1>7. MemOK(mem)' BY DEF IInv, MemOK
<1>8. Landed(dma["wr"], starts, mem)'
  <2>1. Landed(dma'["wr"], starts', mem') BY <1>3, <1>4 DEF IInv
  <2> QED BY <2>1
<1> QED BY <1>2, <1>3, <1>4, <1>6, <1>7, <1>8

\* The memory answers a read request.
LEMMA ReadCompletesStep ==
  ASSUME IInv, NEW i, ReadCompletes(i)
  PROVE  IInv'
<1>1. "rd" \in Dirs /\ "wr" \in Dirs BY DEF Dirs
<1>2. PICK e, f : e = dma["rd"] /\ f = e.fifo OBVIOUS
<1>3. PICK k \in Nat : k = starts /\ k \in 0..MaxStarts
  BY Sizes, PipelineAssumption DEF IInv, HostOK
<1>4. ReadSide(e, k) /\ SideOK(e, "rd", k) BY <1>2, <1>3 DEF IInv, SidesOK, ReadSide
<1>5. PICK q, D : q = f.pending[i] /\ D = [j \in 1..q.size |-> mem[q.addr + j - 1]]
  OBVIOUS
<1>6. /\ i \in 1..Len(f.pending) /\ dma' = [dma EXCEPT !["rd"].fifo = ReadDone(f, i, D)]
      /\ UNCHANGED <<chain, host, starts, mem>>
  BY <1>2, <1>5 DEF ReadCompletes
<1>7. PICK m \in Nat, b \in Int : m = StreamEnd(e, "rd", k) /\ b = Origin(e, "rd", k)
  BY <1>1, <1>4, SideNumbers
<1>8. GoodRead(Nat, Source, m, b, f) /\ f \in FifoOf(Nat) /\ Shape(f)
  BY <1>2, <1>4, <1>7 DEF ReadSide, GoodRead
<1>9. q.addr \in Nat /\ q.size \in Nat BY <1>5, <1>6, <1>8, ReadNumbers
<1>10. ASSUME NEW j \in 1..q.size
       PROVE  mem[q.addr + j - 1] \in Nat /\ mem[q.addr + j - 1] = Source[q.addr - b + j - 1]
  <2>1. PICK a \in Nat : a = q.addr + j - 1 /\ q.addr <= a /\ a < q.addr + q.size BY <1>9
  <2>2. e.running /\ InFrame(e, "rd", a)
    BY <1>1, <1>2, <1>3, <1>4, <1>5, <1>6, <1>8, <2>1, RequestInFrame
  <2>3. /\ a - b \in Nat /\ Place("rd", a - b) = a /\ a \in Region("rd")
    BY <1>1, <1>3, <1>4, <1>7, <2>2, FramePlace
  <2>4. mem[a] = a BY <2>3 DEF IInv, MemOK
  <2>5. Source[a - b] = a BY <2>3, SourceBlock
  <2>6. a - b = q.addr - b + j - 1 BY <1>9, <2>1
  <2> QED BY <2>1, <2>4, <2>5, <2>6
<1>11. D \in Seq(Nat) /\ Len(D) = q.size /\ \A j \in 1..Len(D) : D[j] = Source[q.addr - b + j - 1]
  BY <1>5, <1>9, <1>10
<1>12. PICK g : g = ReadDone(f, i, D) OBVIOUS
<1>13. GoodRead(Nat, Source, m, b, g) /\ ReadPos(g) = ReadPos(f) /\ Advances(f, g)
  <2>1. IsBlock(Nat, Source, m) BY SourceBlock
  <2>2. Answers(D, f.pending[i], Source, b) BY <1>5, <1>11 DEF Answers
  <2>4. i \in 1..Len(f.pending) /\ D \in Seq(Nat) BY <1>6, <1>11
  <2>5. GoodRead(Nat, Source, m, b, f) BY <1>8
  <2>6. PICK d \in Seq(Nat), n \in 1..Len(f.pending) : d = D /\ n = i BY <2>4
  <2>7. PICK V : V = Source OBVIOUS
  <2>8. /\ IsBlock(Nat, V, m) /\ GoodRead(Nat, V, m, b, f)
        /\ Answers(d, f.pending[n], V, b)
    BY <2>1, <2>2, <2>5, <2>6, <2>7
  <2>9. /\ GoodRead(Nat, V, m, b, ReadDone(f, n, d))
        /\ ReadPos(ReadDone(f, n, d)) = ReadPos(f)
        /\ Advances(f, ReadDone(f, n, d))
    BY <2>8, ReadAnswer
  <2> QED BY <1>12, <2>6, <2>7, <2>9
<1>14. g \in FifoOf(Nat) BY <1>13 DEF GoodRead
<1>15. dma' = [dma EXCEPT !["rd"].fifo = g] BY <1>6, <1>12
<1>16. /\ dma'["rd"] = WithFifo(e, g) /\ dma'["wr"] = dma["wr"]
       /\ dma' \in [Dirs -> SideType]
       /\ HostOK' /\ MemOK(mem)' /\ Landed(dma["wr"], starts, mem)'
  BY <1>2, <1>6, <1>14, <1>15, ReadFifoStep
<1>17. ReadSteps(e, k, WithFifo(e, g), k)
  <2>1. ReadPos(g) = ReadPos(e.fifo) + 0
    <3>1. ReadPos(f) \in Int BY <1>8, ReadNumbers
    <3> QED BY <1>2, <1>13, <3>1
  <2>2. 0 \in Nat /\ Advances(e.fifo, g)
        /\ GoodRead(Nat, Source, StreamEnd(e, "rd", k), Origin(e, "rd", k), g)
    BY <1>2, <1>7, <1>13
  <2>3. /\ ReadSide(WithFifo(e, g), k) /\ ReadNext(WithFifo(e, g), k) = ReadNext(e, k) + 0
        /\ Len(g.buffer) >= Len(e.fifo.buffer) - 0 /\ WithFifo(e, g).fifo = g
    BY <1>4, <2>1, <2>2, ReadMoves
  <2>4. ReadNext(e, k) \in Nat /\ Len(e.fifo.buffer) \in Nat BY <1>4, ReadHolds
  <2>5. Len(g.buffer) \in Nat BY <1>13, ReadNumbers DEF GoodRead
  <2> QED BY <2>3, <2>4, <2>5 DEF ReadSteps
<1>18. WriteSteps(dma["wr"], k, dma["wr"], k)
  <2>1. WriteSide(dma["wr"], k) BY <1>3 DEF IInv, SidesOK
  <2>2. Len(dma["wr"].fifo.buffer) \in Nat BY <2>1, WriteHolds
  <2> QED BY <2>1, <2>2 DEF WriteSteps
<1>19. SidesOK' /\ PortsOK' /\ ChainOK'
  BY <1>2, <1>3, <1>6, <1>16, <1>17, <1>18, EngineStep
<1> QED BY <1>16, <1>19 DEF IInv

\* The regions of the two directions are parts of the memory that do not overlap.
LEMMA Regions ==
  /\ Region("rd") \subseteq Addresses /\ Region("wr") \subseteq Addresses
  /\ \A a \in Region("rd") : a \notin Region("wr")
<1>1. "rd" \in Dirs /\ "wr" \in Dirs BY DEF Dirs
<1>2. Region("rd") \subseteq Addresses /\ Region("wr") \subseteq Addresses
  BY <1>1 DEF Addresses, Region
<1>3. PICK x \in Nat, y \in Nat, t \in Nat, n \in Nat :
        /\ x = Base["rd"] /\ y = Base["wr"] /\ t = Total("rd") /\ n = MaxStarts * t
        /\ x + n <= y /\ Total("wr") = t
  <2>1. Base["rd"] \in Nat /\ Base["wr"] \in Nat /\ Total("rd") \in Nat /\ MaxStarts \in Nat
    BY <1>1, Sizes
  <2>2. MaxStarts * Total("rd") \in Nat BY <2>1, Times
  <2> QED BY <2>1, <2>2, PipelineAssumption
<1>4. Region("rd") = x..(x + n - 1) /\ Region("wr") = y..(y + n - 1) BY <1>3 DEF Region
<1>5. \A a \in x..(x + n - 1) : a \notin y..(y + n - 1) BY <1>3
<1> QED BY <1>2, <1>4, <1>5

\* The addresses of request q.
Span(q) == {a \in Nat : q.addr <= a /\ a < q.addr + q.size}

\* M is memory N after request q has written its part of the stream, which lies
\* at b.
Overwritten(M, N, q, b) ==
  /\ \A a \in Span(q) : M[a] = Source[a - b]
  /\ \A a \in Addresses : a \notin Span(q) => M[a] = N[a]

\* A request that is answered puts its bytes at their places and on no byte that
\* belongs there later.
LEMMA ByteWritten ==
  ASSUME NEW k \in 0..MaxStarts, NEW e, WriteSide(e, k), NEW i \in 1..Len(e.fifo.pending),
         NEW M, NEW N, Overwritten(M, N, e.fifo.pending[i], Origin(e, "wr", k)),
         Landed(e, k, N), NEW g, Advances(e.fifo, g), g \in FifoOf(Nat),
         \A a \in Unwritten(e.fifo) : a \in Unwritten(g) \/ a \in Span(e.fifo.pending[i]),
         NEW j \in 0..(StreamNext(e, "wr", k) - 1)
  PROVE  ByteLanded(j, StreamNext(e, "wr", k), g, M)
<1>1. k \in Nat /\ "wr" \in Dirs /\ SideOK(e, "wr", k) /\ Shape(e.fifo) /\ e.fifo \in FifoOf(Nat)
  BY Sizes, PipelineAssumption DEF WriteSide, Emptying, Dirs
<1>2. PICK b \in Int, x \in Nat, y \in Nat, s \in Int, t \in Nat :
        /\ b = Origin(e, "wr", k) /\ x = e.fifo.nextAddr /\ y = e.fifo.endAddr
        /\ s = StreamNext(e, "wr", k) /\ s = x - b /\ t = k * Total("wr") /\ y - b <= t
  <2>1. /\ Origin(e, "wr", k) \in Int /\ e.fifo.nextAddr \in Nat /\ e.fifo.endAddr \in Nat
        /\ StreamNext(e, "wr", k) \in Int
        /\ StreamNext(e, "wr", k) = e.fifo.nextAddr - Origin(e, "wr", k)
        /\ StreamEnd(e, "wr", k) = e.fifo.endAddr - Origin(e, "wr", k)
        /\ StreamEnd(e, "wr", k) <= k * Total("wr") /\ k * Total("wr") \in Nat
    BY <1>1, SideNumbers
  <2> QED BY <2>1
<1>2a. ASSUME e.running, NEW a \in Nat, InFrame(e, "wr", a)
       PROVE  a - b \in Nat /\ Place("wr", a - b) = a
  <2>1. a - Origin(e, "wr", k) \in Nat /\ Place("wr", a - Origin(e, "wr", k)) = a
    BY <1>1, <1>2a, FramePlace
  <2> QED BY <1>2, <2>1
<1>3. x <= y BY <1>1, <1>2 DEF Shape
<1>4. j \in Nat /\ j < s BY <1>2
<1>5. PICK p \in Nat : p = Place("wr", j) /\ p \in Addresses
  <2>1. PICK z \in Nat : z = MaxStarts * Total("wr") /\ t <= z
    <3>1. MaxStarts \in Nat /\ Total("wr") \in Nat /\ k <= MaxStarts BY <1>1, Sizes
    <3> QED BY <1>1, <1>2, <3>1, Times
  <2>2. j < z
    <3>1. s = x - b /\ y - b <= t /\ t <= z BY <1>2, <2>1
    <3> QED BY <1>3, <1>4, <3>1
  <2>3. Place("wr", j) \in Nat /\ Place("wr", j) \in Region("wr")
    BY <1>1, <1>4, <2>1, <2>2, PlaceInRegion
  <2> QED BY <2>3, Regions
<1>6. PICK q : q = e.fifo.pending[i] OBVIOUS
<1>7. CASE p \in Span(q)
  <2>1. e.running /\ InFrame(e, "wr", p) /\ p < x
    BY <1>1, <1>2, <1>6, <1>7, RequestInFrame DEF Span
  <2>2. p - b \in Nat /\ Place("wr", p - b) = p BY <1>2a, <2>1
  <2>3. PICK l \in Nat : l = p - b /\ l < s /\ Place("wr", l) = p
    <3>1. p - b < s
      <4>1. s = x - b BY <1>2
      <4> QED BY <2>1, <4>1
    <3> QED BY <2>2, <3>1
  <2>4. M[p] = Source[l] BY <1>2, <1>6, <1>7, <2>3 DEF Overwritten
  <2>5. CASE l = j BY <1>2, <1>5, <2>4, <2>5 DEF ByteLanded
  <2>6. CASE j < l
    <3>1. l \in (j + 1)..(s - 1) BY <1>4, <2>3, <2>6
    <3> QED BY <1>2, <1>5, <2>3, <3>1 DEF ByteLanded
  <2>7. CASE l < j
    <3>1. PICK a \in Nat : a = j + b /\ p < a /\ a < x
      <4>1. s = x - b /\ l = p - b /\ j \in Nat /\ j < s BY <1>2, <1>4, <2>3
      <4>2. p < j + b /\ j + b < x BY <2>7, <4>1
      <4>3. j + b \in Nat BY <4>1, <4>2
      <4> QED BY <4>2, <4>3
    <3>2. InFrame(e, "wr", a)
      <4>1. PICK F \in Nat : F = FrameSize["wr"] BY <1>1, Sizes
      <4>2. y - F <= p BY <1>2, <2>1, <4>1 DEF InFrame
      <4>3. y - F <= a /\ a < y BY <1>3, <3>1, <4>2
      <4> QED BY <1>2, <4>1, <4>3 DEF InFrame
    <3>3. Place("wr", a - b) = a BY <1>2a, <2>1, <3>2
    <3>4. a - b = j BY <3>1
    <3> QED BY <1>5, <3>1, <3>3, <3>4
  <2> QED BY <1>4, <2>3, <2>5, <2>6, <2>7
<1>8. CASE p \notin Span(q)
  <2>1. M[p] = N[p] BY <1>5, <1>6, <1>8 DEF Overwritten
  <2>2. ByteLanded(j, s, e.fifo, N) BY <1>2, <1>4 DEF Landed
  <2>3. p \in Unwritten(e.fifo) /\ p < x => p \in Unwritten(g) /\ p < g.nextAddr
    <3>1. x <= g.nextAddr /\ g.nextAddr \in Nat BY <1>2 DEF Advances, FifoOf
    <3> QED BY <1>6, <1>8, <3>1
  <2> QED BY <1>2, <1>5, <2>1, <2>2, <2>3 DEF ByteLanded
<1> QED BY <1>7, <1>8

\* Only the FIFO of the write direction changes.
LEMMA WriteFifoStep ==
  ASSUME IInv, NEW g \in FifoOf(Nat), dma' = [dma EXCEPT !["wr"].fifo = g],
         UNCHANGED <<host, starts>>
  PROVE  /\ dma'["wr"] = WithFifo(dma["wr"], g) /\ dma'["rd"] = dma["rd"]
         /\ dma' \in [Dirs -> SideType] /\ HostOK' /\ ReadSide(dma'["rd"], starts')
<1>1. "rd" \in Dirs /\ "wr" \in Dirs /\ "rd" # "wr" BY DEF Dirs
<1>2. dma \in [Dirs -> SideType] /\ dma["wr"] \in SideType /\ ReadSide(dma["rd"], starts)
  BY <1>1 DEF IInv, SidesOK
<1>3. PICK E : E = dma' OBVIOUS
<1>4. /\ E["wr"] = WithFifo(dma["wr"], g) /\ E["rd"] = dma["rd"] /\ E \in [Dirs -> SideType]
  BY <1>1, <1>2, <1>3, OneSide
<1>5. E["wr"].flags = dma["wr"].flags /\ E["wr"].running = dma["wr"].running
  BY <1>2, <1>4, FifoOnly
<1>6. HostOK'
  <2>1. \A d \in Dirs : E[d].flags = dma[d].flags BY <1>4, <1>5 DEF Dirs
  <2> QED BY <1>3, <1>4, <1>5, <2>1 DEF IInv, HostOK
<1> QED BY <1>2, <1>3, <1>4, <1>6

\* The memory answers a write request.
LEMMA WriteCompletesStep ==
  ASSUME IInv, NEW i, WriteCompletes(i)
  PROVE  IInv'
<1>1. "rd" \in Dirs /\ "wr" \in Dirs BY DEF Dirs
<1>2. PICK e, f : e = dma["wr"] /\ f = e.fifo OBVIOUS
<1>3. PICK k \in Nat : k = starts /\ k \in 0..MaxStarts
  BY Sizes, PipelineAssumption DEF IInv, HostOK
<1>4. WriteSide(e, k) /\ SideOK(e, "wr", k) /\ Landed(e, k, mem)
  BY <1>2, <1>3 DEF IInv, SidesOK, WriteSide
<1>5. PICK q, g : q = f.pending[i] /\ g = WriteDone(f, i) OBVIOUS
<1>6. /\ i \in 1..Len(f.pending) /\ dma' = [dma EXCEPT !["wr"].fifo = g]
      /\ mem' = [a \in Addresses |->
                   IF a \in q.addr..(q.addr + q.size - 1) THEN q.data[a - q.addr + 1]
                   ELSE mem[a]]
      /\ UNCHANGED <<chain, host, starts>>
  BY <1>2, <1>5 DEF WriteCompletes
<1>7. PICK b \in Int : b = Origin(e, "wr", k) BY <1>1, <1>4, SideNumbers
<1>8. Emptying(Nat, Source, b, f) /\ f \in FifoOf(Nat) /\ Shape(f)
  BY <1>2, <1>4, <1>7 DEF WriteSide, Emptying
<1>9. q.addr \in Nat /\ q.size \in Nat /\ q.data \in Seq(Nat) /\ f.nextAddr \in Nat
      /\ q.addr + q.size <= f.nextAddr
  BY <1>5, <1>6, <1>8, ReadNumbers
<1>10. HoldsBytes(q, Source, b) BY <1>5, <1>6, <1>8 DEF Emptying
<1>11. Writes(Nat, Source, b, f, i) BY <1>6, <1>8, WriteAnswer
<1>12. /\ Emptying(Nat, Source, b, g) /\ WritePos(g) = WritePos(f) /\ Advances(f, g)
       /\ g \in FifoOf(Nat)
       /\ \A a \in Unwritten(f) : a \in Unwritten(g) \/ a \in Span(q)
  <2>1. \A a \in Unwritten(f) : a \in Nat BY DEF Unwritten
  <2>2. \A a \in Unwritten(f) : a \in Unwritten(g) \/ (q.addr <= a /\ a < q.addr + q.size)
    BY <1>5, <1>11 DEF Writes
  <2>3. Emptying(Nat, Source, b, g) /\ WritePos(g) = WritePos(f) /\ Advances(f, g)
    BY <1>5, <1>11 DEF Writes
  <2>4. g \in FifoOf(Nat) BY <2>3 DEF Emptying
  <2> QED BY <2>1, <2>2, <2>3, <2>4 DEF Span
<1>13. /\ dma'["wr"] = WithFifo(e, g) /\ dma'["rd"] = dma["rd"]
       /\ dma' \in [Dirs -> SideType] /\ HostOK'
  BY <1>2, <1>6, <1>12, WriteFifoStep
<1>14. ASSUME NEW a \in Span(q) PROVE a \in Region("wr") /\ a \in Addresses
  <2>1. a \in Nat /\ q.addr <= a /\ a < q.addr + q.size BY DEF Span
  <2>2. e.running /\ InFrame(e, "wr", a)
    BY <1>1, <1>2, <1>3, <1>4, <1>5, <1>6, <1>8, <2>1, RequestInFrame
  <2>3. a \in Region("wr") BY <1>1, <1>3, <1>4, <2>1, <2>2, FramePlace
  <2> QED BY <2>3, Regions
<1>15. PICK M : M = mem' OBVIOUS
<1>16. \A a \in Addresses : a \in Nat
  <2>1. \A d \in Dirs : Base[d] \in Nat /\ MaxStarts * Total(d) \in Nat BY Sizes, Times
  <2>2. \A d \in Dirs : \A a \in Base[d]..(Base[d] + MaxStarts * Total(d) - 1) : a \in Nat
    BY <2>1
  <2> QED BY <2>2 DEF Addresses
<1>17. \A a \in Addresses : a \in q.addr..(q.addr + q.size - 1) <=> a \in Span(q)
  BY <1>9, <1>16 DEF Span
<1>18. \A a \in Span(q) : q.data[a - q.addr + 1] = Source[a - b] /\ q.data[a - q.addr + 1] \in Nat
  <2>1. SUFFICES ASSUME NEW a \in Span(q)
                 PROVE  q.data[a - q.addr + 1] = Source[a - b] /\ q.data[a - q.addr + 1] \in Nat
    OBVIOUS
  <2>2. PICK n \in Nat : n = a - q.addr + 1 /\ n \in 1..q.size BY <1>9 DEF Span
  <2>3. q.data[n] = Source[q.addr - b + n - 1] /\ Len(q.data) = q.size
    BY <1>10, <2>2 DEF HoldsBytes
  <2>4. q.addr - b + n - 1 = a - b BY <1>9, <2>2 DEF Span
  <2>5. q.data[n] \in Nat
    <3>1. n \in 1..Len(q.data) /\ q.data \in Seq(Nat) BY <1>9, <2>2, <2>3
    <3> QED BY <3>1
  <2> QED BY <2>2, <2>3, <2>4, <2>5
<1>19. Overwritten(M, mem, q, b)
  <2>1. \A a \in Span(q) : M[a] = Source[a - b] BY <1>6, <1>14, <1>15, <1>17, <1>18
  <2>2. \A a \in Addresses : a \notin Span(q) => M[a] = mem[a] BY <1>6, <1>15, <1>17
  <2> QED BY <2>1, <2>2 DEF Overwritten
<1>20. MemOK(M)
  <2>1. mem \in [Addresses -> Nat] /\ \A a \in Region("rd") : mem[a] = a BY DEF IInv, MemOK
  <2>2. M \in [Addresses -> Nat]
    <3>1. ASSUME NEW a \in Addresses
          PROVE  (IF a \in q.addr..(q.addr + q.size - 1) THEN q.data[a - q.addr + 1]
                  ELSE mem[a]) \in Nat
      BY <1>17, <1>18, <2>1
    <3> QED BY <1>6, <1>15, <3>1
  <2>3. \A a \in Region("rd") : M[a] = a
    <3>1. SUFFICES ASSUME NEW a \in Region("rd") PROVE M[a] = a OBVIOUS
    <3>2. a \in Addresses /\ a \notin Region("wr") BY Regions
    <3>3. a \notin Span(q) BY <1>14, <3>2
    <3>4. M[a] = mem[a] BY <1>19, <3>2, <3>3 DEF Overwritten
    <3> QED BY <2>1, <3>4
  <2> QED BY <2>2, <2>3 DEF MemOK
<1>21. /\ WriteSide(WithFifo(e, g), k) /\ WriteSteps(e, k, WithFifo(e, g), k)
  <2>1. WritePos(g) = WritePos(e.fifo) + 0 /\ 0 \in Nat
    <3>1. f.nextAddr \in Nat /\ Len(f.buffer) \in Nat BY <1>8, ReadNumbers
    <3>2. WritePos(f) \in Nat BY <3>1 DEF WritePos
    <3> QED BY <1>2, <1>12, <3>2
  <2>2. Advances(e.fifo, g) /\ Emptying(Nat, Source, Origin(e, "wr", k), g)
    BY <1>2, <1>7, <1>12
  <2>3. /\ WriteSide(WithFifo(e, g), k) /\ WriteNext(WithFifo(e, g), k) = WriteNext(e, k) + 0
        /\ Len(g.buffer) <= Len(e.fifo.buffer) + 0 /\ WithFifo(e, g).fifo = g
    BY <1>4, <2>1, <2>2, WriteMoves
  <2>4. WriteNext(e, k) \in Nat /\ Len(e.fifo.buffer) \in Nat
    <3>1. /\ StreamNext(e, "wr", k) \in Nat /\ Len(e.fifo.buffer) \in Nat
          /\ StreamNext(e, "wr", k) + Len(e.fifo.buffer) = WriteNext(e, k)
      BY <1>4, WriteHolds
    <3> QED BY <3>1
  <2> QED BY <2>3, <2>4 DEF WriteSteps
<1>22. ReadSteps(dma["rd"], k, dma["rd"], k)
  <2>1. ReadSide(dma["rd"], k) BY <1>3 DEF IInv, SidesOK
  <2>2. Len(dma["rd"].fifo.buffer) \in Nat BY <2>1, ReadHolds
  <2> QED BY <2>1, <2>2 DEF ReadSteps
<1>23. SidesOK' /\ PortsOK' /\ ChainOK'
  BY <1>2, <1>3, <1>6, <1>13, <1>21, <1>22, EngineStep
<1>24. Landed(WithFifo(e, g), k, M)
  <2>1. PICK n \in 1..Len(e.fifo.pending) : n = i BY <1>2, <1>6
  <2>2. /\ Overwritten(M, mem, e.fifo.pending[n], Origin(e, "wr", k))
        /\ \A a \in Unwritten(e.fifo) : a \in Unwritten(g) \/ a \in Span(e.fifo.pending[n])
    BY <1>2, <1>5, <1>7, <1>12, <1>19, <2>1
  <2>3. PICK N : N = mem OBVIOUS
  <2>4. Overwritten(M, N, e.fifo.pending[n], Origin(e, "wr", k)) /\ Landed(e, k, N)
    BY <1>4, <2>2, <2>3
  <2>5. Advances(e.fifo, g) /\ g \in FifoOf(Nat) BY <1>2, <1>12
  <2>6. \A j \in 0..(StreamNext(e, "wr", k) - 1) : ByteLanded(j, StreamNext(e, "wr", k), g, M)
    BY <1>3, <1>4, <2>2, <2>4, <2>5, ByteWritten
  <2>7. \A a \in Nat : e.fifo.nextAddr <= a => a \in Unwritten(g)
    <3>1. SUFFICES ASSUME NEW a \in Nat, f.nextAddr <= a PROVE a \in Unwritten(g) BY <1>2
    <3>2. a \in Unwritten(f) BY <3>1 DEF Unwritten
    <3>3. a \notin Span(q) BY <1>9, <3>1 DEF Span
    <3> QED BY <1>12, <3>2, <3>3
  <2>8. Emptying(Nat, Source, Origin(e, "wr", k), g) BY <1>7, <1>12
  <2> QED BY <1>3, <1>4, <1>21, <2>5, <2>6, <2>7, <2>8, LandedStays
<1>25. Landed(dma["wr"], starts, mem)'
  <2>1. Landed(dma'["wr"], starts', mem') BY <1>3, <1>6, <1>13, <1>15, <1>24
  <2> QED BY <2>1
<1>26. MemOK(mem)'
  <2>1. MemOK(mem') BY <1>15, <1>20
  <2> QED BY <2>1
<1> QED BY <1>13, <1>23, <1>25, <1>26 DEF IInv

(***************************************************************************)
(* The steps of the ports and the stages                                   *)
(***************************************************************************)

\* The two parts of a sequence.
LEMMA Parts ==
  ASSUME NEW s \in Seq(Nat), NEW n \in Nat, n <= Len(s)
  PROVE  /\ SubSeq(s, 1, n) \in Seq(Nat) /\ Len(SubSeq(s, 1, n)) = n
         /\ SubSeq(s, n + 1, Len(s)) \in Seq(Nat)
         /\ Len(SubSeq(s, n + 1, Len(s))) = Len(s) - n
<1>1. PICK l \in Nat : l = Len(s) /\ n <= l OBVIOUS
<1>2. SubSeq(s, 1, n) \in Seq(Nat) /\ Len(SubSeq(s, 1, n)) = n BY <1>1
<1>3. SubSeq(s, n + 1, l) \in Seq(Nat) /\ Len(SubSeq(s, n + 1, l)) = l - n BY <1>1
<1> QED BY <1>1, <1>2, <1>3

\* A port that refuses a packet.
LEMMA PortRefuses ==
  ASSUME NEW p \in PortType, NEW D \in Seq(Nat)
  PROVE  /\ Refused(p, D) \in PortType /\ Refused(p, D).pkt = "stalled"
         /\ Refused(p, D).data = D /\ Refused(p, D).isBusy = p.isBusy
         /\ (p.isBusy => Refused(p, D).retryReq)
<1>1. /\ Refused(p, D).pkt = "stalled" /\ Refused(p, D).data = D
      /\ Refused(p, D).isBusy = p.isBusy /\ (p.isBusy => Refused(p, D).retryReq)
  BY DEF Refused, PortType
<1>2. Refused(p, D) \in PortType BY DEF Refused, PortType
<1> QED BY <1>1, <1>2

\* A port that takes one.
LEMMA PortTakes ==
  ASSUME NEW p \in PortType, NEW D \in Seq(Nat)
  PROVE  /\ Taken(p, D) \in PortType /\ Taken(p, D).pkt = "taken" /\ Taken(p, D).data = D
         /\ Taken(p, D).isBusy /\ Taken(p, D).retryReq = p.retryReq
BY DEF Taken, PortType

\* A port that is free again.
LEMMA PortReleases ==
  ASSUME NEW p \in PortType
  PROVE  /\ Released(p) \in PortType /\ Released(p).pkt = p.pkt /\ Released(p).data = p.data
         /\ ~Released(p).retryReq
BY DEF Released, PortType

\* A port that has answered its packet.
LEMMA PortAnswers ==
  ASSUME NEW p \in PortType
  PROVE  /\ Answered(p) \in PortType /\ Answered(p).pkt = "none" /\ Answered(p).data = <<>>
         /\ Answered(p).isBusy = p.isBusy /\ Answered(p).retryReq = p.retryReq
<1>1. <<>> \in Seq(Nat) OBVIOUS
<1> QED BY <1>1 DEF Answered, PortType

\* What was around a stage is so still, wherever its channel ends and the next
\* one begins.
Around(o, h, x, o2, h2, x2) ==
  \A c, hi : \A lo \in Nat : StageOK(c, o, h, x, lo, hi) => StageOK(c, o2, h2, x2, lo, hi)

\* A step that leaves the engine and the buffers alone.
LEMMA StageStep ==
  ASSUME IInv, UNCHANGED <<dma, buffer, host, starts, mem>>,
         inPort' \in [1..Stages -> PortType], outPort' \in [1..Stages -> PortType],
         held' \in [1..Stages -> Seq(Nat)], NEW i \in 1..Stages,
         InOK(i)', OutOK(i)',
         Around(outPort[i].data, held[i], inPort[i].data,
                outPort'[i].data, held'[i], inPort'[i].data),
         \A j \in 1..Stages : j # i => /\ outPort'[j] = outPort[j] /\ held'[j] = held[j]
                                       /\ inPort'[j] = inPort[j]
  PROVE  IInv'
<1>1. SidesOK' /\ HostOK' BY DEF IInv, SidesOK, HostOK
<1>2. MemOK(mem)' /\ Landed(dma["wr"], starts, mem)' BY DEF IInv, MemOK
<1>3. PortsOK'
  <2>1. ASSUME NEW j \in 1..Stages PROVE InOK(j)' /\ OutOK(j)'
    <3>1. CASE j = i BY <3>1
    <3>2. CASE j # i
      <4>1. InOK(j) /\ OutOK(j) BY DEF IInv, PortsOK
      <4>2. (InValid(j)' <=> InValid(j)) /\ (OutValid(j)' <=> OutValid(j))
        BY DEF InValid, OutValid
      <4>3. inPort'[j] = inPort[j] /\ outPort'[j] = outPort[j] BY <3>2
      <4> QED BY <4>1, <4>2, <4>3 DEF InOK, OutOK
    <3> QED BY <3>1, <3>2
  <2> QED BY <2>1 DEF IInv, PortsOK
<1>4. ChainOK'
  <2>1. PICK pos \in [0..Stages -> Nat] : InPlace(pos) BY DEF IInv, ChainOK
  <2>2. Stages \in Nat /\ Stages >= 1 BY PipelineAssumption
  <2>3. ASSUME NEW j \in 1..Stages
        PROVE  StageOK(ChannelBytes(j)', outPort'[j].data, held'[j], inPort'[j].data, pos[j], pos[j - 1])
    <3>1. StageOK(ChannelBytes(j), outPort[j].data, held[j], inPort[j].data, pos[j], pos[j - 1])
      BY <2>1 DEF InPlace
    <3>2. ChannelBytes(j)' = ChannelBytes(j) BY DEF ChannelBytes
    <3>3. CASE j # i BY <3>1, <3>2, <3>3
    <3>4. CASE j = i
      <4>1. pos[i] \in Nat BY <2>2
      <4> QED BY <3>1, <3>2, <3>4, <4>1 DEF Around
    <3> QED BY <3>3, <3>4
  <2>4. InPlace(pos)' BY <2>1, <2>3 DEF InPlace
  <2> QED BY <2>4 DEF ChainOK
<1> QED BY <1>1, <1>2, <1>3, <1>4 DEF IInv

\* The answer to a read packet reaches its stage.
LEMMA AnswerReadStep ==
  ASSUME IInv, NEW i \in 1..Stages, AnswerRead(i)
  PROVE  IInv'
<1>1. /\ inPort[i].pkt = "taken" /\ held' = [held EXCEPT ![i] = held[i] \o inPort[i].data]
      /\ inPort' = [inPort EXCEPT ![i] = Answered(inPort[i])]
      /\ UNCHANGED <<dma, buffer, outPort, host, starts, mem>>
  BY DEF AnswerRead
<1>2. /\ inPort \in [1..Stages -> PortType] /\ outPort \in [1..Stages -> PortType]
      /\ held \in [1..Stages -> Seq(Nat)] /\ InOK(i) /\ OutOK(i)
  BY DEF IInv, PortsOK
<1>3. PICK p \in PortType, h \in Seq(Nat) : p = inPort[i] /\ h = held[i] BY <1>2
<1>4. p.data \in Seq(Nat) BY DEF PortType
<1>5. /\ Answered(p) \in PortType /\ Answered(p).pkt = "none" /\ Answered(p).data = <<>>
      /\ Answered(p).isBusy = p.isBusy /\ Answered(p).retryReq = p.retryReq
  BY PortAnswers
<1>6. PICK h2 \in Seq(Nat) : h2 = h \o p.data
  <2>1. PICK d \in Seq(Nat) : d = p.data BY <1>4
  <2>2. h \o d \in Seq(Nat) BY Joined
  <2> QED BY <2>1, <2>2
<1>7. /\ inPort' \in [1..Stages -> PortType] /\ inPort'[i] = Answered(p)
      /\ \A j \in 1..Stages : j # i => inPort'[j] = inPort[j]
  BY <1>1, <1>2, <1>3, <1>5
<1>8. /\ held' \in [1..Stages -> Seq(Nat)] /\ held'[i] = h2
      /\ \A j \in 1..Stages : j # i => held'[j] = held[j]
  BY <1>1, <1>2, <1>3, <1>6
<1>9. InOK(i)' BY <1>1, <1>2, <1>3, <1>5, <1>7 DEF InOK, PortOK
<1>10. OutOK(i)' BY <1>1, <1>2 DEF OutOK, OutValid
<1>11. Around(outPort[i].data, h, p.data, outPort[i].data, h2, <<>>)
  BY <1>6, StageAnswers DEF Around
<1>12. Around(outPort[i].data, held[i], inPort[i].data, outPort'[i].data, held'[i], inPort'[i].data)
  BY <1>1, <1>3, <1>5, <1>7, <1>8, <1>11
<1> QED BY <1>1, <1>2, <1>7, <1>8, <1>9, <1>10, <1>12, StageStep

\* The answer to a write packet reaches its stage.
LEMMA AnswerWriteStep ==
  ASSUME IInv, NEW i \in 1..Stages, AnswerWrite(i)
  PROVE  IInv'
<1>1. /\ outPort[i].pkt = "taken" /\ outPort' = [outPort EXCEPT ![i] = Answered(outPort[i])]
      /\ UNCHANGED <<dma, buffer, inPort, held, host, starts, mem>>
  BY DEF AnswerWrite
<1>2. /\ inPort \in [1..Stages -> PortType] /\ outPort \in [1..Stages -> PortType]
      /\ held \in [1..Stages -> Seq(Nat)] /\ InOK(i) /\ OutOK(i)
  BY DEF IInv, PortsOK
<1>3. PICK p \in PortType : p = outPort[i] BY <1>2
<1>4. <<>> \in Seq(Nat) /\ p.data = <<>> BY <1>1, <1>2, <1>3 DEF OutOK
<1>5. /\ Answered(p) \in PortType /\ Answered(p).pkt = "none" /\ Answered(p).data = <<>>
      /\ Answered(p).isBusy = p.isBusy /\ Answered(p).retryReq = p.retryReq
  BY PortAnswers
<1>6. /\ outPort' \in [1..Stages -> PortType] /\ outPort'[i] = Answered(p)
      /\ \A j \in 1..Stages : j # i => outPort'[j] = outPort[j]
  BY <1>1, <1>2, <1>3, <1>5
<1>7. OutOK(i)' BY <1>1, <1>2, <1>3, <1>5, <1>6 DEF OutOK, PortOK
<1>8. InOK(i)' BY <1>1, <1>2 DEF InOK, InValid
<1>9. Around(outPort[i].data, held[i], inPort[i].data, outPort'[i].data, held'[i], inPort'[i].data)
  BY <1>1, <1>3, <1>4, <1>5, <1>6 DEF Around
<1> QED BY <1>1, <1>2, <1>6, <1>7, <1>8, <1>9, StageStep

\* A read packet is taken from the channel before stage i, which is the engine or a
\* buffer: what the channel gives is the next piece of the stream.
LEMMA TakeReadEngine ==
  ASSUME IInv, NEW p \in PortType, ~p.retryReq, inPort[1].pkt # "taken", InValid(1),
         TakeRead(1, p), UNCHANGED <<outPort, held, host, starts, mem>>
  PROVE  IInv'
<1>1. "rd" \in Dirs /\ "wr" \in Dirs BY DEF Dirs
<1>2. PICK e, f : e = dma["rd"] /\ f = e.fifo OBVIOUS
<1>3. PICK k \in Nat : k = starts /\ k \in 0..MaxStarts
  BY Sizes, PipelineAssumption DEF IInv, HostOK
<1>4. ReadSide(e, k) /\ SideOK(e, "rd", k) BY <1>2, <1>3 DEF IInv, SidesOK, ReadSide
<1>5. Stages \in Nat /\ Stages >= 1 /\ 1 \in 1..Stages BY PipelineAssumption
<1>6. PICK n \in Nat : n = InSize[1] BY <1>5, PipelineAssumption
<1>7. PICK g, D : g = TryGet(f, n) /\ D = Got(f, n) OBVIOUS
<1>8. /\ inPort' = [inPort EXCEPT ![1] = Taken(p, D)]
      /\ dma' = [dma EXCEPT !["rd"].fifo = g] /\ buffer' = buffer
  BY <1>2, <1>6, <1>7 DEF TakeRead, StreamRead
<1>9. CanGet(f, n) BY <1>2, <1>6 DEF InValid, ValidRead, CanGet
<1>10. PICK m \in Nat, b \in Int : m = StreamEnd(e, "rd", k) /\ b = Origin(e, "rd", k)
  BY <1>1, <1>4, SideNumbers
<1>11. GoodRead(Nat, Source, m, b, f) /\ f \in FifoOf(Nat) /\ Shape(f)
  BY <1>2, <1>4, <1>10 DEF ReadSide, GoodRead
<1>12. Delivers(Nat, Source, m, b, f, n) BY <1>9, <1>11, ReadGet
<1>13. /\ GoodRead(Nat, Source, m, b, g) /\ Advances(f, g) /\ ReadPos(g) = ReadPos(f) + n
       /\ D \in Seq(Nat) /\ Len(D) = n
       /\ \A j \in 1..n : D[j] = Source[ReadPos(f) - b + j - 1]
  BY <1>7, <1>12 DEF Delivers
<1>14. PICK r \in Nat : r = ReadNext(e, k) /\ r = ReadPos(f) - b
  BY <1>2, <1>4, <1>10, ReadHolds DEF ReadNext
<1>15. At(D, r)
  <2>1. \A j \in 1..n : D[j] = Source[r + j - 1] BY <1>13, <1>14
  <2> QED BY <1>13, <2>1 DEF At
<1>16. g \in FifoOf(Nat) BY <1>13 DEF GoodRead
<1>17. /\ dma'["rd"] = WithFifo(e, g) /\ dma'["wr"] = dma["wr"]
       /\ dma' \in [Dirs -> SideType]
       /\ HostOK' /\ MemOK(mem)' /\ Landed(dma["wr"], starts, mem)'
       /\ WriteSide(dma'["wr"], starts')
  BY <1>2, <1>8, <1>16, ReadFifoStep
<1>18. ReadSide(WithFifo(e, g), k) /\ ReadNext(WithFifo(e, g), k) = r + n
  <2>1. /\ Advances(e.fifo, g) /\ ReadPos(g) = ReadPos(e.fifo) + n
        /\ GoodRead(Nat, Source, StreamEnd(e, "rd", k), Origin(e, "rd", k), g)
    BY <1>2, <1>10, <1>13
  <2>2. ReadSide(WithFifo(e, g), k) /\ ReadNext(WithFifo(e, g), k) = ReadNext(e, k) + n
    BY <1>4, <2>1, ReadMoves
  <2> QED BY <1>14, <2>2
<1>19. SidesOK'
  <2>1. ReadSide(dma'["rd"], starts') BY <1>3, <1>17, <1>18
  <2> QED BY <1>17, <2>1 DEF SidesOK
<1>20. /\ inPort \in [1..Stages -> PortType] /\ outPort \in [1..Stages -> PortType]
       /\ held \in [1..Stages -> Seq(Nat)] /\ InOK(1)
  BY <1>5 DEF IInv, PortsOK
<1>21. /\ Taken(p, D) \in PortType /\ Taken(p, D).pkt = "taken" /\ Taken(p, D).data = D
       /\ Taken(p, D).isBusy /\ Taken(p, D).retryReq = p.retryReq
  BY <1>13, PortTakes
<1>22. /\ inPort' \in [1..Stages -> PortType] /\ inPort'[1] = Taken(p, D)
       /\ \A j \in 1..Stages : j # 1 => inPort'[j] = inPort[j]
  BY <1>5, <1>8, <1>20, <1>21
<1>23. PortsOK'
  <2>1. ASSUME NEW j \in 1..Stages PROVE InOK(j)' /\ OutOK(j)'
    <3>1. InOK(j) /\ OutOK(j) BY DEF IInv, PortsOK
    <3>2. OutValid(j)' <=> OutValid(j) BY <1>8, <1>17 DEF OutValid, ValidWrite
    <3>3. OutOK(j)' BY <3>1, <3>2 DEF OutOK
    <3>4. CASE j = 1
      <4>1. InOK(j)' BY <1>21, <1>22, <3>4 DEF InOK, PortOK
      <4> QED BY <3>3, <4>1
    <3>5. CASE j # 1
      <4>1. InValid(j)' <=> InValid(j) BY <1>8, <3>5 DEF InValid
      <4>2. InOK(j)' BY <1>22, <3>1, <3>5, <4>1 DEF InOK
      <4> QED BY <3>3, <4>2
    <3> QED BY <3>4, <3>5
  <2> QED BY <1>8, <1>22, <2>1 DEF IInv, PortsOK
<1>24. ChainOK'
  <2>1. PICK pos \in [0..Stages -> Nat] : InPlace(pos) BY DEF IInv, ChainOK
  <2> DEFINE q == [pos EXCEPT ![0] = r + n]
  <2>2. q \in [0..Stages -> Nat] /\ q[0] = r + n /\ \A j \in 1..Stages : q[j] = pos[j]
    BY <1>5
  <2> HIDE DEF q
  <2>3. ASSUME NEW j \in 1..Stages
        PROVE  StageOK(ChannelBytes(j)', outPort'[j].data, held'[j], inPort'[j].data, q[j], q[j - 1])
    <3>1. StageOK(ChannelBytes(j), outPort[j].data, held[j], inPort[j].data, pos[j], pos[j - 1])
      BY <2>1 DEF InPlace
    <3>2. ChannelBytes(j)' = ChannelBytes(j) BY <1>8, <1>17 DEF ChannelBytes
    <3>3. CASE j # 1
      <4>1. j - 1 \in 1..Stages BY <1>5, <3>3
      <4>2. q[j - 1] = pos[j - 1] /\ q[j] = pos[j] BY <2>2, <4>1
      <4>3. inPort'[j] = inPort[j] BY <1>22, <3>3
      <4> QED BY <3>1, <3>2, <4>2, <4>3
    <3>4. CASE j = 1
      <4>1. PICK c, o, h : c = ChannelBytes(1) /\ o = outPort[1].data /\ h = held[1] OBVIOUS
      <4>2. inPort[1].data = <<>> BY <1>20 DEF InOK
      <4>3. PICK lo \in Nat : lo = pos[1] BY <1>5
      <4>4. pos[0] = r BY <1>2, <1>3, <1>14, <2>1 DEF InPlace
      <4>5. StageOK(c, o, h, <<>>, lo, r) BY <3>1, <3>4, <4>1, <4>2, <4>3, <4>4
      <4>6. StageOK(c, o, h, D, lo, r + n) BY <1>13, <1>15, <4>5, StageReads
      <4> QED BY <1>21, <1>22, <2>2, <3>2, <3>4, <4>1, <4>3, <4>6
    <3> QED BY <3>3, <3>4
  <2>4. q[0] = ReadNext(dma'["rd"], starts') /\ q[Stages] = StreamNext(dma'["wr"], "wr", starts')
    <3>1. q[0] = ReadNext(dma'["rd"], starts') BY <1>3, <1>17, <1>18, <2>2
    <3>2. q[Stages] = pos[Stages] BY <1>5, <2>2
    <3> QED BY <1>17, <2>1, <3>1, <3>2 DEF InPlace
  <2>5. InPlace(q)' BY <2>3, <2>4 DEF InPlace
  <2> QED BY <2>2, <2>5 DEF ChainOK
<1> QED BY <1>17, <1>19, <1>23, <1>24 DEF IInv

\* The same for a stage behind a buffer.
LEMMA TakeReadBuffer ==
  ASSUME IInv, NEW i \in 2..Stages, NEW p \in PortType, ~p.retryReq, inPort[i].pkt # "taken",
         InValid(i), TakeRead(i, p), UNCHANGED <<outPort, held, host, starts, mem>>
  PROVE  IInv'
<1>1. Stages \in Nat /\ i \in Nat /\ i >= 2 /\ i <= Stages /\ i \in 1..Stages
  BY PipelineAssumption
<1>2. PICK l \in Nat : l = i - 1 /\ l \in 1..Stages /\ l \in 1..(Stages - 1) /\ l # Stages
                       /\ l \in 0..Stages
  BY <1>1
<1>3. PICK n \in Nat : n = InSize[i] BY <1>1, PipelineAssumption
<1>4. /\ inPort \in [1..Stages -> PortType] /\ outPort \in [1..Stages -> PortType]
      /\ held \in [1..Stages -> Seq(Nat)] /\ InOK(i)
      /\ buffer \in [1..(Stages - 1) -> Seq(Nat)]
      /\ \A j \in 1..(Stages - 1) : Len(buffer[j]) <= BufferSize
  BY <1>1 DEF IInv, PortsOK
<1>5. PICK c \in Seq(Nat) : c = buffer[l] /\ Len(c) \in Nat /\ Len(c) <= BufferSize
  <2>1. buffer[l] \in Seq(Nat) /\ Len(buffer[l]) <= BufferSize BY <1>2, <1>4
  <2> QED BY <2>1
<1>6. n <= Len(c) BY <1>1, <1>2, <1>3, <1>5 DEF InValid, CanReadStream
<1>7. PICK D, c2 : D = SubSeq(c, 1, n) /\ c2 = SubSeq(c, n + 1, Len(c)) OBVIOUS
<1>8. /\ inPort' = [inPort EXCEPT ![i] = Taken(p, D)]
      /\ buffer' = [buffer EXCEPT ![l] = c2] /\ dma' = dma
  BY <1>1, <1>2, <1>3, <1>5, <1>7 DEF TakeRead, ReadFromStream, ReadStream
<1>9. D \in Seq(Nat) /\ c2 \in Seq(Nat) /\ Len(c2) = Len(c) - n /\ Len(D) = n
  BY <1>6, <1>7, Parts
<1>10. /\ Taken(p, D) \in PortType /\ Taken(p, D).pkt = "taken" /\ Taken(p, D).data = D
       /\ Taken(p, D).isBusy /\ Taken(p, D).retryReq = p.retryReq
  <2>1. D \in Seq(Nat) BY <1>9
  <2> QED BY <2>1, PortTakes
<1>11. /\ inPort' \in [1..Stages -> PortType] /\ inPort'[i] = Taken(p, D)
       /\ \A j \in 1..Stages : j # i => inPort'[j] = inPort[j]
  BY <1>1, <1>4, <1>8, <1>10
<1>12. /\ buffer' \in [1..(Stages - 1) -> Seq(Nat)] /\ buffer'[l] = c2
       /\ \A j \in 1..(Stages - 1) : j # l => buffer'[j] = buffer[j]
  BY <1>2, <1>4, <1>8, <1>9
<1>13. SidesOK' /\ HostOK' BY <1>8 DEF IInv, SidesOK, HostOK
<1>14. MemOK(mem)' /\ Landed(dma["wr"], starts, mem)' BY <1>8 DEF IInv, MemOK
<1>15. PortsOK'
  <2>0. BufferSize \in Nat BY BufferAssumption
  <2>1. ASSUME NEW j \in 1..Stages PROVE InOK(j)' /\ OutOK(j)'
    <3>1. InOK(j) /\ OutOK(j) BY DEF IInv, PortsOK
    <3>2. OutValid(j) => OutValid(j)'
      <4>1. CASE j = Stages BY <1>8, <4>1 DEF OutValid
      <4>2. CASE j = l
        <5>1. PICK x \in Nat, y \in Nat : x = OutSize[j] /\ y = Len(c)
          BY <1>5, PipelineAssumption
        <5>2. Len(c2) = y - n BY <1>9, <5>1
        <5>3. y + x <= BufferSize => (y - n) + x <= BufferSize BY <2>0
        <5> QED BY <1>2, <1>5, <1>12, <4>2, <5>1, <5>2, <5>3 DEF OutValid, CanWriteStream
      <4>3. CASE j # Stages /\ j # l
        <5>1. j \in 1..(Stages - 1) BY <1>1, <4>3
        <5>2. buffer'[j] = buffer[j] BY <1>12, <4>3, <5>1
        <5> QED BY <4>3, <5>2 DEF OutValid, CanWriteStream
      <4> QED BY <4>1, <4>2, <4>3
    <3>3. OutOK(j)' BY <3>1, <3>2 DEF OutOK
    <3>4. CASE j = i
      <4>1. InOK(j)' BY <1>10, <1>11, <3>4 DEF InOK, PortOK
      <4> QED BY <3>3, <4>1
    <3>5. CASE j # i
      <4>1. InValid(j)' <=> InValid(j)
        <5>1. CASE j = 1 BY <1>8, <5>1 DEF InValid
        <5>2. CASE j # 1
          <6>1. j - 1 \in 1..(Stages - 1) /\ j - 1 # l BY <1>1, <1>2, <3>5, <5>2
          <6>2. buffer'[j - 1] = buffer[j - 1] BY <1>12, <6>1
          <6> QED BY <5>2, <6>2 DEF InValid, CanReadStream
        <5> QED BY <5>1, <5>2
      <4>2. InOK(j)' BY <1>11, <3>1, <3>5, <4>1 DEF InOK
      <4> QED BY <3>3, <4>2
    <3> QED BY <3>4, <3>5
  <2>2. \A j \in 1..(Stages - 1) : Len(buffer'[j]) <= BufferSize
    <3>1. Len(c2) <= BufferSize BY <1>5, <1>9, <2>0
    <3> QED BY <1>4, <1>12, <3>1
  <2> QED BY <1>4, <1>11, <1>12, <2>1, <2>2 DEF PortsOK
<1>16. ChainOK'
  <2>1. PICK pos \in [0..Stages -> Nat] : InPlace(pos) BY DEF IInv, ChainOK
  <2>2. PICK r \in Nat : r = pos[l] BY <1>2
  <2> DEFINE q == [pos EXCEPT ![l] = r + n]
  <2>3. q \in [0..Stages -> Nat] /\ q[l] = r + n /\ \A j \in 0..Stages : j # l => q[j] = pos[j]
    BY <1>2
  <2> HIDE DEF q
  <2>4. StageOK(ChannelBytes(l), outPort[l].data, held[l], inPort[l].data, pos[l], pos[l - 1])
    BY <1>2, <2>1 DEF InPlace
  <2>5. PICK o, h, x, hi : o = outPort[l].data /\ h = held[l] /\ x = inPort[l].data /\ hi = pos[l - 1]
    OBVIOUS
  <2>6. StageOK(c, o, h, x, r, hi) BY <1>2, <1>5, <2>2, <2>4, <2>5 DEF ChannelBytes
  <2>7. /\ At(D, r) /\ StageOK(c2, o, h, x, r + n, hi) BY <1>6, <1>7, <2>6, StageDrains
  <2>8. ASSUME NEW j \in 1..Stages
        PROVE  StageOK(ChannelBytes(j)', outPort'[j].data, held'[j], inPort'[j].data, q[j], q[j - 1])
    <3>1. StageOK(ChannelBytes(j), outPort[j].data, held[j], inPort[j].data, pos[j], pos[j - 1])
      BY <2>1 DEF InPlace
    <3>2. j - 1 \in 0..Stages /\ j \in 0..Stages /\ (j - 1 = l <=> j = i) BY <1>1, <1>2
    <3>3. CASE j = l
      <4>1. ChannelBytes(j)' = c2 BY <1>2, <1>12, <3>3 DEF ChannelBytes
      <4>2. inPort'[j] = inPort[j] BY <1>1, <1>2, <1>11, <3>3
      <4>3. q[j] = r + n /\ q[j - 1] = hi BY <1>1, <1>2, <2>3, <2>5, <3>2, <3>3
      <4> QED BY <2>5, <2>7, <3>3, <4>1, <4>2, <4>3
    <3>4. CASE j # l
      <4>1. ChannelBytes(j)' = ChannelBytes(j)
        <5>1. CASE j = Stages BY <1>8, <5>1 DEF ChannelBytes
        <5>2. CASE j # Stages
          <6>1. j \in 1..(Stages - 1) BY <1>1, <5>2
          <6> QED BY <1>12, <3>4, <5>2, <6>1 DEF ChannelBytes
        <5> QED BY <5>1, <5>2
      <4>2. q[j] = pos[j] BY <2>3, <3>2, <3>4
      <4>3. CASE j # i
        <5>1. inPort'[j] = inPort[j] /\ q[j - 1] = pos[j - 1] BY <1>11, <2>3, <3>2, <4>3
        <5> QED BY <3>1, <4>1, <4>2, <5>1
      <4>4. CASE j = i
        <5>1. PICK d, u, v : d = ChannelBytes(i) /\ u = outPort[i].data /\ v = held[i] OBVIOUS
        <5>2. inPort[i].data = <<>> BY <1>4 DEF InOK
        <5>3. PICK lo \in Nat : lo = pos[i] BY <1>1
        <5>4. pos[j - 1] = r /\ q[j - 1] = r + n BY <1>2, <2>2, <2>3, <4>4
        <5>5. StageOK(d, u, v, <<>>, lo, r) BY <3>1, <4>4, <5>1, <5>2, <5>3, <5>4
        <5>6. StageOK(d, u, v, D, lo, r + n) BY <1>9, <2>7, <5>5, StageReads
        <5> QED BY <1>10, <1>11, <4>1, <4>2, <4>4, <5>1, <5>3, <5>4, <5>6
      <4> QED BY <4>3, <4>4
    <3> QED BY <3>3, <3>4
  <2>9. q[0] = pos[0] /\ q[Stages] = pos[Stages] BY <1>1, <1>2, <2>3
  <2>10. InPlace(q)' BY <1>8, <2>1, <2>8, <2>9 DEF InPlace
  <2> QED BY <2>3, <2>10 DEF ChainOK
<1> QED BY <1>13, <1>14, <1>15, <1>16 DEF IInv

\* A write packet is taken by the engine: its bytes follow those of the write FIFO.
LEMMA TakeWriteEngine ==
  ASSUME IInv, NEW p \in PortType, ~p.retryReq, NEW D \in Seq(Nat), Len(D) = OutSize[Stages],
         OutValid(Stages), TakeWrite(Stages, p, D), UNCHANGED <<inPort, host, starts, mem>>,
         held' \in [1..Stages -> Seq(Nat)],
         \A j \in 1..Stages : j # Stages => held'[j] = held[j],
         Around(outPort[Stages].data, held[Stages], inPort[Stages].data,
                D, held'[Stages], inPort[Stages].data)
  PROVE  IInv'
<1>1. "rd" \in Dirs /\ "wr" \in Dirs BY DEF Dirs
<1>2. PICK e, f : e = dma["wr"] /\ f = e.fifo OBVIOUS
<1>3. PICK k \in Nat : k = starts /\ k \in 0..MaxStarts
  BY Sizes, PipelineAssumption DEF IInv, HostOK
<1>4. WriteSide(e, k) /\ SideOK(e, "wr", k) /\ Landed(e, k, mem)
  BY <1>2, <1>3 DEF IInv, SidesOK, WriteSide
<1>5. Stages \in Nat /\ Stages >= 1 /\ Stages \in 1..Stages /\ Stages \in 0..Stages
      /\ 0 \in 0..Stages /\ 0 # Stages
  BY PipelineAssumption
<1>6. PICK n \in Nat : n = Len(D) OBVIOUS
<1>7. PICK g : g = Fill(f, D) OBVIOUS
<1>8. /\ outPort' = [outPort EXCEPT ![Stages] = Taken(p, <<>>)]
      /\ dma' = [dma EXCEPT !["wr"].fifo = g] /\ buffer' = buffer
  BY <1>2, <1>7 DEF TakeWrite, StreamWrite
<1>9. CanFill(f, Len(D)) BY <1>2 DEF OutValid, ValidWrite
<1>10. PICK b \in Int : b = Origin(e, "wr", k) BY <1>1, <1>4, SideNumbers
<1>11. Emptying(Nat, Source, b, f) /\ f \in FifoOf(Nat) /\ Shape(f)
  BY <1>2, <1>4, <1>10 DEF WriteSide, Emptying
<1>12. PICK s \in Nat, l \in Nat : /\ s = StreamNext(e, "wr", k) /\ l = Len(f.buffer)
                                   /\ WriteNext(e, k) = s + l
  <2>1. /\ StreamNext(e, "wr", k) \in Nat /\ Len(e.fifo.buffer) \in Nat
        /\ StreamNext(e, "wr", k) + Len(e.fifo.buffer) = WriteNext(e, k)
    BY <1>4, WriteHolds
  <2> QED BY <1>2, <2>1
<1>13. PICK pos \in [0..Stages -> Nat] : InPlace(pos) BY DEF IInv, ChainOK
<1>14. PICK o, h, x, h2, hi :
         /\ o = outPort[Stages].data /\ h = held[Stages] /\ x = inPort[Stages].data
         /\ h2 = held'[Stages] /\ hi = pos[Stages - 1]
  OBVIOUS
<1>15. StageOK(f.buffer, D, h2, x, s, hi)
  <2>1. /\ StageOK(ChannelBytes(Stages), outPort[Stages].data, held[Stages],
                   inPort[Stages].data, pos[Stages], pos[Stages - 1])
        /\ pos[Stages] = StreamNext(dma["wr"], "wr", starts)
    BY <1>5, <1>13 DEF InPlace
  <2>2. ChannelBytes(Stages) = f.buffer BY <1>2 DEF ChannelBytes
  <2>3. StageOK(f.buffer, o, h, x, s, hi) BY <1>2, <1>3, <1>12, <1>14, <2>1, <2>2
  <2>4. Around(o, h, x, D, h2, x) BY <1>14
  <2> QED BY <2>3, <2>4 DEF Around
<1>16. At(D, s + l) BY <1>12, <1>15 DEF StageOK
<1>17. /\ Emptying(Nat, Source, b, g) /\ WritePos(g) = WritePos(f) + n
       /\ Unwritten(f) \subseteq Unwritten(g) /\ Advances(f, g)
  <2>1. PICK V : V = Source OBVIOUS
  <2>2. WritePos(f) - b = s + l BY <1>2, <1>10, <1>12 DEF WriteNext
  <2>3. \A j \in 1..Len(D) : D[j] = V[WritePos(f) - b + j - 1]
    <3>1. \A j \in 1..Len(D) : D[j] = V[(s + l) + j - 1] BY <1>16, <2>1 DEF At
    <3> QED BY <2>2, <3>1
  <2>4. Emptying(Nat, V, b, f) BY <1>11, <2>1
  <2>5. /\ Emptying(Nat, V, b, Fill(f, D)) /\ WritePos(Fill(f, D)) = WritePos(f) + Len(D)
        /\ Unwritten(f) \subseteq Unwritten(Fill(f, D)) /\ Advances(f, Fill(f, D))
    BY <1>9, <2>3, <2>4, WriteFill
  <2> QED BY <1>6, <1>7, <2>1, <2>5
<1>18. g \in FifoOf(Nat) BY <1>17 DEF Emptying
<1>19. /\ dma'["wr"] = WithFifo(e, g) /\ dma'["rd"] = dma["rd"]
       /\ dma' \in [Dirs -> SideType] /\ HostOK' /\ ReadSide(dma'["rd"], starts')
  BY <1>2, <1>8, <1>18, WriteFifoStep
<1>20. /\ Emptying(Nat, Source, Origin(e, "wr", k), g) /\ Advances(e.fifo, g)
       /\ WritePos(g) = WritePos(e.fifo) + n
  BY <1>2, <1>10, <1>17
<1>21. /\ WriteSide(WithFifo(e, g), k) /\ WithFifo(e, g).fifo = g
       /\ WriteNext(WithFifo(e, g), k) = WriteNext(e, k) + n
  BY <1>4, <1>20, WriteMoves
<1>22. SidesOK'
  <2>1. WriteSide(dma'["wr"], starts') BY <1>3, <1>19, <1>21
  <2> QED BY <1>19, <2>1 DEF SidesOK
<1>23. PICK t \in Nat, m \in Nat :
         /\ t = StreamNext(WithFifo(e, g), "wr", k) /\ m = Len(g.buffer)
         /\ At(g.buffer, t) /\ t + m = s + l + n
  <2>1. PICK w : w = WithFifo(e, g) OBVIOUS
  <2>2. /\ StreamNext(w, "wr", k) \in Nat /\ At(w.fifo.buffer, StreamNext(w, "wr", k))
        /\ Len(w.fifo.buffer) \in Nat
        /\ StreamNext(w, "wr", k) + Len(w.fifo.buffer) = WriteNext(w, k)
    BY <1>21, <2>1, WriteHolds
  <2> QED BY <1>12, <1>21, <2>1, <2>2
<1>24. MemOK(mem)' BY DEF IInv, MemOK
<1>25. Landed(dma["wr"], starts, mem)'
  <2>1. PICK M : M = mem OBVIOUS
  <2>2. \A j \in 0..(s - 1) : ByteLanded(j, s, g, M)
    <3>1. SUFFICES ASSUME NEW j \in 0..(s - 1) PROVE ByteLanded(j, s, g, M) OBVIOUS
    <3>2. ByteLanded(j, s, f, M) BY <1>2, <1>4, <1>12, <2>1 DEF Landed
    <3>3. f.nextAddr <= g.nextAddr /\ f.nextAddr \in Nat /\ g.nextAddr \in Nat
      BY <1>11, <1>17, <1>18 DEF Advances, FifoOf
    <3>4. PICK a : a = Place("wr", j) OBVIOUS
    <3>5. a \in Unwritten(f) /\ a < f.nextAddr => a \in Unwritten(g) /\ a < g.nextAddr
      <4>1. \A z \in Unwritten(f) : z \in Nat BY DEF Unwritten
      <4> QED BY <1>17, <3>3, <4>1
    <3> QED BY <3>2, <3>4, <3>5 DEF ByteLanded
  <2>3. \A a \in Nat : e.fifo.nextAddr <= a => a \in Unwritten(g)
    <3>1. SUFFICES ASSUME NEW a \in Nat, f.nextAddr <= a PROVE a \in Unwritten(g) BY <1>2
    <3>2. a \in Unwritten(f) BY <3>1 DEF Unwritten
    <3> QED BY <1>17, <3>2
  <2>4. \A j \in 0..(StreamNext(e, "wr", k) - 1) : ByteLanded(j, StreamNext(e, "wr", k), g, M)
    BY <1>12, <2>2
  <2>5. Landed(WithFifo(e, g), k, M)
    BY <1>3, <1>4, <1>20, <1>21, <2>3, <2>4, LandedStays
  <2>6. Landed(dma'["wr"], starts', mem') BY <1>3, <1>19, <2>1, <2>5
  <2> QED BY <2>6
<1>26. /\ inPort \in [1..Stages -> PortType] /\ outPort \in [1..Stages -> PortType]
       /\ <<>> \in Seq(Nat)
  BY DEF IInv, PortsOK
<1>27. /\ Taken(p, <<>>) \in PortType /\ Taken(p, <<>>).pkt = "taken"
       /\ Taken(p, <<>>).data = <<>> /\ Taken(p, <<>>).isBusy
       /\ Taken(p, <<>>).retryReq = p.retryReq
  <2>1. <<>> \in Seq(Nat) OBVIOUS
  <2> QED BY <2>1, PortTakes
<1>28. /\ outPort' \in [1..Stages -> PortType] /\ outPort'[Stages] = Taken(p, <<>>)
       /\ \A j \in 1..Stages : j # Stages => outPort'[j] = outPort[j]
  BY <1>5, <1>8, <1>26, <1>27
<1>29. PortsOK'
  <2>1. ASSUME NEW j \in 1..Stages PROVE InOK(j)' /\ OutOK(j)'
    <3>1. InOK(j) /\ OutOK(j) BY DEF IInv, PortsOK
    <3>2. InValid(j)' <=> InValid(j) BY <1>8, <1>19 DEF InValid, ValidRead
    <3>3. InOK(j)' BY <3>1, <3>2 DEF InOK
    <3>4. CASE j = Stages
      <4>1. OutOK(j)' BY <1>27, <1>28, <3>4 DEF OutOK, PortOK
      <4> QED BY <3>3, <4>1
    <3>5. CASE j # Stages
      <4>1. OutValid(j)' <=> OutValid(j) BY <1>8, <3>5 DEF OutValid
      <4>2. OutOK(j)' BY <1>28, <3>1, <3>5, <4>1 DEF OutOK
      <4> QED BY <3>3, <4>2
    <3> QED BY <3>4, <3>5
  <2> QED BY <1>8, <1>26, <1>28, <2>1 DEF IInv, PortsOK
<1>30. ChainOK'
  <2> DEFINE q == [pos EXCEPT ![Stages] = t]
  <2>1. /\ q \in [0..Stages -> Nat] /\ q[Stages] = t
        /\ \A j \in 0..Stages : j # Stages => q[j] = pos[j]
    BY <1>5
  <2> HIDE DEF q
  <2>2. StageOK(g.buffer, <<>>, h2, x, t, hi)
    <3>1. Len(<<>>) = 0 /\ At(<<>>, t + m) BY DEF At
    <3>2. t + Len(g.buffer) + Len(<<>>) = s + Len(f.buffer) + Len(D)
      BY <1>6, <1>12, <1>23, <3>1
    <3> QED BY <1>15, <1>23, <3>1, <3>2, StageRejoins
  <2>3. ASSUME NEW j \in 1..Stages
        PROVE  StageOK(ChannelBytes(j)', outPort'[j].data, held'[j], inPort'[j].data, q[j], q[j - 1])
    <3>1. j - 1 \in 0..Stages /\ j \in 0..Stages /\ j - 1 # Stages BY <1>5
    <3>2. q[j - 1] = pos[j - 1] BY <2>1, <3>1
    <3>3. CASE j = Stages
      <4>1. ChannelBytes(j)' = g.buffer BY <1>19, <1>21, <3>3 DEF ChannelBytes
      <4> QED BY <1>14, <1>27, <1>28, <2>1, <2>2, <3>2, <3>3, <4>1
    <3>4. CASE j # Stages
      <4>1. StageOK(ChannelBytes(j), outPort[j].data, held[j], inPort[j].data, pos[j], pos[j - 1])
        BY <1>13 DEF InPlace
      <4>2. ChannelBytes(j)' = ChannelBytes(j) BY <1>8, <3>4 DEF ChannelBytes
      <4>3. q[j] = pos[j] BY <2>1, <3>1, <3>4
      <4> QED BY <1>28, <3>2, <3>4, <4>1, <4>2, <4>3
    <3> QED BY <3>3, <3>4
  <2>4. q[0] = ReadNext(dma'["rd"], starts') /\ q[Stages] = StreamNext(dma'["wr"], "wr", starts')
    <3>1. q[0] = pos[0] BY <1>5, <2>1
    <3>2. pos[0] = ReadNext(dma["rd"], starts) BY <1>13 DEF InPlace
    <3> QED BY <1>3, <1>19, <1>23, <2>1, <3>1, <3>2
  <2>5. InPlace(q)' BY <2>3, <2>4 DEF InPlace
  <2> QED BY <2>1, <2>5 DEF ChainOK
<1> QED BY <1>19, <1>22, <1>24, <1>25, <1>29, <1>30 DEF IInv

\* The same for a stage before a buffer.
LEMMA TakeWriteBuffer ==
  ASSUME IInv, NEW i \in 1..(Stages - 1), NEW p \in PortType, ~p.retryReq,
         NEW D \in Seq(Nat), Len(D) = OutSize[i], OutValid(i), TakeWrite(i, p, D),
         UNCHANGED <<inPort, host, starts, mem>>, held' \in [1..Stages -> Seq(Nat)],
         \A j \in 1..Stages : j # i => held'[j] = held[j],
         Around(outPort[i].data, held[i], inPort[i].data, D, held'[i], inPort[i].data)
  PROVE  IInv'
<1>1. Stages \in Nat /\ i \in Nat /\ i >= 1 /\ i < Stages /\ i \in 1..Stages /\ i \in 0..Stages
      /\ i # Stages
  BY PipelineAssumption
<1>2. /\ inPort \in [1..Stages -> PortType] /\ outPort \in [1..Stages -> PortType]
      /\ buffer \in [1..(Stages - 1) -> Seq(Nat)]
      /\ \A j \in 1..(Stages - 1) : Len(buffer[j]) <= BufferSize
  BY DEF IInv, PortsOK
<1>3. PICK c \in Seq(Nat), n \in Nat, m \in Nat : c = buffer[i] /\ n = Len(c) /\ m = Len(D)
  BY <1>2, SMTT(30)
<1>4. n + m <= BufferSize BY <1>1, <1>3 DEF OutValid, CanWriteStream
<1>5. PICK c2 \in Seq(Nat) : c2 = c \o D /\ Len(c2) = n + m
  <2>1. c \o D \in Seq(Nat) /\ Len(c \o D) = Len(c) + Len(D) BY Joined
  <2> QED BY <1>3, <2>1
<1>6. /\ outPort' = [outPort EXCEPT ![i] = Taken(p, <<>>)]
      /\ buffer' = [buffer EXCEPT ![i] = c2] /\ dma' = dma
  BY <1>1, <1>3, <1>5 DEF TakeWrite, WriteStream
<1>7. /\ Taken(p, <<>>) \in PortType /\ Taken(p, <<>>).pkt = "taken"
      /\ Taken(p, <<>>).data = <<>> /\ Taken(p, <<>>).isBusy
      /\ Taken(p, <<>>).retryReq = p.retryReq
  <2>1. <<>> \in Seq(Nat) OBVIOUS
  <2> QED BY <2>1, PortTakes
<1>8. /\ outPort' \in [1..Stages -> PortType] /\ outPort'[i] = Taken(p, <<>>)
      /\ \A j \in 1..Stages : j # i => outPort'[j] = outPort[j]
  BY <1>1, <1>2, <1>6, <1>7
<1>9. /\ buffer' \in [1..(Stages - 1) -> Seq(Nat)] /\ buffer'[i] = c2
      /\ \A j \in 1..(Stages - 1) : j # i => buffer'[j] = buffer[j]
  BY <1>2, <1>6
<1>10. SidesOK' /\ HostOK' BY <1>6 DEF IInv, SidesOK, HostOK
<1>11. MemOK(mem)' /\ Landed(dma["wr"], starts, mem)' BY <1>6 DEF IInv, MemOK
<1>12. PortsOK'
  <2>1. ASSUME NEW j \in 1..Stages PROVE InOK(j)' /\ OutOK(j)'
    <3>1. InOK(j) /\ OutOK(j) BY DEF IInv, PortsOK
    <3>2. InValid(j) => InValid(j)'
      <4>1. CASE j = 1 BY <1>6, <4>1 DEF InValid
      <4>2. CASE j # 1
        <5>1. PICK l \in 1..(Stages - 1) : l = j - 1 BY <1>1, <4>2
        <5>2. PICK z \in Nat : z = InSize[j] BY PipelineAssumption
        <5>3. CASE l = i
          <6>1. n >= z => n + m >= z OBVIOUS
          <6> QED BY <1>3, <1>5, <1>9, <4>2, <5>1, <5>2, <5>3, <6>1 DEF InValid, CanReadStream
        <5>4. CASE l # i
          <6>1. buffer'[l] = buffer[l] BY <1>9, <5>4
          <6> QED BY <4>2, <5>1, <6>1 DEF InValid, CanReadStream
        <5> QED BY <5>3, <5>4
      <4> QED BY <4>1, <4>2
    <3>3. InOK(j)' BY <3>1, <3>2 DEF InOK
    <3>4. CASE j = i
      <4>1. OutOK(j)' BY <1>7, <1>8, <3>4 DEF OutOK, PortOK
      <4> QED BY <3>3, <4>1
    <3>5. CASE j # i
      <4>1. OutValid(j)' <=> OutValid(j)
        <5>1. CASE j = Stages BY <1>6, <5>1 DEF OutValid
        <5>2. CASE j # Stages
          <6>1. j \in 1..(Stages - 1) BY <1>1, <5>2
          <6>2. buffer'[j] = buffer[j] BY <1>9, <3>5, <6>1
          <6> QED BY <5>2, <6>2 DEF OutValid, CanWriteStream
        <5> QED BY <5>1, <5>2
      <4>2. OutOK(j)' BY <1>8, <3>1, <3>5, <4>1 DEF OutOK
      <4> QED BY <3>3, <4>2
    <3> QED BY <3>4, <3>5
  <2>2. \A j \in 1..(Stages - 1) : Len(buffer'[j]) <= BufferSize
    <3>1. Len(c2) <= BufferSize BY <1>4, <1>5
    <3> QED BY <1>2, <1>9, <3>1
  <2> QED BY <1>2, <1>8, <1>9, <2>1, <2>2 DEF PortsOK
<1>13. ChainOK'
  <2>1. PICK pos \in [0..Stages -> Nat] : InPlace(pos) BY DEF IInv, ChainOK
  <2>2. ASSUME NEW j \in 1..Stages
        PROVE  StageOK(ChannelBytes(j)', outPort'[j].data, held'[j], inPort'[j].data, pos[j], pos[j - 1])
    <3>1. StageOK(ChannelBytes(j), outPort[j].data, held[j], inPort[j].data, pos[j], pos[j - 1])
      BY <2>1 DEF InPlace
    <3>2. CASE j = i
      <4>1. PICK o, h, x, h2, hi :
              /\ o = outPort[i].data /\ h = held[i] /\ x = inPort[i].data
              /\ h2 = held'[i] /\ hi = pos[i - 1]
        OBVIOUS
      <4>2. PICK lo \in Nat : lo = pos[i] BY <1>1
      <4>3. ChannelBytes(j) = c /\ ChannelBytes(j)' = c2 BY <1>1, <1>3, <1>9, <3>2 DEF ChannelBytes
      <4>4. StageOK(c, o, h, x, lo, hi) BY <3>1, <3>2, <4>1, <4>2, <4>3
      <4>5. Around(o, h, x, D, h2, x) BY <4>1
      <4>6. StageOK(c, D, h2, x, lo, hi) BY <4>4, <4>5 DEF Around
      <4>7. StageOK(c2, <<>>, h2, x, lo, hi) BY <1>5, <4>6, StageWrites
      <4> QED BY <1>7, <1>8, <3>2, <4>1, <4>2, <4>3, <4>7
    <3>3. CASE j # i
      <4>1. ChannelBytes(j)' = ChannelBytes(j)
        <5>1. CASE j = Stages BY <1>6, <5>1 DEF ChannelBytes
        <5>2. CASE j # Stages
          <6>1. j \in 1..(Stages - 1) BY <1>1, <5>2
          <6> QED BY <1>9, <3>3, <5>2, <6>1 DEF ChannelBytes
        <5> QED BY <5>1, <5>2
      <4> QED BY <1>8, <3>1, <3>3, <4>1
    <3> QED BY <3>2, <3>3
  <2>3. InPlace(pos)' BY <1>6, <2>1, <2>2 DEF InPlace
  <2> QED BY <2>3 DEF ChainOK
<1> QED BY <1>10, <1>11, <1>12, <1>13 DEF IInv

\* A write packet is taken, by the engine or by a buffer.
LEMMA TakeWriteStep ==
  ASSUME IInv, NEW i \in 1..Stages, NEW p \in PortType, ~p.retryReq,
         NEW D \in Seq(Nat), Len(D) = OutSize[i], OutValid(i), TakeWrite(i, p, D),
         UNCHANGED <<inPort, host, starts, mem>>, held' \in [1..Stages -> Seq(Nat)],
         \A j \in 1..Stages : j # i => held'[j] = held[j],
         Around(outPort[i].data, held[i], inPort[i].data, D, held'[i], inPort[i].data)
  PROVE  IInv'
<1>1. CASE i = Stages BY <1>1, TakeWriteEngine
<1>2. CASE i # Stages
  <2>1. i \in 1..(Stages - 1) BY <1>2, PipelineAssumption
  <2> QED BY <2>1, TakeWriteBuffer
<1> QED BY <1>1, <1>2

\* A read packet is taken, from the engine or from a buffer.
LEMMA TakeReadStep ==
  ASSUME IInv, NEW i \in 1..Stages, NEW p \in PortType, ~p.retryReq, inPort[i].pkt # "taken",
         InValid(i), TakeRead(i, p), UNCHANGED <<outPort, held, host, starts, mem>>
  PROVE  IInv'
<1>1. CASE i = 1 BY <1>1, TakeReadEngine
<1>2. CASE i # 1
  <2>1. i \in 2..Stages BY <1>2, PipelineAssumption
  <2> QED BY <2>1, TakeReadBuffer
<1> QED BY <1>1, <1>2

\* Changing only the port p of stage i to r.
LEMMA InPortStep ==
  ASSUME IInv, NEW i \in 1..Stages, NEW r \in PortType, inPort' = [inPort EXCEPT ![i] = r],
         UNCHANGED <<dma, buffer, outPort, held, host, starts, mem>>,
         r.data = inPort[i].data, InOK(i)'
  PROVE  IInv'
<1>1. /\ inPort \in [1..Stages -> PortType] /\ outPort \in [1..Stages -> PortType]
      /\ held \in [1..Stages -> Seq(Nat)] /\ OutOK(i)
  BY DEF IInv, PortsOK
<1>2. /\ inPort' \in [1..Stages -> PortType] /\ inPort'[i] = r
      /\ \A j \in 1..Stages : j # i => inPort'[j] = inPort[j]
  BY <1>1
<1>3. OutOK(i)' BY <1>1 DEF OutOK, OutValid
<1>4. Around(outPort[i].data, held[i], inPort[i].data, outPort'[i].data, held'[i], inPort'[i].data)
  BY <1>2 DEF Around
<1> QED BY <1>1, <1>2, <1>3, <1>4, StageStep

\* A stage sends a read packet.
LEMMA SendReadStep ==
  ASSUME IInv, NEW i \in 1..Stages, SendRead(i)
  PROVE  IInv'
<1>1. /\ inPort[i].pkt = "none" /\ InValid(i)
      /\ UNCHANGED <<outPort, held, host, starts, mem>>
  BY DEF SendRead
<1>2. InOK(i) /\ inPort \in [1..Stages -> PortType] BY DEF IInv, PortsOK
<1>3. PICK p \in PortType : p = inPort[i] BY <1>2
<1>4. ~p.retryReq /\ p.data = <<>> BY <1>1, <1>2, <1>3 DEF InOK, PortOK
<1>5. CASE inPort[i].isBusy
  <2>1. PICK r : r = Refused(p, <<>>) OBVIOUS
  <2>2. /\ r \in PortType /\ r.pkt = "stalled" /\ r.data = <<>> /\ r.isBusy = p.isBusy
        /\ (p.isBusy => r.retryReq)
    <3>1. <<>> \in Seq(Nat) OBVIOUS
    <3> QED BY <2>1, <3>1, PortRefuses
  <2>3. inPort' = [inPort EXCEPT ![i] = r] /\ UNCHANGED <<dma, buffer>>
    BY <1>3, <1>5, <2>1 DEF SendRead
  <2>4. inPort'[i] = r /\ InValid(i)' BY <1>1, <1>2, <2>3 DEF InValid
  <2>5. InOK(i)' BY <1>3, <1>5, <2>2, <2>4 DEF InOK, PortOK
  <2> QED BY <1>1, <1>3, <1>4, <2>2, <2>3, <2>5, InPortStep
<1>6. CASE ~inPort[i].isBusy
  <2>1. TakeRead(i, p) BY <1>3, <1>6 DEF SendRead
  <2>2. inPort[i].pkt # "taken" BY <1>1
  <2> QED BY <1>1, <1>4, <2>1, <2>2, TakeReadStep
<1> QED BY <1>5, <1>6

\* The port of a stage is free again: a packet that it has refused is taken.
LEMMA ReleaseInStep ==
  ASSUME IInv, NEW i \in 1..Stages, ReleaseIn(i)
  PROVE  IInv'
<1>1. UNCHANGED <<outPort, held, host, starts, mem>> BY DEF ReleaseIn
<1>2. InOK(i) /\ inPort \in [1..Stages -> PortType] BY DEF IInv, PortsOK
<1>3. PICK p \in PortType, r \in PortType : p = inPort[i] /\ r = Released(p)
  BY <1>2, PortReleases
<1>4. r \in PortType /\ r.pkt = p.pkt /\ r.data = p.data /\ ~r.retryReq
  BY <1>3, PortReleases
<1>5. CASE p.retryReq
  <2>1. inPort[i].pkt = "stalled" /\ InValid(i) BY <1>2, <1>3, <1>5 DEF InOK, PortOK
  <2>2. TakeRead(i, r) BY <1>3, <1>5, <2>1 DEF ReleaseIn
  <2>3. inPort[i].pkt # "taken" BY <2>1
  <2> QED BY <1>1, <1>4, <2>1, <2>2, <2>3, TakeReadStep
<1>6. CASE ~p.retryReq
  <2>1. inPort' = [inPort EXCEPT ![i] = r] /\ UNCHANGED <<dma, buffer>>
    BY <1>3, <1>6 DEF ReleaseIn
  <2>2. inPort'[i] = r BY <1>2, <2>1
  <2>3. p.pkt # "stalled" BY <1>2, <1>3, <1>6 DEF InOK, PortOK
  <2>4. InOK(i)' BY <1>2, <1>3, <1>4, <2>2, <2>3 DEF InOK, PortOK
  <2> QED BY <1>1, <1>3, <1>4, <2>1, <2>4, InPortStep
<1> QED BY <1>5, <1>6

\* A stage sends a write packet.
LEMMA SendWriteStep ==
  ASSUME IInv, NEW i \in 1..Stages, SendWrite(i)
  PROVE  IInv'
<1>1. /\ outPort[i].pkt = "none" /\ OutValid(i)
      /\ UNCHANGED <<inPort, host, starts, mem>>
  BY DEF SendWrite
<1>2. /\ InOK(i) /\ OutOK(i) /\ outPort \in [1..Stages -> PortType]
      /\ inPort \in [1..Stages -> PortType] /\ held \in [1..Stages -> Seq(Nat)]
  BY DEF IInv, PortsOK
<1>3. PICK p \in PortType, h \in Seq(Nat), n \in Nat :
        p = outPort[i] /\ h = held[i] /\ n = OutSize[i]
  BY <1>2, PipelineAssumption
<1>4. ~p.retryReq /\ p.data = <<>> BY <1>1, <1>2, <1>3 DEF OutOK, PortOK
<1>5. n <= Len(h) BY <1>3 DEF SendWrite
<1>6. PICK D \in Seq(Nat), h2 \in Seq(Nat) :
        D = SubSeq(h, 1, n) /\ h2 = SubSeq(h, n + 1, Len(h)) /\ Len(D) = n
  <2>1. /\ SubSeq(h, 1, n) \in Seq(Nat) /\ Len(SubSeq(h, 1, n)) = n
        /\ SubSeq(h, n + 1, Len(h)) \in Seq(Nat)
    BY <1>5, Parts
  <2> QED BY <2>1
<1>7. held' = [held EXCEPT ![i] = h2] BY <1>3, <1>6 DEF SendWrite
<1>8. /\ held' \in [1..Stages -> Seq(Nat)] /\ held'[i] = h2
      /\ \A j \in 1..Stages : j # i => held'[j] = held[j]
  BY <1>2, <1>7
<1>9. PICK x : x = inPort[i].data OBVIOUS
<1>10. Around(<<>>, h, x, D, h2, x)
  <2>1. ASSUME NEW c, NEW hi, NEW lo \in Nat, StageOK(c, <<>>, h, x, lo, hi)
        PROVE  StageOK(c, D, h2, x, lo, hi)
    BY <1>5, <1>6, <2>1, StageOffers
  <2> QED BY <2>1 DEF Around
<1>11. CASE outPort[i].isBusy
  <2>1. PICK r : r = Refused(p, D) OBVIOUS
  <2>2. /\ r \in PortType /\ r.pkt = "stalled" /\ r.data = D /\ r.isBusy = p.isBusy
        /\ (p.isBusy => r.retryReq)
    BY <2>1, PortRefuses
  <2>3. outPort' = [outPort EXCEPT ![i] = r] /\ UNCHANGED <<dma, buffer>>
    BY <1>3, <1>6, <1>11, <2>1 DEF SendWrite
  <2>4. /\ outPort' \in [1..Stages -> PortType] /\ outPort'[i] = r
        /\ \A j \in 1..Stages : j # i => outPort'[j] = outPort[j]
    BY <1>2, <2>2, <2>3
  <2>5. OutValid(i)' BY <1>1, <2>3 DEF OutValid
  <2>6. OutOK(i)' BY <1>3, <1>6, <1>11, <2>2, <2>4, <2>5 DEF OutOK, PortOK
  <2>7. InOK(i)' BY <1>1, <1>2, <2>3 DEF InOK, InValid
  <2>8. Around(outPort[i].data, held[i], inPort[i].data, outPort'[i].data, held'[i], inPort'[i].data)
    BY <1>1, <1>3, <1>4, <1>8, <1>9, <1>10, <2>2, <2>4
  <2> QED BY <1>1, <1>2, <1>8, <2>3, <2>4, <2>6, <2>7, <2>8, StageStep
<1>12. CASE ~outPort[i].isBusy
  <2>1. TakeWrite(i, p, D) BY <1>3, <1>6, <1>12 DEF SendWrite
  <2>2. Around(outPort[i].data, held[i], inPort[i].data, D, held'[i], inPort[i].data)
    BY <1>3, <1>4, <1>8, <1>9, <1>10
  <2>3. Len(D) = OutSize[i] BY <1>3, <1>6
  <2> QED BY <1>1, <1>4, <1>8, <2>1, <2>2, <2>3, TakeWriteStep
<1> QED BY <1>11, <1>12

\* The port that a stage writes to is free again.
LEMMA ReleaseOutStep ==
  ASSUME IInv, NEW i \in 1..Stages, ReleaseOut(i)
  PROVE  IInv'
<1>1. UNCHANGED <<inPort, held, host, starts, mem>> BY DEF ReleaseOut
<1>2. /\ InOK(i) /\ OutOK(i) /\ outPort \in [1..Stages -> PortType]
      /\ inPort \in [1..Stages -> PortType] /\ held \in [1..Stages -> Seq(Nat)]
  BY DEF IInv, PortsOK
<1>3. PICK p \in PortType, r \in PortType : p = outPort[i] /\ r = Released(p)
  BY <1>2, PortReleases
<1>4. r \in PortType /\ r.pkt = p.pkt /\ r.data = p.data /\ ~r.retryReq
  BY <1>3, PortReleases
<1>5. PICK D \in Seq(Nat) : D = p.data BY DEF PortType
<1>6. Around(outPort[i].data, held[i], inPort[i].data, D, held'[i], inPort[i].data)
  BY <1>1, <1>3, <1>5 DEF Around
<1>7. CASE p.retryReq
  <2>1. p.pkt = "stalled" /\ OutValid(i) /\ Len(D) = OutSize[i]
    BY <1>2, <1>3, <1>5, <1>7 DEF OutOK, PortOK
  <2>2. TakeWrite(i, r, D) BY <1>3, <1>5, <1>7, <2>1 DEF ReleaseOut
  <2>3. held' \in [1..Stages -> Seq(Nat)] /\ \A j \in 1..Stages : j # i => held'[j] = held[j]
    BY <1>1, <1>2
  <2> QED BY <1>1, <1>4, <1>6, <2>1, <2>2, <2>3, TakeWriteStep
<1>8. CASE ~p.retryReq
  <2>1. outPort' = [outPort EXCEPT ![i] = r] /\ UNCHANGED <<dma, buffer>>
    BY <1>3, <1>8 DEF ReleaseOut
  <2>2. /\ outPort' \in [1..Stages -> PortType] /\ outPort'[i] = r
        /\ \A j \in 1..Stages : j # i => outPort'[j] = outPort[j]
    BY <1>2, <1>4, <2>1
  <2>3. p.pkt # "stalled" BY <1>2, <1>3, <1>8 DEF OutOK, PortOK
  <2>4. OutOK(i)' BY <1>2, <1>3, <1>4, <2>2, <2>3 DEF OutOK, PortOK
  <2>5. InOK(i)' BY <1>1, <1>2, <2>1 DEF InOK, InValid
  <2>6. Around(outPort[i].data, held[i], inPort[i].data, outPort'[i].data, held'[i], inPort'[i].data)
    BY <1>1, <1>3, <1>4, <1>5, <1>6, <2>2
  <2> QED BY <1>1, <1>2, <2>1, <2>2, <2>4, <2>5, <2>6, StageStep
<1> QED BY <1>7, <1>8

\* Nothing that the invariant is about changes.
LEMMA StutterStep ==
  ASSUME IInv, UNCHANGED vars
  PROVE  IInv'
<1>1. UNCHANGED <<dma, buffer, inPort, outPort, held, host, starts, mem>> BY DEF vars, chain
<1>2. SidesOK' /\ HostOK' BY <1>1 DEF IInv, SidesOK, HostOK
<1>3. MemOK(mem)' /\ Landed(dma["wr"], starts, mem)' BY <1>1 DEF IInv, MemOK
<1>4. PortsOK' BY <1>1 DEF IInv, PortsOK, InOK, OutOK, InValid, OutValid
<1>5. ChainOK' BY <1>1 DEF IInv, ChainOK, InPlace, ChannelBytes
<1> QED BY <1>2, <1>3, <1>4, <1>5 DEF IInv

(***************************************************************************)
(* The theorems                                                            *)
(***************************************************************************)

\* Every step keeps the invariant.
LEMMA NextStep ==
  ASSUME IInv, [Next]_vars
  PROVE  IInv'
<1>1. CASE HostStart BY <1>1, HostStartStep
<1>2. CASE HostPoll BY <1>2, HostPollStep
<1>3. CASE Tick BY <1>3, TickStep
<1>4. CASE MemoryAnswers BY <1>4, ReadCompletesStep, WriteCompletesStep DEF MemoryAnswers
<1>5. CASE PortsAndStages
  <2>1. PICK i \in 1..Stages : \/ SendRead(i) \/ ReleaseIn(i) \/ AnswerRead(i)
                               \/ SendWrite(i) \/ ReleaseOut(i) \/ AnswerWrite(i)
    BY <1>5 DEF PortsAndStages
  <2> QED BY <2>1, SendReadStep, ReleaseInStep, AnswerReadStep, SendWriteStep, ReleaseOutStep,
             AnswerWriteStep
<1>6. CASE UNCHANGED vars BY <1>6, StutterStep
<1> QED BY <1>1, <1>2, <1>3, <1>4, <1>5, <1>6 DEF Next

\* A FIFO that has not been started.
LEMMA NewSide ==
  ASSUME NEW d \in Dirs
  PROVE  /\ SideOK(IdleSide, d, 0) /\ StreamEnd(IdleSide, d, 0) = 0
         /\ Origin(IdleSide, d, 0) = 0 /\ StreamNext(IdleSide, d, 0) = 0
         /\ IdleSide.fifo = EmptyFifo /\ IdleSide \in SideType /\ IdleSide.flags = {}
         /\ ~IdleSide.running
<1>1. PICK T \in Nat : T = Total(d) BY Sizes
<1>2. 0 * T = 0 BY Times
<1>3. /\ IdleSide.fifo = EmptyFifo /\ IdleSide.flags = {} /\ ~IdleSide.running
      /\ EmptyFifo.nextAddr = 0 /\ EmptyFifo.endAddr = 0 /\ EmptyFifo.pending = <<>>
  BY DEF IdleSide, EmptyFifo
<1>4. EmptyFifo \in FifoOf(Nat) BY DEF EmptyFifo, FifoOf
<1>5. IdleSide \in SideType BY <1>4 DEF IdleSide, SideType, Bits
<1>6. SideOK(IdleSide, d, 0) BY <1>3, <1>5 DEF SideOK
<1>7. StreamEnd(IdleSide, d, 0) = 0 BY <1>1, <1>2, <1>3 DEF StreamEnd
<1> QED BY <1>3, <1>5, <1>6, <1>7 DEF Origin, StreamNext

\* The invariant holds at first.
LEMMA InitStep == Init => IInv
<1> SUFFICES ASSUME Init PROVE IInv OBVIOUS
<1>1. /\ dma = [d \in Dirs |-> IdleSide] /\ host = "idle" /\ starts = 0
      /\ buffer = [i \in 1..(Stages - 1) |-> <<>>] /\ held = [i \in 1..Stages |-> <<>>]
      /\ inPort = [i \in 1..Stages |-> FreePort] /\ outPort = [i \in 1..Stages |-> FreePort]
      /\ mem = [a \in Addresses |-> a]
  BY DEF Init
<1>2. "rd" \in Dirs /\ "wr" \in Dirs /\ dma["rd"] = IdleSide /\ dma["wr"] = IdleSide
  BY <1>1 DEF Dirs
<1>3. /\ EmptyFifo.buffer = <<>> /\ EmptyFifo.nextAddr = 0 /\ EmptyFifo.endAddr = 0
      /\ EmptyFifo.pending = <<>> /\ Len(<<>>) = 0 /\ EmptyFifo \in FifoOf(Nat)
      /\ SizePending(EmptyFifo) = 0
  BY DEF EmptyFifo, FifoOf, SizePending
<1>4. Shape(EmptyFifo) BY <1>3 DEF Shape, Tiled
<1>5. ReadPos(EmptyFifo) = 0
  <2>1. Len(EmptyFifo.buffer) = 0 BY <1>3
  <2>2. 0 - 0 - 0 = 0 OBVIOUS
  <2> QED BY <1>3, <2>1, <2>2 DEF ReadPos
<1>6. FifoSize \in Nat /\ BufferSize \in Nat /\ MaxStarts \in Nat /\ Stages \in Nat
      /\ Stages >= 1
  BY FifoAssumption, BufferAssumption, PipelineAssumption
<1>7. GoodRead(Nat, Source, 0, 0, EmptyFifo) BY <1>3, <1>4, <1>5, <1>6 DEF GoodRead
<1>8. Emptying(Nat, Source, 0, EmptyFifo) BY <1>3, <1>4, <1>6 DEF Emptying
<1>9. SidesOK
  <2>1. ReadSide(IdleSide, 0) BY <1>2, <1>7, NewSide DEF ReadSide
  <2>2. WriteSide(IdleSide, 0) BY <1>2, <1>8, NewSide DEF WriteSide
  <2>3. IdleSide \in SideType BY <1>2, NewSide
  <2> QED BY <1>1, <1>2, <2>1, <2>2, <2>3 DEF SidesOK
<1>10. HostOK
  <2>1. \A d \in Dirs : dma[d] = IdleSide BY <1>1
  <2>2. IdleSide.flags = {} /\ ~IdleSide.running BY <1>2, NewSide
  <2> QED BY <1>1, <1>2, <1>6, <2>1, <2>2 DEF HostOK
<1>11. FreePort \in PortType /\ PortOK(FreePort) /\ FreePort.pkt = "none" /\ FreePort.data = <<>>
  <2>1. <<>> \in Seq(Nat) OBVIOUS
  <2> QED BY <2>1 DEF FreePort, PortType, PortOK
<1>12. PortsOK
  <2>1. /\ inPort \in [1..Stages -> PortType] /\ outPort \in [1..Stages -> PortType]
        /\ \A i \in 1..Stages : inPort[i] = FreePort /\ outPort[i] = FreePort
    BY <1>1, <1>11
  <2>2. held \in [1..Stages -> Seq(Nat)] BY <1>1
  <2>3. /\ buffer \in [1..(Stages - 1) -> Seq(Nat)]
        /\ \A i \in 1..(Stages - 1) : Len(buffer[i]) <= BufferSize
    BY <1>1, <1>6
  <2>4. \A i \in 1..Stages : InOK(i) /\ OutOK(i) BY <1>11, <2>1 DEF InOK, OutOK
  <2> QED BY <2>1, <2>2, <2>3, <2>4 DEF PortsOK
<1>13. ChainOK
  <2> DEFINE pos == [i \in 0..Stages |-> 0]
  <2>1. pos \in [0..Stages -> Nat] /\ pos[0] = 0 /\ pos[Stages] = 0
        /\ \A i \in 1..Stages : pos[i] = 0 /\ pos[i - 1] = 0
    BY <1>6
  <2> HIDE DEF pos
  <2>2. StageOK(<<>>, <<>>, <<>>, <<>>, 0, 0) BY <1>3 DEF StageOK, At
  <2>3. \A i \in 1..Stages : ChannelBytes(i) = <<>>
    <3>1. IdleSide.fifo = EmptyFifo BY <1>2, NewSide
    <3>2. \A i \in 1..Stages : i # Stages => i \in 1..(Stages - 1) BY <1>6
    <3> QED BY <1>1, <1>2, <1>3, <3>1, <3>2 DEF ChannelBytes
  <2>4. \A i \in 1..Stages : /\ outPort[i].data = <<>> /\ held[i] = <<>>
                             /\ inPort[i].data = <<>>
    BY <1>1, <1>11
  <2>5. ReadNext(dma["rd"], starts) = 0
    <3>1. IdleSide.fifo = EmptyFifo /\ Origin(IdleSide, "rd", 0) = 0 BY <1>2, NewSide
    <3> QED BY <1>1, <1>2, <1>5, <3>1 DEF ReadNext
  <2>6. StreamNext(dma["wr"], "wr", starts) = 0 BY <1>1, <1>2, NewSide
  <2>7. InPlace(pos) BY <2>1, <2>2, <2>3, <2>4, <2>5, <2>6 DEF InPlace
  <2> QED BY <2>1, <2>7 DEF ChainOK
<1>14. MemOK(mem)
  <2>1. \A d \in Dirs : Base[d] \in Nat /\ MaxStarts * Total(d) \in Nat BY Sizes, Times
  <2>2. \A d \in Dirs : \A a \in Base[d]..(Base[d] + MaxStarts * Total(d) - 1) : a \in Nat
    BY <2>1
  <2>3. \A a \in Addresses : a \in Nat BY <2>2 DEF Addresses
  <2>4. \A a \in Region("rd") : a \in Addresses BY Regions
  <2> QED BY <1>1, <2>3, <2>4 DEF MemOK
<1>15. Landed(dma["wr"], starts, mem)
  <2>1. StreamNext(dma["wr"], "wr", starts) = 0 BY <1>1, <1>2, NewSide
  <2>2. 0..(0 - 1) = {} OBVIOUS
  <2> QED BY <2>1, <2>2 DEF Landed
<1> QED BY <1>9, <1>10, <1>12, <1>13, <1>14, <1>15 DEF IInv

\* The invariant holds in every state.
LEMMA Invariant == Spec => []IInv
<1>1. IInv /\ [Next]_vars => IInv' BY NextStep
<1> QED BY <1>1, InitStep, PTL DEF Spec

\* A packet that a stream port has refused, because it was busy, is called for,
\* and can be taken then: recvTimingReq() never refuses one that is not retried,
\* and nobody takes away the bytes or the room it waits for.
THEOREM RefusedPackets == Spec => []RefusedIsRetried
<1>1. IInv => RefusedIsRetried BY DEF IInv, PortsOK, InOK, OutOK, PortOK, RefusedIsRetried
<1> QED BY <1>1, Invariant, PTL

\* No FIFO of the engine and no StreamBuffer ever holds more than its size.
THEOREM NothingOverruns == Spec => []NoOverrun
<1>1. IInv => NoOverrun
  <2> SUFFICES ASSUME IInv PROVE NoOverrun OBVIOUS
  <2>1. PICK k \in Nat : k = starts BY Sizes, PipelineAssumption DEF IInv, HostOK
  <2>2. ReadSide(dma["rd"], k) /\ WriteSide(dma["wr"], k) BY <2>1 DEF IInv, SidesOK
  <2>3. Len(dma["rd"].fifo.buffer) + SizePending(dma["rd"].fifo) <= FifoSize
    BY <2>2, ReadHolds
  <2>4. Len(dma["wr"].fifo.buffer) <= FifoSize BY <2>2, WriteHolds
  <2> QED BY <2>3, <2>4 DEF IInv, PortsOK, NoOverrun
<1> QED BY <1>1, Invariant, PTL

\* When the host has seen the running bit clear, the engine is at rest and memory
\* holds every byte of every start at its place.
THEOREM IdleIsWritten == Spec => []IdleMeansWritten
<1>1. IInv => IdleMeansWritten
  <2> SUFFICES ASSUME IInv, host = "idle"
               PROVE  /\ \A d \in Dirs : ~dma[d].running /\ "start" \notin dma[d].flags
                      /\ \A j \in 0..(starts * Total("wr") - 1) :
                           \/ \E i \in (j + 1)..(starts * Total("wr") - 1) :
                                Place("wr", i) = Place("wr", j)
                           \/ mem[Place("wr", j)] = Place("rd", j)
    BY DEF IdleMeansWritten
  <2>1. \A d \in Dirs : ~dma[d].running /\ "start" \notin dma[d].flags
    BY DEF IInv, HostOK, Dirs
  <2>2. PICK k \in Nat : k = starts BY Sizes, PipelineAssumption DEF IInv, HostOK
  <2>3. "wr" \in Dirs BY DEF Dirs
  <2>4. PICK e : e = dma["wr"] OBVIOUS
  <2>5. SideOK(e, "wr", k) /\ Landed(e, k, mem) BY <2>2, <2>4 DEF IInv, SidesOK, WriteSide
  <2>6. e.fifo.pending = <<>> /\ e.fifo.nextAddr = e.fifo.endAddr
    BY <2>1, <2>3, <2>4, <2>5 DEF SideOK
  <2>7. PICK s \in Nat : s = starts * Total("wr") /\ s = StreamNext(e, "wr", k)
    <3>1. /\ StreamEnd(e, "wr", k) \in Nat /\ e.fifo.nextAddr \in Nat
          /\ e.fifo.endAddr \in Nat
      BY <2>3, <2>5, SideNumbers
    <3>2. StreamEnd(e, "wr", k) = k * Total("wr") BY <2>1, <2>3, <2>4 DEF StreamEnd
    <3>3. StreamNext(e, "wr", k) = StreamEnd(e, "wr", k) BY <2>6, <3>1 DEF StreamNext
    <3> QED BY <2>2, <3>1, <3>2, <3>3
  <2>8. ASSUME NEW j \in 0..(s - 1)
        PROVE  \/ \E i \in (j + 1)..(s - 1) : Place("wr", i) = Place("wr", j)
               \/ mem[Place("wr", j)] = Place("rd", j)
    <3>1. ByteLanded(j, s, e.fifo, mem) BY <2>5, <2>7 DEF Landed
    <3>2. Source[j] = Place("rd", j)
      <4>1. j \in Nat OBVIOUS
      <4> QED BY <4>1 DEF Source
    <3>3. ~(Place("wr", j) \in Unwritten(e.fifo) /\ Place("wr", j) < e.fifo.nextAddr)
      <4>1. e.fifo.nextAddr \in Nat BY <2>3, <2>5, SideNumbers
      <4>2. PICK a : a = Place("wr", j) OBVIOUS
      <4>3. a \in Unwritten(e.fifo) => a \in Nat /\ e.fifo.nextAddr <= a
        BY <2>6 DEF Unwritten
      <4> QED BY <4>1, <4>2, <4>3
    <3> QED BY <3>1, <3>2, <3>3 DEF ByteLanded
  <2> QED BY <2>1, <2>7, <2>8
<1> QED BY <1>1, Invariant, PTL

\* A piece of the stream is given by its place and its length.
LEMMA OnePiece ==
  ASSUME NEW o, NEW s, NEW t, At(s, o), At(t, o), Len(s) = Len(t)
  PROVE  s = t
<1>1. s \in Seq(Nat) /\ t \in Seq(Nat) BY DEF At
<1>2. \A j \in 1..Len(s) : s[j] = t[j] BY DEF At
<1> QED BY <1>1, <1>2, SeqEqual

\* The piece of the stream from o to r.
Piece(o, r) == [j \in 1..(r - o) |-> Source[o + j - 1]]

\* It is a piece.
LEMMA PieceIsAt ==
  ASSUME NEW o \in Nat, NEW r \in Nat, o <= r
  PROVE  At(Piece(o, r), o) /\ Len(Piece(o, r)) = r - o
<1>1. PICK n \in Nat : n = r - o OBVIOUS
<1>2. \A j \in 1..n : o + j - 1 \in Nat OBVIOUS
<1>3. \A i \in Nat : Source[i] \in Nat BY SourceBlock
<1>4. PICK p : p = [j \in 1..n |-> Source[o + j - 1]] OBVIOUS
<1>5. \A j \in 1..n : Source[o + j - 1] \in Nat BY <1>2, <1>3
<1>6. p \in Seq(Nat) /\ Len(p) = n /\ \A j \in 1..n : p[j] = Source[o + j - 1]
  BY <1>4, <1>5
<1>7. p = Piece(o, r) BY <1>1, <1>4 DEF Piece
<1>8. At(p, o) BY <1>6 DEF At
<1> QED BY <1>1, <1>6, <1>7, <1>8

\* The piece from lo to r is what is in a channel and its stage and then the piece
\* from hi to r.
Extends(c, o, h, i, lo, hi, r) == Piece(lo, r) = c \o (o \o h \o i) \o Piece(hi, r)

\* What is in a channel and its stage, followed by the piece that starts there, is
\* a piece.
LEMMA StageExtends ==
  ASSUME NEW lo \in Nat, NEW hi \in Nat, NEW c, NEW o, NEW h, NEW i,
         StageOK(c, o, h, i, lo, hi), NEW r \in Nat, hi <= r
  PROVE  Extends(c, o, h, i, lo, hi, r)
<1>1. /\ Len(c) \in Nat /\ Len(o) \in Nat /\ Len(h) \in Nat /\ Len(i) \in Nat
      /\ lo + Len(c) \in Nat /\ lo + Len(c) + Len(o) \in Nat
      /\ lo + Len(c) + Len(o) + Len(h) \in Nat
  BY StageNumbers
<1>2. PICK n \in Nat, m \in Nat, l \in Nat, z \in Nat :
        n = Len(c) /\ m = Len(o) /\ l = Len(h) /\ z = Len(i)
  BY <1>1
<1>3. PICK a \in Nat : a = lo + n OBVIOUS
<1>4. /\ At(c, lo) /\ At(o, a) /\ At(h, a + m) /\ At(i, a + m + l)
      /\ hi = a + m + l + z
  BY <1>2, <1>3 DEF StageOK
<1>5. At(o \o h, a) /\ Len(o \o h) = m + l BY <1>2, <1>4, AtJoin
<1>6. PICK u : u = o \o h OBVIOUS
<1>7. At(u, a) /\ Len(u) = m + l BY <1>5, <1>6
<1>8. a + (m + l) = a + m + l OBVIOUS
<1>9. At(i, a + Len(u)) BY <1>4, <1>7, <1>8
<1>10. PICK v : v = u \o i OBVIOUS
<1>11. At(v, a) /\ Len(v) = m + l + z
  <2>1. At(u, a) BY <1>7
  <2>2. At(v, a) /\ Len(v) = Len(u) + Len(i) BY <1>9, <1>10, <2>1, AtJoin
  <2> QED BY <1>2, <1>7, <2>2
<1>12. PICK w : w = c \o v OBVIOUS
<1>13. At(w, lo) /\ Len(w) = n + (m + l + z)
  <2>1. At(v, lo + Len(c)) BY <1>2, <1>3, <1>11
  <2>2. At(w, lo) /\ Len(w) = Len(c) + Len(v) BY <1>4, <1>12, <2>1, AtJoin
  <2> QED BY <1>2, <1>11, <2>2
<1>14. PICK p : p = Piece(hi, r) OBVIOUS
<1>15. At(p, hi) /\ Len(p) = r - hi BY <1>14, PieceIsAt
<1>16. lo + (n + (m + l + z)) = hi BY <1>3, <1>4
<1>17. At(p, lo + Len(w)) BY <1>13, <1>15, <1>16
<1>18. At(w \o p, lo) /\ Len(w \o p) = Len(w) + Len(p)
  <2>1. At(w, lo) BY <1>13
  <2> QED BY <1>17, <2>1, AtJoin
<1>19. lo <= r /\ Len(w) + Len(p) = r - lo BY <1>3, <1>4, <1>13, <1>15
<1>20. At(Piece(lo, r), lo) /\ Len(Piece(lo, r)) = r - lo BY <1>19, PieceIsAt
<1>21. Piece(lo, r) = w \o p BY <1>18, <1>19, <1>20, OnePiece
<1> QED BY <1>6, <1>10, <1>12, <1>14, <1>21 DEF Extends

\* Each stage ends where the channel before it begins.
Linked(pos) ==
  \A i \in 1..Stages :
    StageOK(ChannelBytes(i), outPort[i].data, held[i], inPort[i].data, pos[i], pos[i - 1])

\* All bytes under way are one piece.
LEMMA StreamIsPiece ==
  ASSUME NEW pos \in [0..Stages -> Nat], NEW r \in Nat, pos[0] <= r,
         At(dma["rd"].fifo.buffer, pos[0]), Len(dma["rd"].fifo.buffer) = r - pos[0],
         Linked(pos)
  PROVE  Stream = Piece(pos[Stages], r)
<1>1. Stages \in Nat /\ Stages >= 1 /\ Stages \in 1..Stages /\ 0 \in 0..Stages
  BY PipelineAssumption
<1>2. ASSUME NEW i \in 1..Stages PROVE pos[i] <= pos[0] /\ pos[i - 1] <= pos[0]
  <2>1. ASSUME NEW j \in 1..Stages PROVE pos[j] <= pos[j - 1]
    <3>1. j \in 0..Stages /\ j - 1 \in 0..Stages BY <1>1
    <3>2. PICK lo \in Nat, hi \in Nat : lo = pos[j] /\ hi = pos[j - 1] BY <3>1
    <3>3. PICK c, o, h, x : /\ c = ChannelBytes(j) /\ o = outPort[j].data /\ h = held[j]
                            /\ x = inPort[j].data
      OBVIOUS
    <3>4. StageOK(c, o, h, x, lo, hi) BY <3>2, <3>3 DEF Linked
    <3>5. Len(c) \in Nat /\ lo + Len(c) <= hi BY <3>4, StageNumbers
    <3>6. lo <= hi BY <3>5
    <3> QED BY <3>2, <3>6
  <2>2. \A j \in 1..Stages : pos[j] <= pos[0] BY <2>1, Ordered
  <2>3. CASE i = 1 BY <1>1, <2>2, <2>3
  <2>4. CASE i # 1
    <3>1. i - 1 \in 1..Stages BY <1>1, <2>4
    <3> QED BY <2>2, <3>1
  <2> QED BY <2>3, <2>4
<1> DEFINE F == [i \in 0..Stages |-> Piece(pos[i], r)]
<1>3. F[0] = dma["rd"].fifo.buffer
  <2>1. PICK o \in Nat : o = pos[0] /\ o <= r BY <1>1
  <2>2. At(Piece(o, r), o) /\ Len(Piece(o, r)) = r - o BY <2>1, PieceIsAt
  <2>3. Piece(o, r) = dma["rd"].fifo.buffer BY <2>1, <2>2, OnePiece
  <2> QED BY <1>1, <2>1, <2>3
<1> HIDE DEF F
<1>4. ASSUME NEW i \in 1..Stages PROVE F[i] = ChannelBytes(i) \o StageBytes(i) \o F[i - 1]
  <2>1. i \in 0..Stages /\ i - 1 \in 0..Stages BY <1>1
  <2>2. PICK lo \in Nat, hi \in Nat, z \in Nat : lo = pos[i] /\ hi = pos[i - 1] /\ z = pos[0]
    BY <1>1, <2>1
  <2>3. hi <= r
    <3>1. hi <= z /\ z <= r BY <1>2, <2>2
    <3> QED BY <3>1
  <2>4. PICK c, o, h, x : /\ c = ChannelBytes(i) /\ o = outPort[i].data /\ h = held[i]
                          /\ x = inPort[i].data
    OBVIOUS
  <2>5. StageOK(c, o, h, x, lo, hi) BY <2>2, <2>4 DEF Linked
  <2>6. Extends(c, o, h, x, lo, hi, r) BY <2>3, <2>5, StageExtends
  <2>7. StageBytes(i) = o \o h \o x BY <2>4 DEF StageBytes
  <2>8. F[i] = Piece(lo, r) /\ F[i - 1] = Piece(hi, r) BY <2>1, <2>2 DEF F
  <2> QED BY <2>4, <2>6, <2>7, <2>8 DEF Extends
<1>5. F[Stages] = Piece(pos[Stages], r) BY <1>1 DEF F
<1>6. F = [i \in 0..Stages |-> F[i]] BY DEF F
<1> DEFINE Gathers(g) ==
      g = [i \in 0..Stages |-> IF i = 0 THEN dma["rd"].fifo.buffer
                               ELSE ChannelBytes(i) \o StageBytes(i) \o g[i - 1]]
           up == CHOOSE g : Gathers(g)
<1>7. Stream = up[Stages] BY DEF Stream
<1>8. Gathers(F)
  <2>1. \A i \in 0..Stages : F[i] = IF i = 0 THEN dma["rd"].fifo.buffer
                                    ELSE ChannelBytes(i) \o StageBytes(i) \o F[i - 1]
    <3>1. \A i \in 0..Stages : i # 0 => i \in 1..Stages BY <1>1
    <3> QED BY <1>3, <1>4, <3>1
  <2> QED BY <1>6, <2>1
<1>9. Gathers(up)
  <2> HIDE DEF Gathers
  <2> QED BY <1>8 DEF up
<1>10. \A i \in 0..Stages : up[i] = IF i = 0 THEN dma["rd"].fifo.buffer
                                    ELSE ChannelBytes(i) \o StageBytes(i) \o up[i - 1]
  <2> HIDE DEF up
  <2> QED BY <1>9
<1> HIDE DEF up, Gathers
<1>11. up[0] = F[0] BY <1>1, <1>3, <1>10
<1> DEFINE S == {i \in 1..Stages : up[i] = F[i]}
<1>12. S = 1..Stages
  <2>1. S \in SUBSET (1..Stages) OBVIOUS
  <2>2. ASSUME NEW i \in 1..Stages, (1..(i - 1)) \subseteq S PROVE i \in S
    <3>1. up[i - 1] = F[i - 1]
      <4>1. CASE i = 1
        <5>1. i - 1 = 0 BY <4>1
        <5> QED BY <1>11, <5>1
      <4>2. CASE i # 1
        <5>1. i - 1 \in 1..(i - 1) BY <4>2
        <5> QED BY <2>2, <5>1
      <4> QED BY <4>1, <4>2
    <3>2. i \in 0..Stages /\ i # 0 BY <1>1
    <3>3. up[i] = F[i] BY <1>4, <1>10, <3>1, <3>2
    <3> QED BY <3>3
  <2> HIDE DEF S
  <2> QED BY <1>1, <2>1, <2>2, GoRound
<1>13. up[Stages] = F[Stages] BY <1>1, <1>12
<1> QED BY <1>5, <1>7, <1>13

\* What the property calls issued is where the next request of the direction starts.
LEMMA IssuedIs ==
  ASSUME NEW d \in Dirs, NEW k \in Nat, k = starts, SideOK(dma[d], d, k)
  PROVE  Issued(d) = StreamNext(dma[d], d, k)
<1>1. PICK e : e = dma[d] OBVIOUS
<1>2. PICK x \in Nat, y \in Nat, F \in Nat, T \in Nat :
        x = e.fifo.nextAddr /\ y = e.fifo.endAddr /\ F = FrameSize[d] /\ T = Total(d)
  <2>1. e.fifo.nextAddr \in Nat /\ e.fifo.endAddr \in Nat BY <1>1, SideNumbers
  <2> QED BY <2>1, Sizes
<1>3. CASE e.running
  <2>1. PICK h \in Nat, n \in Nat : h = k - 1 /\ n = e.frames
    <3>1. k >= 1 BY <1>1, <1>3 DEF SideOK
    <3>2. e.frames \in Nat BY <1>1 DEF SideOK, SideType
    <3>3. k - 1 \in Nat BY <3>1
    <3> QED BY <3>2, <3>3
  <2>2. PICK a \in Nat, b \in Nat : a = h * T /\ b = n * F BY Times
  <2>3. (n + 1) * F = b + F BY <2>2, Times
  <2>4. StreamNext(e, d, k) = (a + (b + F)) - (y - x)
    BY <1>2, <1>3, <2>1, <2>2, <2>3 DEF StreamNext, StreamEnd
  <2>5. Issued(d) = a + b + F - (y - x) BY <1>1, <1>2, <1>3, <2>1, <2>2 DEF Issued
  <2>6. (a + (b + F)) - (y - x) = a + b + F - (y - x) OBVIOUS
  <2> QED BY <1>1, <2>4, <2>5, <2>6
<1>4. CASE ~e.running
  <2>1. x = y BY <1>1, <1>2, <1>4 DEF SideOK
  <2>2. Issued(d) = StreamEnd(e, d, k) BY <1>1, <1>4 DEF Issued, StreamEnd
  <2>3. StreamEnd(e, d, k) \in Nat BY <1>1, SideNumbers
  <2>4. StreamNext(e, d, k) = StreamEnd(e, d, k) - (y - x) BY <1>2 DEF StreamNext
  <2> QED BY <1>1, <2>1, <2>2, <2>3, <2>4
<1> QED BY <1>3, <1>4

\* The bytes under way from the read FIFO through all stages to the write FIFO are
\* a piece of the source, each once and in order: no refusal, retry or late answer
\* in any of the accelerators loses, repeats or swaps a byte, for any number of
\* them.
THEOREM StreamStaysIntact == Spec => []StreamIntact
<1>1. IInv => StreamIntact
  <2> SUFFICES ASSUME IInv PROVE StreamIntact OBVIOUS
  <2>1. "rd" \in Dirs /\ "wr" \in Dirs BY DEF Dirs
  <2>2. PICK k \in Nat : k = starts BY Sizes, PipelineAssumption DEF IInv, HostOK
  <2>3. /\ ReadSide(dma["rd"], k) /\ WriteSide(dma["wr"], k)
        /\ SideOK(dma["rd"], "rd", k) /\ SideOK(dma["wr"], "wr", k)
    BY <2>2 DEF IInv, SidesOK, ReadSide, WriteSide
  <2>4. PICK e : e = dma["rd"] OBVIOUS
  <2>5. /\ ReadNext(e, k) \in Nat /\ At(e.fifo.buffer, ReadNext(e, k))
        /\ Len(e.fifo.buffer) \in Nat /\ SizePending(e.fifo) \in Nat
        /\ ReadNext(e, k) + Len(e.fifo.buffer) + SizePending(e.fifo) = StreamNext(e, "rd", k)
    BY <2>3, <2>4, ReadHolds
  <2>6. PICK l \in Nat, z \in Nat, p \in Nat :
          l = Len(e.fifo.buffer) /\ z = SizePending(e.fifo) /\ p = ReadNext(e, k)
    BY <2>5
  <2>7. PICK r \in Nat : r = p + l OBVIOUS
  <2>8. Issued("rd") = p + l + z BY <2>1, <2>2, <2>3, <2>4, <2>5, <2>6, IssuedIs
  <2>9. PICK pos \in [0..Stages -> Nat] : InPlace(pos) BY DEF IInv, ChainOK
  <2>10. Stages \in 0..Stages /\ Stages \in 1..Stages /\ 0 \in 0..Stages BY PipelineAssumption
  <2>11. PICK first \in Nat : first = pos[Stages] /\ first = Issued("wr")
    <3>1. pos[Stages] = StreamNext(dma["wr"], "wr", starts) BY <2>9 DEF InPlace
    <3>2. Issued("wr") = StreamNext(dma["wr"], "wr", k) BY <2>1, <2>2, <2>3, IssuedIs
    <3> QED BY <2>2, <2>10, <3>1, <3>2
  <2>12. pos[0] = p BY <2>2, <2>4, <2>6, <2>9 DEF InPlace
  <2>13. Stream = Piece(first, r)
    <3>1. pos[0] <= r /\ Len(dma["rd"].fifo.buffer) = r - pos[0]
      BY <2>4, <2>6, <2>7, <2>12
    <3>2. At(dma["rd"].fifo.buffer, pos[0]) BY <2>4, <2>5, <2>6, <2>12
    <3>3. Linked(pos) BY <2>9 DEF InPlace, Linked
    <3> QED BY <2>11, <3>1, <3>2, <3>3, StreamIsPiece
  <2>14. first <= r
    <3>1. ASSUME NEW j \in 1..Stages PROVE pos[j] <= pos[j - 1]
      <4>1. j \in 0..Stages /\ j - 1 \in 0..Stages BY PipelineAssumption
      <4>2. PICK lo \in Nat, hi \in Nat : lo = pos[j] /\ hi = pos[j - 1] BY <4>1
      <4>3. PICK c, o, h, x : /\ c = ChannelBytes(j) /\ o = outPort[j].data /\ h = held[j]
                              /\ x = inPort[j].data
        OBVIOUS
      <4>4. StageOK(c, o, h, x, lo, hi) BY <2>9, <4>2, <4>3 DEF InPlace
      <4>5. Len(c) \in Nat /\ lo + Len(c) <= hi BY <4>4, StageNumbers
      <4>6. lo <= hi BY <4>5
      <4> QED BY <4>2, <4>6
    <3>2. first <= p BY <2>10, <2>11, <2>12, <3>1, Ordered
    <3> QED BY <2>7, <3>2
  <2>15. PICK s : s = Stream OBVIOUS
  <2>16. At(s, first) /\ Len(s) = r - first BY <2>13, <2>14, <2>15, PieceIsAt
  <2>17. Issued("rd") - SizePending(dma["rd"].fifo) = r BY <2>4, <2>6, <2>7, <2>8
  <2>18. \A j \in 1..Len(s) : s[j] = Place("rd", first + j - 1)
    <3>1. SUFFICES ASSUME NEW j \in 1..Len(s) PROVE s[j] = Place("rd", first + j - 1) OBVIOUS
    <3>2. s[j] = Source[first + j - 1] BY <2>16 DEF At
    <3>3. first + j - 1 \in Nat
      <4>1. PICK n \in Nat : n = r - first BY <2>14
      <4>2. j \in 1..n BY <2>16, <4>1
      <4> QED BY <4>2
    <3> QED BY <3>2, <3>3 DEF Source
  <2> QED BY <2>11, <2>15, <2>16, <2>17, <2>18 DEF StreamIntact
<1> QED BY <1>1, Invariant, PTL
=============================================================================
