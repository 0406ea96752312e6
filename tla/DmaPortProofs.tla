---------------------------- MODULE DmaPortProofs ---------------------------
(***************************************************************************)
(* Proofs about DmaPort for any number of actions, any blocks and any      *)
(* cache line size.                                                        *)
(***************************************************************************)
EXTENDS DmaPort, SequenceTheorems, FiniteSetTheorems, TLAPS

----------------------------------------------------------------------------
(***************************************************************************)
(* The packets of an action                                                *)
(***************************************************************************)
Block(a) == Addr[a]..(Addr[a] + Size[a] - 1)

\* A number lies in the line that division finds.
LEMMA InLine ==
  ASSUME NEW n \in Nat
  PROVE  /\ n \div LineSize \in Nat
         /\ (n \div LineSize) * LineSize <= n
         /\ n < (n \div LineSize) * LineSize + LineSize
BY LineAssumption, Z3

\* Later lines start where earlier ones have ended.
LEMMA LinesApart ==
  ASSUME NEW i \in Nat, NEW j \in Nat, i < j
  PROVE  i * LineSize + LineSize <= j * LineSize
<1>1. LineSize \in Nat
  BY LineAssumption
<1>2. PICK d \in Nat : j = i + 1 + d
  <2>1. j - i - 1 \in Nat /\ j = i + 1 + (j - i - 1)
    OBVIOUS
  <2>2. QED
    BY <2>1
<1>3. j * LineSize = i * LineSize + LineSize + d * LineSize
  BY <1>1, <1>2, Z3
<1>4. d * LineSize \in Nat /\ i * LineSize \in Nat
  BY <1>1, Z3
<1>5. QED
  BY <1>1, <1>3, <1>4

\* The lines that a block touches, from its first to its last.
LEMMA LinesOfBlock ==
  ASSUME NEW a \in Actions
  PROVE  /\ Addr[a] \in Nat /\ Size[a] \in Nat /\ Size[a] > 0
         /\ FirstLine(a) \in Nat /\ Chunks(a) \in Nat /\ Chunks(a) > 0
         /\ \A b \in Block(a) : b \div LineSize - FirstLine(a) + 1 \in 1..Chunks(a)
<1>1. Addr[a] \in Nat /\ Size[a] \in Nat /\ Size[a] > 0
  BY BlockAssumption
<1> DEFINE last == Addr[a] + Size[a] - 1
<1>2. last \in Nat /\ Addr[a] <= last
  BY <1>1
<1>3. ASSUME NEW m \in Nat, NEW n \in Nat, m <= n
      PROVE  m \div LineSize <= n \div LineSize
  <2>1. SUFFICES ASSUME n \div LineSize < m \div LineSize PROVE FALSE
    BY <1>3, InLine
  <2>2. (n \div LineSize) * LineSize + LineSize <= (m \div LineSize) * LineSize
    BY <2>1, InLine, LinesApart
  <2>3. (n \div LineSize) * LineSize \in Nat /\ (m \div LineSize) * LineSize \in Nat
    BY InLine, LineAssumption
  <2>4. QED
    BY <1>3, <2>2, <2>3, InLine, LineAssumption
<1>4. FirstLine(a) \in Nat /\ last \div LineSize \in Nat /\ FirstLine(a) <= last \div LineSize
  BY <1>1, <1>2, <1>3, InLine DEF FirstLine
<1>5. Chunks(a) = last \div LineSize - FirstLine(a) + 1
  BY DEF Chunks
<1>6. ASSUME NEW b \in Block(a)
      PROVE  /\ b \div LineSize \in Nat
             /\ FirstLine(a) <= b \div LineSize /\ b \div LineSize <= last \div LineSize
  <2>1. b \in Nat /\ Addr[a] <= b /\ b <= last
    BY <1>1 DEF Block
  <2>2. QED
    BY <1>1, <1>2, <1>3, <2>1, InLine DEF FirstLine
<1> HIDE DEF last
<1>7. QED
  BY <1>1, <1>4, <1>5, <1>6

\* A packet is a piece, not empty, of its action's block and of its line.
LEMMA ChunkShape ==
  ASSUME NEW a \in Actions, NEW k \in 1..Chunks(a)
  PROVE  LET p == Chunk(a, k)
             line == (FirstLine(a) + k - 1) * LineSize
         IN  /\ p.act = a /\ p.addr \in Nat /\ p.size \in Nat /\ p.size > 0
             /\ Addr[a] <= p.addr /\ p.addr + p.size <= Addr[a] + Size[a]
             /\ line \in Nat /\ line <= p.addr /\ p.addr + p.size <= line + LineSize
             /\ \A b \in Block(a) : line <= b /\ b < line + LineSize => b \in Bytes(p)
<1> DEFINE line == (FirstLine(a) + k - 1) * LineSize
           last == (Addr[a] + Size[a] - 1) \div LineSize
<1>1. /\ Addr[a] \in Nat /\ Size[a] \in Nat /\ Size[a] > 0 /\ FirstLine(a) \in Nat
      /\ LineSize \in Nat /\ LineSize > 0 /\ k \in Nat /\ k >= 1
      /\ Chunks(a) \in Nat /\ k <= Chunks(a)
  BY LinesOfBlock, LineAssumption
<1>2. line \in Nat /\ FirstLine(a) + k - 1 \in Nat
  BY <1>1, Z3
<1>3. Addr[a] < line + LineSize
  <2>1. Addr[a] < FirstLine(a) * LineSize + LineSize
    BY <1>1, InLine DEF FirstLine
  <2>2. FirstLine(a) * LineSize <= line
    <3>1. CASE k = 1
      BY <1>1, <3>1
    <3>2. CASE k > 1
      <4>1. FirstLine(a) * LineSize + LineSize <= line
        BY <1>1, <1>2, <3>2, LinesApart
      <4>2. FirstLine(a) * LineSize \in Nat
        BY <1>1, Z3
      <4>3. QED
        BY <1>1, <1>2, <4>1, <4>2
    <3>3. QED
      BY <1>1, <3>1, <3>2
  <2>3. FirstLine(a) * LineSize \in Nat
    BY <1>1, Z3
  <2>4. QED
    BY <1>1, <1>2, <2>1, <2>2, <2>3
<1>4. line < Addr[a] + Size[a]
  <2>1. /\ last \in Nat /\ last * LineSize \in Nat
        /\ last * LineSize <= Addr[a] + Size[a] - 1
    BY <1>1, InLine, Z3
  <2>2. Chunks(a) = last - FirstLine(a) + 1
    BY DEF Chunks
  <2> HIDE DEF last
  <2>3. line <= last * LineSize
    <3>1. CASE FirstLine(a) + k - 1 = last
      BY <3>1, <2>1
    <3>2. CASE FirstLine(a) + k - 1 < last
      <4>1. line + LineSize <= last * LineSize
        BY <1>2, <2>1, <3>2, LinesApart
      <4>2. QED
        BY <1>1, <1>2, <2>1, <4>1
    <3>3. QED
      BY <1>1, <2>1, <2>2, <3>1, <3>2
  <2>4. QED
    BY <1>1, <1>2, <2>1, <2>3
<1> DEFINE p == Chunk(a, k)
           from == IF line < Addr[a] THEN Addr[a] ELSE line
           to == IF line + LineSize < Addr[a] + Size[a] THEN line + LineSize
                                                        ELSE Addr[a] + Size[a]
<1>5. p.act = a /\ p.addr = from /\ p.size = to - from
  BY DEF Chunk
<1> HIDE DEF line, p
<1>6. /\ p.addr \in Nat /\ p.size \in Nat /\ p.size > 0
      /\ Addr[a] <= p.addr /\ p.addr + p.size <= Addr[a] + Size[a]
      /\ line <= p.addr /\ p.addr + p.size <= line + LineSize
  BY <1>1, <1>2, <1>3, <1>4, <1>5
<1>7. \A b \in Block(a) : line <= b /\ b < line + LineSize => b \in Bytes(p)
  BY <1>1, <1>2, <1>3, <1>4, <1>5 DEF Bytes, Block
<1>8. QED
  BY <1>2, <1>5, <1>6, <1>7 DEF line, p

\* A packet is determined by its bytes: those of different packets are disjoint.
LEMMA ChunksApart ==
  ASSUME NEW a \in Actions, NEW i \in 1..Chunks(a), NEW j \in 1..Chunks(a), i # j
  PROVE  /\ Chunk(a, i) # Chunk(a, j)
         /\ Bytes(Chunk(a, i)) \cap Bytes(Chunk(a, j)) = {}
<1>1. ASSUME NEW m \in 1..Chunks(a), NEW n \in 1..Chunks(a), m < n
      PROVE  Chunk(a, m).addr + Chunk(a, m).size <= Chunk(a, n).addr
  <2>1. /\ FirstLine(a) + m - 1 \in Nat /\ FirstLine(a) + n - 1 \in Nat
        /\ FirstLine(a) + m - 1 < FirstLine(a) + n - 1
    BY <1>1, LinesOfBlock
  <2>2. (FirstLine(a) + m - 1) * LineSize + LineSize <= (FirstLine(a) + n - 1) * LineSize
    BY <2>1, LinesApart
  <2>3. /\ (FirstLine(a) + m - 1) * LineSize \in Nat
        /\ (FirstLine(a) + n - 1) * LineSize \in Nat
        /\ Chunk(a, m).addr \in Nat /\ Chunk(a, m).size \in Nat /\ Chunk(a, n).addr \in Nat
        /\ Chunk(a, m).addr + Chunk(a, m).size <= (FirstLine(a) + m - 1) * LineSize + LineSize
        /\ (FirstLine(a) + n - 1) * LineSize <= Chunk(a, n).addr
    BY ChunkShape
  <2>4. QED
    BY <2>2, <2>3, LineAssumption
<1>2. /\ Chunk(a, i).addr \in Nat /\ Chunk(a, i).size \in Nat /\ Chunk(a, i).size > 0
      /\ Chunk(a, j).addr \in Nat /\ Chunk(a, j).size \in Nat /\ Chunk(a, j).size > 0
  BY ChunkShape
<1>3. i < j \/ j < i
  BY LinesOfBlock
<1>4. \/ Chunk(a, i).addr + Chunk(a, i).size <= Chunk(a, j).addr
      \/ Chunk(a, j).addr + Chunk(a, j).size <= Chunk(a, i).addr
  BY <1>1, <1>3
<1>5. QED
  BY <1>2, <1>4 DEF Bytes

\* The packets of an action cover its block.
LEMMA ChunksCover ==
  ASSUME NEW a \in Actions
  PROVE  UNION {Bytes(Chunk(a, k)) : k \in 1..Chunks(a)} = Block(a)
<1>1. ASSUME NEW k \in 1..Chunks(a) PROVE Bytes(Chunk(a, k)) \subseteq Block(a)
  BY ChunkShape, LinesOfBlock DEF Bytes, Block
<1>2. ASSUME NEW b \in Block(a)
      PROVE  \E k \in 1..Chunks(a) : b \in Bytes(Chunk(a, k))
  <2> DEFINE k == b \div LineSize - FirstLine(a) + 1
  <2>1. b \in Nat
    BY LinesOfBlock DEF Block
  <2>2. k \in 1..Chunks(a) /\ b \div LineSize \in Nat /\ FirstLine(a) \in Nat
    BY <2>1, LinesOfBlock, InLine
  <2>3. FirstLine(a) + k - 1 = b \div LineSize
    BY <2>2
  <2>4. /\ (FirstLine(a) + k - 1) * LineSize <= b
        /\ b < (FirstLine(a) + k - 1) * LineSize + LineSize
    BY <2>1, <2>3, InLine
  <2> HIDE DEF k
  <2>5. b \in Bytes(Chunk(a, k))
    BY <2>2, <2>4, ChunkShape
  <2>6. QED
    BY <2>2, <2>5
<1>3. QED
  BY <1>1, <1>2

----------------------------------------------------------------------------
(***************************************************************************)
(* The inductive invariant.  The parts of BytesAccountedFor are stated for *)
(* given values, so that the lemmas below speak of plain values.           *)
(***************************************************************************)
Elems(list) == {list[i] : i \in 1..Len(list)}
Distinct(list) == \A i, j \in 1..Len(list) : i # j => list[i] # list[j]

\* Every packet of the list or at the bus is there once, and is counted.
Counted(list, bus, count) ==
  /\ Distinct(list) /\ Elems(list) \cap bus = {}
  /\ count = Len(list) + Cardinality(bus)

Of(out, a) == {p \in out : p.act = a}

\* The bytes moved for action a and those of its packets make up its block.
Complete(out, a, n, mv) ==
  /\ n = Cardinality(mv) /\ n < Size[a]
  /\ mv \cup UNION {Bytes(p) : p \in Of(out, a)} = Block(a)
  /\ \A p \in Of(out, a) : Bytes(p) \cap mv = {}
  /\ \A p, q \in Of(out, a) : p # q => Bytes(p) \cap Bytes(q) = {}

Out == Elems(transmitList) \cup atBus

Types ==
  /\ transmitList \in Seq(AllPackets)
  /\ atBus \subseteq AllPackets /\ IsFiniteSet(atBus)
  /\ inRetry \in BOOLEAN /\ sendScheduled \in BOOLEAN /\ owed \in BOOLEAN
  /\ numBytes \in [Actions -> Nat]
  /\ live \subseteq Actions /\ completion \subseteq Actions /\ live \cap completion = {}
  /\ moved \in [Actions -> SUBSET Nat]

IInv == Types /\ SomebodySends /\ BytesAccountedFor

\* BytesAccountedFor in terms of the parts.
LEMMA AccountedParts ==
  BytesAccountedFor <=>
    /\ Counted(transmitList, atBus, pendingCount)
    /\ \A p \in Out : p.act \in live
    /\ \A a \in live : Complete(Out, a, numBytes[a], moved[a])
BY DEF BytesAccountedFor, Counted, Distinct, Elems, Queued, Out, Complete, Of, Block

\* BytesAccountedFor after a step, from the parts.
LEMMA AccountedNext ==
  ASSUME Counted(transmitList', atBus', pendingCount'),
         \A p \in Out' : p.act \in live',
         \A a \in live' : Complete(Out', a, numBytes'[a], moved'[a])
  PROVE  BytesAccountedFor'
BY DEF BytesAccountedFor, Counted, Distinct, Elems, Queued, Out, Complete, Of, Block

\* What every packet is like.
LEMMA PacketShape ==
  ASSUME NEW p \in AllPackets
  PROVE  /\ p.act \in Actions /\ p.addr \in Nat /\ p.size \in Nat /\ p.size > 0
         /\ Bytes(p) \subseteq Block(p.act) /\ Bytes(p) # {}
         /\ IsFiniteSet(Bytes(p)) /\ Cardinality(Bytes(p)) = p.size
<1>1. PICK a \in Actions : \E k \in 1..Chunks(a) : p = Chunk(a, k)
  BY DEF AllPackets
<1>2. PICK k \in 1..Chunks(a) : p = Chunk(a, k)
  BY <1>1
<1>3. /\ p.act = a /\ p.addr \in Nat /\ p.size \in Nat /\ p.size > 0
      /\ Addr[a] <= p.addr /\ p.addr + p.size <= Addr[a] + Size[a]
  BY <1>2, ChunkShape
<1>4. Bytes(p) \subseteq Block(a) /\ p.addr \in Bytes(p)
  BY <1>3, LinesOfBlock DEF Bytes, Block
<1>5. IsFiniteSet(Bytes(p)) /\ Cardinality(Bytes(p)) = p.size
  <2> DEFINE last == p.addr + p.size - 1
  <2>1. p.addr \in Int /\ last \in Int /\ ~(p.addr > last) /\ last - p.addr + 1 = p.size
    BY <1>3
  <2>2. Bytes(p) = p.addr..last
    BY DEF Bytes
  <2> HIDE DEF last
  <2>3. IsFiniteSet(p.addr..last) /\ Cardinality(p.addr..last) = last - p.addr + 1
    BY <2>1, FS_Interval
  <2>4. QED
    BY <2>1, <2>2, <2>3
<1>6. QED
  BY <1>3, <1>4, <1>5

\* trySendTimingReq() moves at most one packet from the list to the bus, and
\* leaves one thing, and one only, that will send the rest.
LEMMA SendStep ==
  ASSUME NEW list \in Seq(AllPackets), list # <<>>, NEW taken \in BOOLEAN,
         TrySendTimingReq(list, taken), NEW count,
         atBus \subseteq AllPackets, IsFiniteSet(atBus), Counted(list, atBus, count)
  PROVE  /\ transmitList' \in Seq(AllPackets)
         /\ atBus' \subseteq AllPackets /\ IsFiniteSet(atBus')
         /\ inRetry' \in BOOLEAN /\ sendScheduled' \in BOOLEAN /\ owed' \in BOOLEAN
         /\ SomebodySends'
         /\ Counted(transmitList', atBus', count)
         /\ Out' = Elems(list) \cup atBus
<1>1. /\ inRetry' = ~taken /\ owed' = ~taken
      /\ transmitList' = (IF taken THEN Tail(list) ELSE list)
      /\ atBus' = (IF taken THEN atBus \cup {Head(list)} ELSE atBus)
      /\ sendScheduled' = (taken /\ Tail(list) # <<>>)
  BY DEF TrySendTimingReq
<1>2. CASE ~taken
  BY <1>1, <1>2 DEF SomebodySends, Out
<1>3. CASE taken
  <2>1. /\ Head(list) \in AllPackets /\ Head(list) = list[1]
        /\ Tail(list) \in Seq(AllPackets) /\ Len(Tail(list)) = Len(list) - 1
        /\ \A i \in 1..Len(Tail(list)) : Tail(list)[i] = list[i + 1]
        /\ Len(list) \in Nat /\ Len(list) >= 1
    BY HeadTailProperties
  <2>2. Elems(list) = Elems(Tail(list)) \cup {Head(list)}
    <3>1. ASSUME NEW i \in 1..Len(list)
          PROVE  list[i] = Head(list) \/ list[i] \in Elems(Tail(list))
      <4>1. CASE i = 1
        BY <2>1, <4>1
      <4>2. CASE i > 1
        <5>1. i - 1 \in 1..Len(Tail(list)) /\ Tail(list)[i - 1] = list[i]
          BY <2>1, <4>2
        <5>2. QED
          BY <5>1 DEF Elems
      <4>3. QED
        BY <4>1, <4>2
    <3>2. ASSUME NEW i \in 1..Len(Tail(list)) PROVE Tail(list)[i] \in Elems(list)
      <4>1. i + 1 \in 1..Len(list)
        BY <2>1
      <4>2. QED
        BY <2>1, <4>1 DEF Elems
    <3>3. Head(list) \in Elems(list)
      BY <2>1 DEF Elems
    <3>4. QED
      BY <3>1, <3>2, <3>3 DEF Elems
  <2>3. Distinct(Tail(list)) /\ Head(list) \notin Elems(Tail(list))
    <3>1. ASSUME NEW i \in 1..Len(Tail(list))
          PROVE  i + 1 \in 1..Len(list) /\ i + 1 # 1 /\ Tail(list)[i] = list[i + 1]
      BY <2>1
    <3>2. Head(list) \notin Elems(Tail(list))
      BY <2>1, <3>1 DEF Counted, Distinct, Elems
    <3>3. Distinct(Tail(list))
      <4>1. ASSUME NEW i \in 1..Len(Tail(list)), NEW j \in 1..Len(Tail(list)), i # j
            PROVE  Tail(list)[i] # Tail(list)[j]
        <5>1. i + 1 # j + 1
          BY <4>1
        <5>2. QED
          BY <3>1, <5>1 DEF Counted, Distinct
      <4>2. QED
        BY <4>1 DEF Distinct
    <3>4. QED
      BY <3>2, <3>3
  <2>4. Head(list) \notin atBus /\ Elems(Tail(list)) \cap atBus = {}
    BY <2>2 DEF Counted
  <2>5. /\ IsFiniteSet(atBus') /\ Cardinality(atBus') = Cardinality(atBus) + 1
        /\ Cardinality(atBus) \in Nat
    BY <1>1, <1>3, <2>4, FS_AddElement, FS_CardinalityType
  <2>6. Counted(transmitList', atBus', count)
    <3>1. Len(Tail(list)) + (Cardinality(atBus) + 1) = Len(list) + Cardinality(atBus)
      BY <2>1, <2>5
    <3>2. QED
      BY <1>1, <1>3, <2>3, <2>4, <2>5, <3>1 DEF Counted
  <2>7. SomebodySends'
    BY <1>1, <1>3 DEF SomebodySends
  <2>8. QED
    BY <1>1, <1>3, <2>1, <2>2, <2>5, <2>6, <2>7 DEF Out
<1>4. QED
  BY <1>2, <1>3

\* queueDma() of the packets of an action that is not under way.
LEMMA QueueStep ==
  ASSUME IInv, NEW a \in Actions, a \notin live
  PROVE  /\ QueueDma(a) \in Seq(AllPackets) /\ QueueDma(a) # <<>>
         /\ Counted(QueueDma(a), atBus, pendingCount + Chunks(a))
         /\ Elems(QueueDma(a)) = Elems(transmitList) \cup Elems(Packets(a))
         /\ Complete(Elems(QueueDma(a)) \cup atBus, a, 0, {})
         /\ \A x \in Actions \ {a} : Of(Elems(QueueDma(a)) \cup atBus, x) = Of(Out, x)
         /\ \A p \in Elems(QueueDma(a)) \cup atBus : p.act \in live \cup {a}
<1> DEFINE list == QueueDma(a)
           new == Packets(a)
<1>1. /\ transmitList \in Seq(AllPackets) /\ Len(transmitList) \in Nat
      /\ atBus \subseteq AllPackets /\ IsFiniteSet(atBus)
  BY DEF IInv, Types
<1>2. /\ Counted(transmitList, atBus, pendingCount)
      /\ \A p \in Out : p.act \in live
  BY AccountedParts DEF IInv
<1>3. /\ Chunks(a) \in Nat /\ Chunks(a) > 0
      /\ new \in Seq(AllPackets) /\ Len(new) = Chunks(a)
      /\ \A k \in 1..Chunks(a) : new[k] = Chunk(a, k)
  <2>1. Chunks(a) \in Nat /\ Chunks(a) > 0
    BY LinesOfBlock
  <2>2. \A k \in 1..Chunks(a) : Chunk(a, k) \in AllPackets
    BY DEF AllPackets
  <2>3. QED
    BY <2>1, <2>2 DEF Packets
<1>4. /\ list \in Seq(AllPackets) /\ Len(list) = Len(transmitList) + Len(new)
      /\ \A i \in 1..(Len(transmitList) + Len(new)) : list[i] =
           IF i <= Len(transmitList) THEN transmitList[i] ELSE new[i - Len(transmitList)]
  BY <1>1, <1>3, ConcatProperties DEF QueueDma
<1>5. \A k \in 1..Chunks(a) : new[k].act = a
  BY <1>3, ChunkShape
<1> HIDE DEF list, new
<1>6. \A p \in Elems(new) : p.act = a /\ p \notin Out
  BY <1>2, <1>3, <1>5 DEF Elems
<1>7. Elems(list) = Elems(transmitList) \cup Elems(new)
  <2>1. ASSUME NEW i \in 1..Len(list)
        PROVE  list[i] \in Elems(transmitList) \cup Elems(new)
    <3>1. CASE i <= Len(transmitList)
      BY <1>1, <1>4, <3>1 DEF Elems
    <3>2. CASE i > Len(transmitList)
      <4>1. i - Len(transmitList) \in 1..Len(new) /\ list[i] = new[i - Len(transmitList)]
        BY <1>1, <1>3, <1>4, <3>2
      <4>2. QED
        BY <4>1 DEF Elems
    <3>3. QED
      BY <1>1, <3>1, <3>2
  <2>2. ASSUME NEW i \in 1..Len(transmitList) PROVE transmitList[i] \in Elems(list)
    BY <1>1, <1>3, <1>4 DEF Elems
  <2>3. ASSUME NEW i \in 1..Len(new) PROVE new[i] \in Elems(list)
    <3>1. /\ i + Len(transmitList) \in 1..Len(list)
          /\ list[i + Len(transmitList)] = new[i]
      BY <1>1, <1>3, <1>4
    <3>2. QED
      BY <3>1 DEF Elems
  <2>4. QED
    BY <2>1, <2>2, <2>3 DEF Elems
<1>8. Distinct(list)
  <2>1. ASSUME NEW i \in 1..Len(list), NEW j \in 1..Len(list), i < j
        PROVE  list[i] # list[j]
    <3>1. CASE j <= Len(transmitList)
      <4>1. /\ i \in 1..Len(transmitList) /\ j \in 1..Len(transmitList) /\ i # j
            /\ list[i] = transmitList[i] /\ list[j] = transmitList[j]
        BY <1>1, <1>3, <1>4, <2>1, <3>1
      <4>2. QED
        BY <1>2, <4>1 DEF Counted, Distinct
    <3>2. CASE i <= Len(transmitList) /\ j > Len(transmitList)
      <4>1. /\ i \in 1..Len(transmitList) /\ j - Len(transmitList) \in 1..Len(new)
            /\ list[i] = transmitList[i] /\ list[j] = new[j - Len(transmitList)]
        BY <1>1, <1>3, <1>4, <2>1, <3>2
      <4>2. list[i] \in Out /\ list[j] \in Elems(new)
        BY <4>1 DEF Out, Elems
      <4>3. QED
        BY <1>6, <4>2
    <3>3. CASE i > Len(transmitList)
      <4>1. /\ i - Len(transmitList) \in 1..Chunks(a) /\ j - Len(transmitList) \in 1..Chunks(a)
            /\ i - Len(transmitList) # j - Len(transmitList)
            /\ list[i] = new[i - Len(transmitList)] /\ list[j] = new[j - Len(transmitList)]
        BY <1>1, <1>3, <1>4, <2>1, <3>3
      <4>2. QED
        BY <1>3, <4>1, ChunksApart
    <3>4. QED
      BY <1>1, <3>1, <3>2, <3>3
  <2>2. \A i, j \in 1..Len(list) : i # j => i < j \/ j < i
    BY <1>1, <1>3, <1>4
  <2>3. QED
    BY <2>1, <2>2 DEF Distinct
<1>9. Counted(list, atBus, pendingCount + Chunks(a))
  <2>1. Elems(list) \cap atBus = {}
    BY <1>2, <1>6, <1>7 DEF Counted, Out
  <2>2. pendingCount + Chunks(a) = Len(list) + Cardinality(atBus)
    <3>1. Cardinality(atBus) \in Nat
      BY <1>1, FS_CardinalityType
    <3>2. pendingCount = Len(transmitList) + Cardinality(atBus)
      BY <1>2 DEF Counted
    <3>3. QED
      BY <1>1, <1>3, <1>4, <3>1, <3>2
  <2>3. QED
    BY <1>8, <2>1, <2>2 DEF Counted
<1>10. Of(Elems(list) \cup atBus, a) = Elems(new)
  BY <1>2, <1>6, <1>7 DEF Of, Out
<1>11. Complete(Elems(list) \cup atBus, a, 0, {})
  <2>1. Elems(new) = {Chunk(a, k) : k \in 1..Chunks(a)}
    BY <1>3 DEF Elems
  <2>2. {} \cup UNION {Bytes(p) : p \in Elems(new)} = Block(a)
    BY <2>1, ChunksCover
  <2>3. \A p, q \in Elems(new) : p # q => Bytes(p) \cap Bytes(q) = {}
    BY <2>1, ChunksApart
  <2>4. 0 = Cardinality({}) /\ 0 < Size[a]
    BY FS_EmptySet, LinesOfBlock
  <2>5. QED
    BY <1>10, <2>2, <2>3, <2>4 DEF Complete
<1>12. QED
  <2>1. list # <<>>
    BY <1>1, <1>3, <1>4
  <2>2. \A x \in Actions \ {a} : Of(Elems(list) \cup atBus, x) = Of(Out, x)
    BY <1>6, <1>7 DEF Of, Out
  <2>3. \A p \in Elems(list) \cup atBus : p.act \in live \cup {a}
    BY <1>2, <1>6, <1>7 DEF Out
  <2>4. QED
    BY <1>4, <1>7, <1>9, <1>11, <2>1, <2>2, <2>3 DEF list, new

\* An answer: its bytes are new, and it is the last one of its action exactly
\* when the bytes add up to the block.
LEMMA AnswerStep ==
  ASSUME IInv, NEW p \in atBus
  PROVE  LET a == p.act
             mv == moved[a] \cup Bytes(p)
         IN  /\ a \in live /\ Bytes(p) \subseteq Block(a) \ moved[a] /\ Bytes(p) # {}
             /\ Completes(p) <=> mv = Block(a)
             /\ Completes(p) => Of(Out \ {p}, a) = {}
             /\ ~Completes(p) => Complete(Out \ {p}, a, numBytes[a] + p.size, mv)
<1> DEFINE a == p.act
           mv == moved[a] \cup Bytes(p)
           n == numBytes[a] + p.size
<1>1. p \in AllPackets /\ p \in Out /\ Out \subseteq AllPackets
  BY DEF IInv, Types, Out, Elems
<1>2. a \in live /\ a \in Actions /\ Complete(Out, a, numBytes[a], moved[a])
  BY <1>1, AccountedParts DEF IInv, Types
<1>3. /\ p.size \in Nat /\ Bytes(p) \subseteq Block(a) /\ Bytes(p) # {}
      /\ IsFiniteSet(Bytes(p)) /\ Cardinality(Bytes(p)) = p.size
  BY <1>1, PacketShape
<1>4. p \in Of(Out, a)
  BY <1>1 DEF Of
<1>5. Bytes(p) \cap moved[a] = {} /\ moved[a] \subseteq Block(a)
  BY <1>2, <1>4 DEF Complete
<1>6. IsFiniteSet(Block(a)) /\ Cardinality(Block(a)) = Size[a]
  <2> DEFINE last == Addr[a] + Size[a] - 1
  <2>1. /\ Addr[a] \in Int /\ last \in Int /\ ~(Addr[a] > last)
        /\ last - Addr[a] + 1 = Size[a]
    BY <1>2, LinesOfBlock
  <2>2. Block(a) = Addr[a]..last
    BY DEF Block
  <2> HIDE DEF last
  <2>3. /\ IsFiniteSet(Addr[a]..last)
        /\ Cardinality(Addr[a]..last) = last - Addr[a] + 1
    BY <2>1, FS_Interval
  <2>4. QED
    BY <2>1, <2>2, <2>3
<1>7. IsFiniteSet(moved[a]) /\ Cardinality(moved[a]) \in Nat /\ numBytes[a] = Cardinality(moved[a])
  BY <1>2, <1>5, <1>6, FS_Subset, FS_CardinalityType DEF Complete
<1>8. /\ n = Cardinality(mv) /\ mv \subseteq Block(a) /\ n <= Size[a]
      /\ n = Size[a] => mv = Block(a)
  <2>1. Cardinality(mv) = Cardinality(moved[a]) + Cardinality(Bytes(p))
                          - Cardinality(moved[a] \cap Bytes(p))
    BY <1>3, <1>7, FS_Union
  <2>2. Cardinality(moved[a] \cap Bytes(p)) = 0
    <3>1. moved[a] \cap Bytes(p) = {}
      BY <1>5
    <3>2. QED
      BY <3>1, FS_EmptySet
  <2>3. n = Cardinality(mv)
    BY <1>3, <1>7, <2>1, <2>2
  <2>4. mv \subseteq Block(a)
    BY <1>3, <1>5
  <2> HIDE DEF mv, n
  <2>5. Cardinality(mv) <= Cardinality(Block(a)) /\ (Cardinality(Block(a)) = Cardinality(mv) => Block(a) = mv)
    BY <1>6, <2>4, FS_Subset
  <2>6. QED
    BY <1>6, <2>3, <2>4, <2>5
<1>9. Completes(p) <=> mv = Block(a)
  BY <1>6, <1>8 DEF Completes
<1>10. \A q \in Of(Out \ {p}, a) :
         /\ q \in Of(Out, a) /\ q # p /\ q \in AllPackets
         /\ Bytes(q) \cap Bytes(p) = {} /\ Bytes(q) \cap moved[a] = {}
         /\ Bytes(q) \subseteq Block(a) /\ Bytes(q) # {}
  <2>1. \A q \in Of(Out \ {p}, a) : q \in Of(Out, a) /\ q # p /\ q \in AllPackets
    BY <1>1 DEF Of
  <2>2. \A q \in Of(Out \ {p}, a) : q.act = a
    BY DEF Of
  <2>3. QED
    BY <1>2, <1>4, <2>1, <2>2, PacketShape DEF Complete
<1>11. ASSUME Completes(p) PROVE Of(Out \ {p}, a) = {}
  BY <1>9, <1>10, <1>11
<1>12. ASSUME ~Completes(p) PROVE Complete(Out \ {p}, a, n, mv)
  <2>1. n < Size[a]
    <3>1. Size[a] \in Nat /\ n \in Nat
      BY <1>2, <1>3, <1>7, LinesOfBlock
    <3>2. QED
      BY <1>8, <1>9, <1>12, <3>1
  <2>2. Of(Out, a) = Of(Out \ {p}, a) \cup {p}
    BY <1>4 DEF Of
  <2>3. mv \cup UNION {Bytes(q) : q \in Of(Out \ {p}, a)} = Block(a)
    <3>1. moved[a] \cup UNION {Bytes(q) : q \in Of(Out, a)} = Block(a)
      BY <1>2 DEF Complete
    <3>2. QED
      BY <2>2, <3>1
  <2>4. \A q \in Of(Out \ {p}, a) : Bytes(q) \cap mv = {}
    BY <1>10
  <2>5. \A q, r \in Of(Out \ {p}, a) : q # r => Bytes(q) \cap Bytes(r) = {}
    BY <1>2, <1>10 DEF Complete
  <2>6. QED
    BY <1>8, <2>1, <2>3, <2>4, <2>5 DEF Complete
<1>13. QED
  BY <1>2, <1>3, <1>5, <1>9, <1>11, <1>12

----------------------------------------------------------------------------
(***************************************************************************)
(* The steps                                                               *)
(***************************************************************************)

\* Complete depends only on the packets of its action.
LEMMA CompleteFrame ==
  ASSUME NEW a, NEW o1, NEW o2, NEW n, NEW mv, Of(o1, a) = Of(o2, a), Complete(o1, a, n, mv)
  PROVE  Complete(o2, a, n, mv)
BY DEF Complete

\* dmaAction().
LEMMA DmaActionStep ==
  ASSUME IInv, NEW a \in Actions, NEW taken \in BOOLEAN, DmaAction(a, taken)
  PROVE  IInv' /\ Service!Next
<1> DEFINE list == QueueDma(a)
           count == pendingCount + Chunks(a)
<1>1. /\ a \notin live /\ a \notin completion
      /\ live' = live \cup {a} /\ completion' = completion
      /\ numBytes' = [numBytes EXCEPT ![a] = 0]
      /\ moved' = [moved EXCEPT ![a] = {}]
      /\ pendingCount' = count
      /\ SendDma(list, taken)
  BY DEF DmaAction
<1>2. /\ list \in Seq(AllPackets) /\ list # <<>>
      /\ Counted(list, atBus, count)
      /\ Complete(Elems(list) \cup atBus, a, 0, {})
      /\ \A x \in Actions \ {a} : Of(Elems(list) \cup atBus, x) = Of(Out, x)
      /\ \A p \in Elems(list) \cup atBus : p.act \in live \cup {a}
  BY <1>1, QueueStep
<1>3. atBus \subseteq AllPackets /\ IsFiniteSet(atBus)
  BY DEF IInv, Types
<1> HIDE DEF list, count
<1>4. /\ transmitList' \in Seq(AllPackets)
      /\ atBus' \subseteq AllPackets /\ IsFiniteSet(atBus')
      /\ inRetry' \in BOOLEAN /\ sendScheduled' \in BOOLEAN /\ owed' \in BOOLEAN
      /\ SomebodySends'
      /\ Counted(transmitList', atBus', count)
      /\ Out' = Elems(list) \cup atBus
  <2>1. CASE inRetry \/ sendScheduled
    <3>1. transmitList' = list /\ UNCHANGED <<inRetry, sendScheduled, atBus, owed>>
      BY <1>1, <2>1 DEF SendDma
    <3>2. SomebodySends'
      BY <1>2, <2>1, <3>1 DEF IInv, SomebodySends
    <3>3. QED
      BY <1>2, <1>3, <3>1, <3>2 DEF IInv, Types, Out
  <2>2. CASE ~(inRetry \/ sendScheduled)
    <3>1. TrySendTimingReq(list, taken)
      BY <1>1, <2>2 DEF SendDma
    <3>2. QED
      BY <1>2, <1>3, <3>1, SendStep
  <2>3. QED
    BY <2>1, <2>2
<1>5. Types'
  BY <1>1, <1>4 DEF IInv, Types
<1>6. ASSUME NEW x \in live' PROVE Complete(Out', x, numBytes'[x], moved'[x])
  <2>1. CASE x = a
    BY <1>1, <1>2, <1>4, <2>1 DEF IInv, Types
  <2>2. CASE x # a
    <3>1. /\ x \in live /\ x \in Actions \ {a}
          /\ numBytes'[x] = numBytes[x] /\ moved'[x] = moved[x]
      BY <1>1, <2>2 DEF IInv, Types
    <3>2. Complete(Out, x, numBytes[x], moved[x]) /\ Of(Out, x) = Of(Out', x)
      BY <1>2, <1>4, <3>1, AccountedParts DEF IInv
    <3>3. QED
      BY <3>1, <3>2, CompleteFrame
  <2>3. QED
    BY <2>1, <2>2
<1>7. BytesAccountedFor'
  <2>1. /\ Counted(transmitList', atBus', pendingCount')
        /\ \A p \in Out' : p.act \in live'
    BY <1>1, <1>2, <1>4
  <2>2. QED
    BY <1>6, <2>1, AccountedNext
<1>8. Service!Begin(a)
  BY <1>1 DEF IInv, Types, Service!Begin
<1>9. QED
  BY <1>4, <1>5, <1>7, <1>8 DEF IInv, Service!Next

\* A send that is not part of dmaAction(): a packet moves from the list to the
\* bus, or none does, and the device sees nothing.
LEMMA SendOnlyStep ==
  ASSUME IInv, transmitList # <<>>, NEW taken \in BOOLEAN,
         TrySendTimingReq(transmitList, taken), UNCHANGED <<pendingCount, counting>>
  PROVE  IInv' /\ UNCHANGED Service!vars
<1>1. /\ transmitList \in Seq(AllPackets) /\ atBus \subseteq AllPackets /\ IsFiniteSet(atBus)
      /\ Counted(transmitList, atBus, pendingCount)
      /\ \A p \in Out : p.act \in live
      /\ \A a \in live : Complete(Out, a, numBytes[a], moved[a])
  BY AccountedParts DEF IInv, Types
<1>2. /\ transmitList' \in Seq(AllPackets)
      /\ atBus' \subseteq AllPackets /\ IsFiniteSet(atBus')
      /\ inRetry' \in BOOLEAN /\ sendScheduled' \in BOOLEAN /\ owed' \in BOOLEAN
      /\ SomebodySends'
      /\ Counted(transmitList', atBus', pendingCount)
      /\ Out' = Out
  BY <1>1, SendStep DEF Out
<1>3. /\ pendingCount' = pendingCount /\ numBytes' = numBytes /\ live' = live
      /\ completion' = completion /\ moved' = moved
  BY DEF counting
<1>4. Types'
  BY <1>2, <1>3 DEF IInv, Types
<1>5. BytesAccountedFor'
  BY <1>1, <1>2, <1>3, AccountedNext
<1>6. UNCHANGED Service!vars
  BY <1>3 DEF Service!vars
<1>7. QED
  BY <1>2, <1>4, <1>5, <1>6 DEF IInv

\* The send event runs only while packets wait and no retry is owed.
LEMMA SendEventStep ==
  ASSUME IInv, NEW taken \in BOOLEAN, SendEvent(taken)
  PROVE  IInv' /\ UNCHANGED Service!vars
<1>1. ~inRetry /\ transmitList # <<>>
  BY DEF IInv, Types, SomebodySends, SendEvent
<1>2. TrySendTimingReq(transmitList, taken) /\ UNCHANGED <<pendingCount, counting>>
  BY <1>1 DEF SendEvent
<1>3. QED
  BY <1>1, <1>2, SendOnlyStep

\* The bus calls back only while packets wait.
LEMMA RecvReqRetryStep ==
  ASSUME IInv, NEW taken \in BOOLEAN, RecvReqRetry(taken)
  PROVE  IInv' /\ UNCHANGED Service!vars
<1>1. transmitList # <<>>
  BY DEF IInv, Types, SomebodySends, RecvReqRetry
<1>2. TrySendTimingReq(transmitList, taken) /\ UNCHANGED <<pendingCount, counting>>
  BY DEF RecvReqRetry
<1>3. QED
  BY <1>1, <1>2, SendOnlyStep

\* recvTimingResp() and handleResp().
LEMMA RecvTimingRespStep ==
  ASSUME IInv, NEW p \in AllPackets, RecvTimingResp(p)
  PROVE  IInv' /\ Service!Next
<1> DEFINE a == p.act
           mv == moved[a] \cup Bytes(p)
<1>1. /\ p \in atBus /\ atBus' = atBus \ {p}
      /\ pendingCount' = pendingCount - 1
      /\ numBytes' = [numBytes EXCEPT ![a] = numBytes[a] + p.size]
      /\ moved' = [moved EXCEPT ![a] = mv]
      /\ live' = (IF Completes(p) THEN live \ {a} ELSE live)
      /\ completion' = (IF Completes(p) THEN completion \cup {a} ELSE completion)
      /\ transmitList' = transmitList /\ inRetry' = inRetry
      /\ sendScheduled' = sendScheduled /\ owed' = owed
  BY DEF RecvTimingResp
<1>2. /\ a \in live /\ Bytes(p) \subseteq Block(a) \ moved[a] /\ Bytes(p) # {}
      /\ Completes(p) <=> mv = Block(a)
      /\ Completes(p) => Of(Out \ {p}, a) = {}
      /\ ~Completes(p) => Complete(Out \ {p}, a, numBytes[a] + p.size, mv)
  BY <1>1, AnswerStep
<1>3. /\ Counted(transmitList, atBus, pendingCount)
      /\ \A q \in Out : q.act \in live
      /\ \A x \in live : Complete(Out, x, numBytes[x], moved[x])
  BY AccountedParts DEF IInv
<1>4. /\ a \in Actions /\ p.size \in Nat /\ Bytes(p) \subseteq Nat
      /\ transmitList \in Seq(AllPackets) /\ Len(transmitList) \in Nat
      /\ atBus \subseteq AllPackets /\ IsFiniteSet(atBus)
      /\ inRetry \in BOOLEAN /\ sendScheduled \in BOOLEAN /\ owed \in BOOLEAN
      /\ numBytes \in [Actions -> Nat] /\ moved \in [Actions -> SUBSET Nat]
      /\ live \subseteq Actions /\ completion \subseteq Actions /\ live \cap completion = {}
  BY PacketShape DEF IInv, Types, Bytes
<1> HIDE DEF mv, a
<1>5. /\ IsFiniteSet(atBus') /\ Cardinality(atBus') = Cardinality(atBus) - 1
      /\ Cardinality(atBus) \in Nat
  BY <1>1, <1>4, FS_RemoveElement, FS_CardinalityType
<1>6. Types'
  <2>1. mv \in SUBSET Nat
    BY <1>4 DEF mv
  <2>2. moved' \in [Actions -> SUBSET Nat]
    BY <1>1, <1>4, <2>1
  <2>3. numBytes' \in [Actions -> Nat]
    BY <1>1, <1>4
  <2>4. live' \subseteq Actions /\ completion' \subseteq Actions /\ live' \cap completion' = {}
    BY <1>1, <1>4
  <2>5. QED
    BY <1>1, <1>4, <1>5, <2>2, <2>3, <2>4 DEF Types
<1>7. SomebodySends'
  BY <1>1 DEF IInv, SomebodySends
<1>8. Counted(transmitList', atBus', pendingCount')
  <2>1. pendingCount = Len(transmitList) + Cardinality(atBus)
    BY <1>3 DEF Counted
  <2>2. pendingCount' = Len(transmitList) + Cardinality(atBus')
    BY <1>1, <1>4, <1>5, <2>1
  <2>3. QED
    BY <1>1, <1>3, <2>2 DEF Counted
<1>9. Out' = Out \ {p}
  <2>1. p \notin Elems(transmitList)
    BY <1>1, <1>3 DEF Counted
  <2>2. QED
    BY <1>1, <2>1 DEF Out
<1>10. \A q \in Out' : q.act \in live'
  <2>1. SUFFICES ASSUME NEW q \in Out \ {p} PROVE q.act \in live'
    BY <1>9
  <2>2. Completes(p) => q.act # a
    BY <1>2 DEF Of
  <2>3. QED
    BY <1>1, <1>3, <2>2
<1>11. ASSUME NEW x \in live' PROVE Complete(Out', x, numBytes'[x], moved'[x])
  <2>1. CASE x = a
    BY <1>1, <1>2, <1>4, <1>9, <2>1
  <2>2. CASE x # a
    <3>1. x \in live /\ numBytes'[x] = numBytes[x] /\ moved'[x] = moved[x]
      BY <1>1, <1>4, <2>2
    <3>2. Of(Out, x) = Of(Out', x)
      BY <1>9, <2>2 DEF Of, a
    <3>3. QED
      BY <1>3, <3>1, <3>2, CompleteFrame
  <2>3. QED
    BY <2>1, <2>2
<1>12. BytesAccountedFor'
  BY <1>8, <1>10, <1>11, AccountedNext
<1>13. Service!Transfer(a)
  <2> DEFINE blocks == [x \in Actions |-> Addr[x]..(Addr[x] + Size[x] - 1)]
             phase == [x \in Actions |-> IF x \in completion THEN "done"
                                         ELSE IF x \in live THEN "busy" ELSE "free"]
             next == [x \in Actions |-> IF x \in completion' THEN "done"
                                        ELSE IF x \in live' THEN "busy" ELSE "free"]
  <2>1. blocks[a] = Block(a) /\ phase[a] = "busy"
    BY <1>2, <1>4 DEF Block
  <2>2. next = [phase EXCEPT ![a] = IF mv = Block(a) THEN "done" ELSE "busy"]
    BY <1>1, <1>2, <1>4
  <2>3. moved' = [moved EXCEPT ![a] = moved[a] \cup Bytes(p)]
    BY <1>1 DEF mv
  <2> HIDE DEF blocks, phase, next
  <2>4. Bytes(p) \in SUBSET (blocks[a] \ moved[a])
    BY <1>2, <2>1
  <2>5. next = [phase EXCEPT ![a] =
                  IF moved[a] \cup Bytes(p) = blocks[a] THEN "done" ELSE "busy"]
    BY <2>1, <2>2 DEF mv
  <2>6. QED
    BY <1>2, <2>1, <2>3, <2>4, <2>5 DEF Service!Transfer, blocks, phase, next
<1>14. QED
  BY <1>4, <1>6, <1>7, <1>12, <1>13 DEF IInv, Service!Next

\* A completion event that runs.
LEMMA ProcessStep ==
  ASSUME IInv, NEW a \in Actions, Process(a)
  PROVE  IInv' /\ Service!Next
<1>1. /\ a \in completion /\ completion' = completion \ {a}
      /\ transmitList' = transmitList /\ inRetry' = inRetry
      /\ sendScheduled' = sendScheduled /\ atBus' = atBus /\ owed' = owed
      /\ pendingCount' = pendingCount /\ numBytes' = numBytes
      /\ live' = live /\ moved' = moved
  BY DEF Process, sending
<1>2. Types'
  BY <1>1 DEF IInv, Types
<1>3. SomebodySends'
  BY <1>1 DEF IInv, SomebodySends
<1>4. BytesAccountedFor'
  BY <1>1 DEF IInv, BytesAccountedFor, Queued
<1>5. Service!Finish(a)
  BY <1>1 DEF IInv, Types, Service!Finish
<1>6. QED
  BY <1>2, <1>3, <1>4, <1>5 DEF IInv, Service!Next

\* The idle port satisfies the invariant and is an idle service.
LEMMA InitIInv == Init => IInv /\ Service!Init
<1> SUFFICES ASSUME Init PROVE IInv /\ Service!Init
  OBVIOUS
<1>1. Types
  <2>1. /\ transmitList \in Seq(AllPackets)
        /\ numBytes \in [Actions -> Nat] /\ moved \in [Actions -> SUBSET Nat]
    BY DEF Init
  <2>2. atBus = {} /\ IsFiniteSet(atBus)
    BY FS_EmptySet DEF Init
  <2>3. QED
    BY <2>1, <2>2 DEF Init, Types
<1>2. SomebodySends
  BY DEF Init, SomebodySends
<1>3. BytesAccountedFor
  BY FS_EmptySet DEF Init, BytesAccountedFor, Queued
<1>4. Service!Init
  BY DEF Init, Service!Init
<1>5. QED
  BY <1>1, <1>2, <1>3, <1>4 DEF IInv

\* Every step preserves the invariant and is a step of the service or is
\* invisible to the device.
LEMMA StepIInv ==
  ASSUME IInv, [Next]_vars
  PROVE  IInv' /\ [Service!Next]_(Service!vars)
<1>1. CASE UNCHANGED vars
  <2>1. /\ transmitList' = transmitList /\ inRetry' = inRetry
        /\ sendScheduled' = sendScheduled /\ atBus' = atBus /\ owed' = owed
        /\ pendingCount' = pendingCount /\ numBytes' = numBytes
        /\ live' = live /\ completion' = completion /\ moved' = moved
    BY <1>1 DEF vars, sending, counting
  <2>2. Types' /\ SomebodySends'
    BY <2>1 DEF IInv, Types, SomebodySends
  <2>3. BytesAccountedFor'
    BY <2>1 DEF IInv, BytesAccountedFor, Queued
  <2>4. UNCHANGED Service!vars
    BY <2>1 DEF Service!vars
  <2>5. QED
    BY <2>2, <2>3, <2>4 DEF IInv
<1>2. CASE \E a \in Actions, taken \in BOOLEAN : DmaAction(a, taken)
  BY <1>2, DmaActionStep
<1>3. CASE \E taken \in BOOLEAN : SendEvent(taken)
  BY <1>3, SendEventStep
<1>4. CASE \E taken \in BOOLEAN : RecvReqRetry(taken)
  BY <1>4, RecvReqRetryStep
<1>5. CASE \E p \in AllPackets : RecvTimingResp(p)
  BY <1>5, RecvTimingRespStep
<1>6. CASE \E a \in Actions : Process(a)
  BY <1>6, ProcessStep
<1>7. QED
  BY <1>1, <1>2, <1>3, <1>4, <1>5, <1>6 DEF Next

----------------------------------------------------------------------------
(***************************************************************************)
(* The theorems                                                            *)
(***************************************************************************)

\* The invariant of the port holds in every state.
LEMMA Invariant == Spec => []IInv
<1>1. Init => IInv
  BY InitIInv
<1>2. IInv /\ [Next]_vars => IInv'
  BY StepIInv
<1>3. QED
  BY <1>1, <1>2, PTL DEF Spec

\* Packets wait in sendDma() exactly while one thing, and only one, is going to
\* send them: for any blocks, any line size and any order of refusals, callbacks
\* and answers.
THEOREM SenderExists == Spec => []SomebodySends
<1>1. IInv => SomebodySends
  BY DEF IInv
<1>2. QED
  BY <1>1, Invariant, PTL

\* Every byte of every action under way is answered, at the bus or waiting, once,
\* as handleResp() counts them: for any blocks, any line size and any order of
\* refusals, callbacks and answers.
THEOREM EveryByteCounted == Spec => []BytesAccountedFor
<1>1. IInv => BytesAccountedFor
  BY DEF IInv
<1>2. QED
  BY <1>1, Invariant, PTL

\* The port implements DmaService: the device sees each byte transferred once
\* and the completion event scheduled with the last one, once.
THEOREM Refinement == Spec => ImplementsDmaService
<1>1. Init => IInv /\ Service!Init
  BY InitIInv
<1>2. IInv /\ [Next]_vars => IInv' /\ [Service!Next]_(Service!vars)
  BY StepIInv
<1>3. QED
  BY <1>1, <1>2, PTL DEF Spec, ImplementsDmaService, Service!Spec
=============================================================================
