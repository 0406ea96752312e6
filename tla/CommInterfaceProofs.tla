------------------------ MODULE CommInterfaceProofs ------------------------
(***************************************************************************)
(* Proofs about CommInterface for any number of requests and ports, any    *)
(* addresses, lengths and cache-line size.                                 *)
(***************************************************************************)
EXTENDS CommInterface, SequenceTheorems, TLAPS

----------------------------------------------------------------------------
(***************************************************************************)
(* Lemmas about the operators of the model                                 *)
(***************************************************************************)

\* A packet carries at least one byte when bytes are left, and never more
\* than what is left (the two branches of tryRead() and tryWrite()).
LEMMA ChunkBounds ==
  ASSUME NEW a \in Nat, NEW n \in Nat
  PROVE  /\ ChunkSize(a, n) \in Nat
         /\ ChunkSize(a, n) <= n
         /\ n > 0 => ChunkSize(a, n) > 0
<1>1. a % LineSize \in 0..(LineSize - 1)
  BY LineAssumption
<1>2. QED
  BY <1>1, LineAssumption DEF ChunkSize

\* Erasing the i-th entry of a queue keeps the others in order.
LEMMA EraseEntries ==
  ASSUME NEW S, NEW q \in Seq(S), NEW i \in 1..Len(q)
  PROVE  /\ Erase(q, i) \in Seq(S)
         /\ Len(Erase(q, i)) = Len(q) - 1
         /\ \A j \in 1..(Len(q) - 1) :
              Erase(q, i)[j] = IF j < i THEN q[j] ELSE q[j + 1]
<1> DEFINE a == SubSeq(q, 1, i - 1)
           b == SubSeq(q, i + 1, Len(q))
<1>1. /\ a \in Seq(S) /\ Len(a) = i - 1
      /\ \A j \in 1..(i - 1) : a[j] = q[j]
  OBVIOUS
<1>2. /\ b \in Seq(S) /\ Len(b) = Len(q) - i
      /\ \A j \in 1..(Len(q) - i) : b[j] = q[i + j]
  OBVIOUS
<1>3. Erase(q, i) = a \o b
  BY DEF Erase
<1> HIDE DEF a, b
<1>4. /\ a \o b \in Seq(S) /\ Len(a \o b) = Len(a) + Len(b)
      /\ \A j \in 1..(Len(a) + Len(b)) :
           (a \o b)[j] = IF j <= Len(a) THEN a[j] ELSE b[j - Len(a)]
  BY <1>1, <1>2, ConcatProperties
<1>5. QED
  BY <1>1, <1>2, <1>3, <1>4

\* Pushing at the front shifts the entries of a queue by one place.
LEMMA PushFrontEntries ==
  ASSUME NEW S, NEW q \in Seq(S), NEW r \in S
  PROVE  /\ PushFront(q, r) \in Seq(S)
         /\ Len(PushFront(q, r)) = Len(q) + 1
         /\ \A j \in 1..(Len(q) + 1) :
              PushFront(q, r)[j] = IF j = 1 THEN r ELSE q[j - 1]
BY DEF PushFront

\* The bytes of consecutive pieces make up the bytes of the whole.
LEMMA BytesJoin ==
  ASSUME NEW a \in Nat, NEW m \in Nat, NEW n \in Nat
  PROVE  Bytes(a, 0, m) \cup Bytes(a + m, m, n) = Bytes(a, 0, m + n)
<1>1. ASSUME NEW x \in Bytes(a, 0, m + n)
      PROVE  x \in Bytes(a, 0, m) \cup Bytes(a + m, m, n)
  <2>1. PICK k \in 0..(m + n - 1) : x = <<a + k, 0 + k>>
    BY <1>1 DEF Bytes
  <2>2. CASE k < m
    BY <2>1, <2>2 DEF Bytes
  <2>3. CASE k >= m
    <3>1. k - m \in 0..(n - 1) /\ a + m + (k - m) = a + k /\ m + (k - m) = 0 + k
      BY <2>1, <2>3
    <3>2. QED
      BY <2>1, <3>1 DEF Bytes
  <2>4. QED
    BY <2>1, <2>2, <2>3
<1>2. ASSUME NEW x \in Bytes(a, 0, m)
      PROVE  x \in Bytes(a, 0, m + n)
  BY <1>2 DEF Bytes
<1>3. ASSUME NEW x \in Bytes(a + m, m, n)
      PROVE  x \in Bytes(a, 0, m + n)
  <2>1. PICK k \in 0..(n - 1) : x = <<a + m + k, m + k>>
    BY <1>3 DEF Bytes
  <2>2. m + k \in 0..(m + n - 1) /\ a + m + k = a + (m + k) /\ m + k = 0 + (m + k)
    BY <2>1
  <2>3. QED
    BY <2>1, <2>2 DEF Bytes
<1>4. QED
  BY <1>1, <1>2, <1>3

----------------------------------------------------------------------------
(***************************************************************************)
(* Type correctness                                                        *)
(***************************************************************************)

\* The packet that tryRead() or tryWrite() builds for a request.
LEMMA NextPacketType ==
  ASSUME TypeOK, NEW r \in Reqs
  PROVE  /\ NextPacket(r) \in Packet
         /\ NextPacket(r).size \in Nat
         /\ NextPacket(r).size <= left[r]
         /\ left[r] > 0 => NextPacket(r).size > 0
<1>1. cur[r] \in Nat /\ left[r] \in Nat /\ ReqLen[r] \in Nat
  BY ReqAssumption DEF TypeOK
<1>2. /\ ChunkSize(cur[r], left[r]) \in Nat
      /\ ChunkSize(cur[r], left[r]) <= left[r]
      /\ left[r] > 0 => ChunkSize(cur[r], left[r]) > 0
  BY <1>1, ChunkBounds
<1>3. QED
  BY <1>1, <1>2 DEF NextPacket, Packet

\* Sending the next packet of a request keeps the types of what it changes.
LEMMA SendType ==
  ASSUME TypeOK, NEW r \in Reqs, NEW p \in Ports, NEW ok \in BOOLEAN,
         Send(r, p, ok)
  PROVE  /\ wire' \subseteq Packet
         /\ outstandingPkts' \in [Ports -> Seq(Packet)]
         /\ pkt' \in [Reqs -> Packet \cup {None}]
         /\ cur' \in [Reqs -> Nat] /\ left' \in [Reqs -> Nat]
         /\ need' \in [Reqs -> BOOLEAN]
         /\ carrier' \in [Reqs -> Ports \cup {None}]
         /\ tickScheduled' \in BOOLEAN
         /\ moved' = moved /\ status' = status
<1> DEFINE k == NextPacket(r)
<1>1. k \in Packet /\ k.size \in Nat /\ k.size <= left[r]
  BY NextPacketType
<1>2. cur[r] \in Nat /\ left[r] \in Nat
  BY DEF TypeOK
<1>3. /\ wire' = (IF ok THEN wire \cup {k} ELSE wire)
      /\ outstandingPkts' =
           (IF ok THEN outstandingPkts
                 ELSE [outstandingPkts EXCEPT ![p] = Append(@, k)])
      /\ pkt' = [pkt EXCEPT ![r] = k]
      /\ cur' = [cur EXCEPT ![r] = @ + k.size]
      /\ left' = [left EXCEPT ![r] = @ - k.size]
      /\ need' = [need EXCEPT ![r] = left[r] - k.size > 0]
      /\ carrier' = [carrier EXCEPT ![r] = p]
      /\ tickScheduled' = (tickScheduled \/ ok \/ left[r] - k.size <= 0)
      /\ moved' = moved /\ status' = status
  BY DEF Send
<1> HIDE DEF k
<1>4. left[r] - k.size \in Nat /\ cur[r] + k.size \in Nat
  BY <1>1, <1>2
<1>5. outstandingPkts' \in [Ports -> Seq(Packet)]
  BY <1>1, <1>3 DEF TypeOK
<1>6. QED
  BY <1>1, <1>3, <1>4, <1>5 DEF TypeOK

\* Building a request keeps the types of its fields.
LEMMA NewRequestType ==
  ASSUME TypeOK, NEW r \in Reqs, NewRequest(r)
  PROVE  /\ cur' \in [Reqs -> Nat] /\ left' \in [Reqs -> Nat]
         /\ need' \in [Reqs -> BOOLEAN]
         /\ pkt' \in [Reqs -> Packet \cup {None}]
         /\ carrier' \in [Reqs -> Ports \cup {None}]
         /\ moved' \in [Reqs -> SUBSET (Nat \X Int)]
         /\ status' \in [Reqs -> {"free", "live", "committed"}]
         /\ tickScheduled' \in BOOLEAN
         /\ UNCHANGED <<accRdQ, accWrQ, readReq, writeReq, outstandingPkts, wire,
                        mmr, computationNeeded, intFlag, intLine, scan>>
<1>1. ReqAddr[r] \in Nat /\ ReqLen[r] \in Nat
  BY ReqAssumption
<1>2. QED
  BY <1>1 DEF NewRequest, TypeOK, portState, control

\* The constructor leaves every variable well typed.
LEMMA InitType == Init => TypeOK
<1> SUFFICES ASSUME Init PROVE TypeOK
  OBVIOUS
<1>1. cur \in [Reqs -> Nat] /\ left \in [Reqs -> Nat]
  BY ReqAssumption DEF Init
<1>2. /\ moved \in [Reqs -> SUBSET (Nat \X Int)]
      /\ outstandingPkts \in [Ports -> Seq(Packet)]
      /\ readQueue \in Seq(ReadReqs) /\ writeQueue \in Seq(WriteReqs)
  BY DEF Init
<1>3. scan \in [phase : {"idle", "read", "write"}, pos : Nat \ {0}]
  BY DEF Init, Idle
<1>4. QED
  BY <1>1, <1>2, <1>3 DEF Init, TypeOK

\* The type invariant is inductive by itself.
LEMMA TypeStep == TypeOK /\ [Next]_vars => TypeOK'
<1> SUFFICES ASSUME TypeOK, [Next]_vars PROVE TypeOK'
  OBVIOUS
<1> USE DEF queues, progress, portState, control
<1>1. ASSUME NEW v \in HostWrites, Write(v) PROVE TypeOK'
  BY <1>1, HostAssumption DEF Write, TypeOK, Bits
<1>2. ASSUME NEW r \in Reqs, EnqueueRead(r) PROVE TypeOK'
  <2>1. readQueue' \in Seq(ReadReqs) /\ writeQueue' \in Seq(WriteReqs)
    BY <1>2 DEF EnqueueRead, TypeOK
  <2>2. QED
    BY <1>2, <2>1, NewRequestType DEF EnqueueRead, TypeOK
<1>3. ASSUME NEW r \in Reqs, EnqueueWrite(r) PROVE TypeOK'
  <2>1. readQueue' \in Seq(ReadReqs) /\ writeQueue' \in Seq(WriteReqs)
    BY <1>3 DEF EnqueueWrite, TypeOK
  <2>2. QED
    BY <1>3, <2>1, NewRequestType DEF EnqueueWrite, TypeOK
<1>4. CASE Finish
  BY <1>4 DEF Finish, TypeOK, Bits
<1>5. CASE Tick
  <2>1. scan' \in [phase : {"idle", "read", "write"}, pos : Nat \ {0}]
    BY <1>5 DEF Tick, TypeOK, Scan
  <2>2. tickScheduled' \in BOOLEAN
    <3>1. (RequestsInQueues > 0) \in BOOLEAN
      OBVIOUS
    <3>2. tickScheduled' = FALSE \/ tickScheduled' = (RequestsInQueues > 0)
      BY <1>5 DEF Tick
    <3>3. QED
      BY <3>1, <3>2
  <2>3. mmr' \subseteq Bits /\ computationNeeded' \in BOOLEAN
    BY <1>5 DEF Tick, CheckMMR, TypeOK, Bits
  <2>4. QED
    BY <1>5, <2>1, <2>2, <2>3 DEF Tick, TypeOK
<1>6. ASSUME NEW r \in Reqs, NEW p \in Ports, NEW ok \in BOOLEAN, IssueRead(r, p, ok)
      PROVE  TypeOK'
  <2>1. r \in ReadReqs /\ scan.pos \in 1..Len(readQueue)
    BY <1>6 DEF IssueRead, TypeOK
  <2>2. readQueue' \in Seq(ReadReqs)
    BY <1>6, <2>1, EraseEntries DEF IssueRead, TypeOK
  <2>3. accRdQ' \subseteq ReadReqs /\ readReq' \in [Ports -> ReadReqs \cup {None}]
    BY <1>6, <2>1 DEF IssueRead, TypeOK
  <2>4. /\ wire' \subseteq Packet
        /\ outstandingPkts' \in [Ports -> Seq(Packet)]
        /\ pkt' \in [Reqs -> Packet \cup {None}]
        /\ cur' \in [Reqs -> Nat] /\ left' \in [Reqs -> Nat]
        /\ need' \in [Reqs -> BOOLEAN]
        /\ carrier' \in [Reqs -> Ports \cup {None}]
        /\ tickScheduled' \in BOOLEAN
        /\ moved' = moved /\ status' = status
    BY <1>6, SendType DEF IssueRead
  <2>5. UNCHANGED <<writeQueue, accWrQ, writeReq, control, scan>>
    BY <1>6 DEF IssueRead
  <2>6. QED
    BY <2>2, <2>3, <2>4, <2>5 DEF TypeOK, control
<1>7. CASE SkipRead
  BY <1>7 DEF SkipRead, TypeOK, Scan
<1>8. CASE EndReads
  BY <1>8 DEF EndReads, TypeOK, Scan
<1>9. ASSUME NEW r \in Reqs, NEW p \in Ports, NEW ok \in BOOLEAN, IssueWrite(r, p, ok)
      PROVE  TypeOK'
  <2>1. r \in WriteReqs /\ scan.pos \in 1..Len(writeQueue)
    BY <1>9 DEF IssueWrite, TypeOK
  <2>2. writeQueue' \in Seq(WriteReqs)
    BY <1>9, <2>1, EraseEntries DEF IssueWrite, TypeOK
  <2>3. accWrQ' \subseteq WriteReqs /\ writeReq' \in [Ports -> WriteReqs \cup {None}]
    BY <1>9, <2>1 DEF IssueWrite, TypeOK
  <2>4. /\ wire' \subseteq Packet
        /\ outstandingPkts' \in [Ports -> Seq(Packet)]
        /\ pkt' \in [Reqs -> Packet \cup {None}]
        /\ cur' \in [Reqs -> Nat] /\ left' \in [Reqs -> Nat]
        /\ need' \in [Reqs -> BOOLEAN]
        /\ carrier' \in [Reqs -> Ports \cup {None}]
        /\ tickScheduled' \in BOOLEAN
        /\ moved' = moved /\ status' = status
    BY <1>9, SendType DEF IssueWrite
  <2>5. UNCHANGED <<readQueue, accRdQ, readReq, control, scan>>
    BY <1>9 DEF IssueWrite
  <2>6. QED
    BY <2>2, <2>3, <2>4, <2>5 DEF TypeOK, control
<1>10. CASE SkipWrite
  BY <1>10 DEF SkipWrite, TypeOK, Scan
<1>11. CASE EndWrites
  BY <1>11 DEF EndWrites, TypeOK, Idle, RequestsInQueues
<1>12. ASSUME NEW p \in Ports, NEW n \in 0..Len(outstandingPkts[p]), RecvReqRetry(p, n)
       PROVE  TypeOK'
  <2>1. outstandingPkts[p] \in Seq(Packet)
    BY DEF TypeOK
  <2>2. SubSeq(outstandingPkts[p], n + 1, Len(outstandingPkts[p])) \in Seq(Packet)
    BY <2>1
  <2>3. {outstandingPkts[p][i] : i \in 1..n} \subseteq Packet
    BY <2>1
  <2>4. QED
    BY <1>12, <2>2, <2>3 DEF RecvReqRetry, TypeOK
<1>13. ASSUME NEW k \in wire, NEW r \in Reqs, RecvRead(k, r) PROVE TypeOK'
  <2>1. k.addr \in Nat /\ k.size \in Nat /\ ReqAddr[r] \in Nat /\ r \in ReadReqs
    BY <1>13, ReqAssumption DEF RecvRead, TypeOK, Packet
  <2>2. Bytes(k.addr, k.addr - ReqAddr[r], k.size) \subseteq Nat \X Int
    BY <2>1 DEF Bytes
  <2>3. PushFront(readQueue, r) \in Seq(ReadReqs)
    BY <2>1, PushFrontEntries DEF TypeOK
  <2>4. QED
    BY <1>13, <2>1, <2>2, <2>3 DEF RecvRead, TypeOK
<1>14. ASSUME NEW k \in wire, NEW r \in Reqs, RecvWrite(k, r) PROVE TypeOK'
  <2>1. k.addr \in Nat /\ k.size \in Nat /\ k.buf \in Int /\ r \in WriteReqs
    BY <1>14 DEF RecvWrite, TypeOK, Packet
  <2>2. Bytes(k.addr, k.buf, k.size) \subseteq Nat \X Int
    BY <2>1 DEF Bytes
  <2>3. PushFront(writeQueue, r) \in Seq(WriteReqs)
    BY <2>1, PushFrontEntries DEF TypeOK
  <2>4. QED
    BY <1>14, <2>1, <2>2, <2>3 DEF RecvWrite, TypeOK
<1>15. CASE UNCHANGED vars
  BY <1>15 DEF vars, TypeOK
<1>16. QED
  BY <1>1, <1>2, <1>3, <1>4, <1>5, <1>6, <1>7, <1>8, <1>9, <1>10, <1>11,
     <1>12, <1>13, <1>14, <1>15 DEF Next, Scanning, Retry, RecvPacket

\* Every reachable state is well typed: no event stores a request in the wrong
\* queue, gives a port something that is not a request of its direction, or
\* drives the count of bytes left below zero.
THEOREM TypeCorrect == Spec => []TypeOK
BY InitType, TypeStep, PTL DEF Spec

----------------------------------------------------------------------------
(***************************************************************************)
(* No request is lost or held twice.  HeldOnce is a constant-level         *)
(* operator, so one lemma per kind of event serves reads and writes.       *)
(***************************************************************************)

\* A new request joins the end of its queue.
LEMMA HeldAppend ==
  ASSUME NEW S \in SUBSET Reqs, NEW q \in Seq(S), NEW acc \in SUBSET S,
         NEW busy \in [Ports -> S \cup {None}],
         NEW st \in [Reqs -> {"free", "live", "committed"}],
         NEW by \in [Reqs -> Ports \cup {None}],
         HeldOnce(S, q, acc, busy, st, by),
         NEW r \in S, st[r] # "live"
  PROVE  HeldOnce(S, Append(q, r), acc, busy,
                  [st EXCEPT ![r] = "live"], [by EXCEPT ![r] = None])
<1> DEFINE q2 == Append(q, r)
<1>1. ~InQueue(q, r) /\ r \notin acc
  BY DEF HeldOnce
<1>2. /\ Len(q2) = Len(q) + 1 /\ q2[Len(q) + 1] = r
      /\ \A i \in 1..Len(q) : q2[i] = q[i]
  BY AppendProperties
<1> HIDE DEF q2
<1>3. Len(q) \in Nat
  OBVIOUS
<1>4. Distinct(q2)
  BY <1>1, <1>2, <1>3 DEF HeldOnce, Distinct, InQueue
<1>5. \A x \in S : InQueue(q2, x) <=> (InQueue(q, x) \/ x = r)
  BY <1>2, <1>3 DEF InQueue
<1>6. \A p \in Ports : busy[p] # r
  BY <1>1 DEF HeldOnce
<1>7. ASSUME NEW x \in S
      PROVE  /\ [st EXCEPT ![r] = "live"][x] = "live" <=> (InQueue(q2, x) \/ x \in acc)
             /\ ~(InQueue(q2, x) /\ x \in acc)
             /\ \A p \in Ports : busy[p] = x <=> (x \in acc /\ [by EXCEPT ![r] = None][x] = p)
  <2>1. CASE x = r
    BY <1>1, <1>5, <1>6, <2>1
  <2>2. CASE x # r
    BY <1>5, <2>2 DEF HeldOnce
  <2>3. QED
    BY <2>1, <2>2
<1>8. QED
  BY <1>4, <1>7 DEF HeldOnce, q2

\* A waiting request is given to a free port.
LEMMA HeldIssue ==
  ASSUME NEW S \in SUBSET Reqs, NEW q \in Seq(S), NEW acc \in SUBSET S,
         NEW busy \in [Ports -> S \cup {None}],
         NEW st \in [Reqs -> {"free", "live", "committed"}],
         NEW by \in [Reqs -> Ports \cup {None}],
         HeldOnce(S, q, acc, busy, st, by),
         NEW i \in 1..Len(q), NEW r \in S, r = q[i],
         NEW p \in Ports, busy[p] = None
  PROVE  HeldOnce(S, Erase(q, i), acc \cup {r}, [busy EXCEPT ![p] = r],
                  st, [by EXCEPT ![r] = p])
<1> DEFINE q2 == Erase(q, i)
<1>1. InQueue(q, r) /\ r \notin acc /\ st[r] = "live"
  BY DEF HeldOnce, InQueue
<1>2. /\ q2 \in Seq(S) /\ Len(q2) = Len(q) - 1
      /\ \A j \in 1..(Len(q) - 1) : q2[j] = IF j < i THEN q[j] ELSE q[j + 1]
  BY EraseEntries
<1> HIDE DEF q2
<1>3. Len(q) \in Nat /\ Distinct(q)
  BY DEF HeldOnce
<1>4. Distinct(q2)
  BY <1>2, <1>3 DEF Distinct
<1>5. ASSUME NEW x \in S PROVE InQueue(q2, x) <=> (InQueue(q, x) /\ x # r)
  <2>1. ASSUME InQueue(q2, x) PROVE InQueue(q, x) /\ x # r
    <3>1. PICK j \in 1..(Len(q) - 1) : q2[j] = x
      BY <2>1, <1>2 DEF InQueue
    <3>2. PICK m \in 1..Len(q) : x = q[m] /\ m # i
      BY <3>1, <1>2, <1>3
    <3>3. QED
      BY <3>2, <1>3 DEF InQueue, Distinct
  <2>2. ASSUME InQueue(q, x), x # r PROVE InQueue(q2, x)
    <3>1. PICK m \in 1..Len(q) : x = q[m]
      BY <2>2 DEF InQueue
    <3>2. m # i
      BY <3>1, <2>2
    <3>3. CASE m < i
      BY <3>1, <3>3, <1>2, <1>3 DEF InQueue
    <3>4. CASE m > i
      <4>1. m - 1 \in 1..(Len(q) - 1) /\ q2[m - 1] = q[m]
        BY <3>4, <1>2, <1>3
      <4>2. QED
        BY <4>1, <3>1, <1>2 DEF InQueue
    <3>5. QED
      BY <3>2, <3>3, <3>4, <1>3
  <2>3. QED
    BY <2>1, <2>2
<1>6. \A x \in Ports : busy[x] # r
  BY <1>1 DEF HeldOnce
<1>7. r # None
  BY ReqAssumption
<1>8. ASSUME NEW x \in S
      PROVE  /\ st[x] = "live" <=> (InQueue(q2, x) \/ x \in acc \cup {r})
             /\ ~(InQueue(q2, x) /\ x \in acc \cup {r})
             /\ \A y \in Ports : [busy EXCEPT ![p] = r][y] = x
                   <=> (x \in acc \cup {r} /\ [by EXCEPT ![r] = p][x] = y)
  <2>1. CASE x = r
    BY <1>1, <1>5, <1>6, <2>1
  <2>2. CASE x # r
    <3>1. st[x] = "live" <=> (InQueue(q, x) \/ x \in acc)
      BY DEF HeldOnce
    <3>2. ~(InQueue(q, x) /\ x \in acc)
      BY DEF HeldOnce
    <3>3. \A y \in Ports : busy[y] = x <=> (x \in acc /\ by[x] = y)
      BY DEF HeldOnce
    <3>4. x # None
      BY ReqAssumption
    <3>5. QED
      BY <1>5, <2>2, <3>1, <3>2, <3>3, <3>4
  <2>3. QED
    BY <2>1, <2>2
<1>9. QED
  BY <1>4, <1>8 DEF HeldOnce, q2

\* An answered request leaves its port and goes back to the front of its queue.
LEMMA HeldRequeue ==
  ASSUME NEW S \in SUBSET Reqs, NEW q \in Seq(S), NEW acc \in SUBSET S,
         NEW busy \in [Ports -> S \cup {None}],
         NEW st \in [Reqs -> {"free", "live", "committed"}],
         NEW by \in [Reqs -> Ports \cup {None}],
         HeldOnce(S, q, acc, busy, st, by),
         NEW r \in acc
  PROVE  HeldOnce(S, PushFront(q, r), acc \ {r}, [busy EXCEPT ![by[r]] = None], st, by)
<1> DEFINE q2 == PushFront(q, r)
<1>1. ~InQueue(q, r) /\ st[r] = "live" /\ r # None
  BY ReqAssumption DEF HeldOnce
<1>2. /\ q2 \in Seq(S) /\ Len(q2) = Len(q) + 1
      /\ \A j \in 1..(Len(q) + 1) : q2[j] = IF j = 1 THEN r ELSE q[j - 1]
  BY PushFrontEntries
<1> HIDE DEF q2
<1>3. Len(q) \in Nat /\ Distinct(q)
  BY DEF HeldOnce
<1>4. Distinct(q2)
  <2> SUFFICES ASSUME NEW i \in 1..Len(q2), NEW j \in 1..Len(q2), q2[i] = q2[j], i # j
               PROVE  FALSE
    BY DEF Distinct
  <2>1. CASE i = 1 \/ j = 1
    BY <2>1, <1>1, <1>2, <1>3 DEF InQueue
  <2>2. CASE i # 1 /\ j # 1
    BY <2>2, <1>2, <1>3 DEF Distinct
  <2>3. QED
    BY <2>1, <2>2
<1>5. ASSUME NEW x \in S PROVE InQueue(q2, x) <=> (InQueue(q, x) \/ x = r)
  <2>1. ASSUME NEW j \in 1..Len(q), q[j] = x PROVE InQueue(q2, x)
    <3>1. j + 1 \in 1..Len(q2) /\ q2[j + 1] = q[j]
      BY <1>2, <1>3
    <3>2. QED
      BY <3>1, <2>1 DEF InQueue
  <2>2. InQueue(q2, r)
    BY <1>2, <1>3 DEF InQueue
  <2>3. ASSUME NEW j \in 1..Len(q2), q2[j] = x PROVE InQueue(q, x) \/ x = r
    BY <2>3, <1>2, <1>3 DEF InQueue
  <2>4. QED
    BY <2>1, <2>2, <2>3 DEF InQueue
<1>6. ASSUME NEW x \in S
      PROVE  /\ st[x] = "live" <=> (InQueue(q2, x) \/ x \in acc \ {r})
             /\ ~(InQueue(q2, x) /\ x \in acc \ {r})
             /\ \A y \in Ports : [busy EXCEPT ![by[r]] = None][y] = x
                   <=> (x \in acc \ {r} /\ by[x] = y)
  <2>1. /\ st[x] = "live" <=> (InQueue(q, x) \/ x \in acc)
        /\ ~(InQueue(q, x) /\ x \in acc)
        /\ \A y \in Ports : busy[y] = x <=> (x \in acc /\ by[x] = y)
    BY DEF HeldOnce
  <2>2. \A y \in Ports : busy[y] = r <=> by[r] = y
    BY DEF HeldOnce
  <2>3. x # None
    BY ReqAssumption
  <2>4. QED
    BY <1>1, <1>5, <2>1, <2>2, <2>3
<1>7. QED
  BY <1>4, <1>6 DEF HeldOnce, q2

\* An answered request that needs no more packets is committed.
LEMMA HeldCommit ==
  ASSUME NEW S \in SUBSET Reqs, NEW q \in Seq(S), NEW acc \in SUBSET S,
         NEW busy \in [Ports -> S \cup {None}],
         NEW st \in [Reqs -> {"free", "live", "committed"}],
         NEW by \in [Reqs -> Ports \cup {None}],
         HeldOnce(S, q, acc, busy, st, by),
         NEW r \in acc
  PROVE  HeldOnce(S, q, acc \ {r}, [busy EXCEPT ![by[r]] = None],
                  [st EXCEPT ![r] = "committed"], by)
<1>1. ~InQueue(q, r) /\ Distinct(q)
  BY DEF HeldOnce
<1>2. ASSUME NEW x \in S
      PROVE  /\ [st EXCEPT ![r] = "committed"][x] = "live"
                   <=> (InQueue(q, x) \/ x \in acc \ {r})
             /\ ~(InQueue(q, x) /\ x \in acc \ {r})
             /\ \A y \in Ports : [busy EXCEPT ![by[r]] = None][y] = x
                   <=> (x \in acc \ {r} /\ by[x] = y)
  <2>1. /\ st[x] = "live" <=> (InQueue(q, x) \/ x \in acc)
        /\ ~(InQueue(q, x) /\ x \in acc)
        /\ \A y \in Ports : busy[y] = x <=> (x \in acc /\ by[x] = y)
    BY DEF HeldOnce
  <2>2. \A y \in Ports : busy[y] = r <=> by[r] = y
    BY DEF HeldOnce
  <2>3. x # None
    BY ReqAssumption
  <2>4. QED
    BY <1>1, <2>1, <2>2, <2>3
<1>3. QED
  BY <1>1, <1>2 DEF HeldOnce

\* What happens to requests of one direction leaves the other alone.
LEMMA HeldFrame ==
  ASSUME NEW S \in SUBSET Reqs, NEW q, NEW acc, NEW busy, NEW st, NEW by, NEW st2, NEW by2,
         HeldOnce(S, q, acc, busy, st, by),
         \A r \in S : st2[r] = st[r] /\ by2[r] = by[r]
  PROVE  HeldOnce(S, q, acc, busy, st2, by2)
BY DEF HeldOnce

\* The events that touch no request, queue or port.
Quiet ==
  \/ \E v \in HostWrites : Write(v)
  \/ Finish \/ Tick \/ SkipRead \/ EndReads \/ SkipWrite \/ EndWrites
  \/ UNCHANGED vars

\* The events that only touch registers or the scan leave requests, packets and
\* ports alone.
LEMMA QuietFrame == Quiet => UNCHANGED <<queues, progress, portState>>
BY DEF Quiet, Write, Finish, Tick, SkipRead, EndReads, SkipWrite, EndWrites, vars

\* The cases of a step.
LEMMA StepCases ==
  ASSUME [Next]_vars
  PROVE  \/ Quiet
         \/ \E r \in ReadReqs : EnqueueRead(r)
         \/ \E r \in WriteReqs : EnqueueWrite(r)
         \/ \E r \in Reqs, p \in Ports, ok \in BOOLEAN : IssueRead(r, p, ok)
         \/ \E r \in Reqs, p \in Ports, ok \in BOOLEAN : IssueWrite(r, p, ok)
         \/ \E p \in Ports : \E n \in 0..Len(outstandingPkts[p]) : RecvReqRetry(p, n)
         \/ \E k \in wire, r \in Reqs : RecvRead(k, r)
         \/ \E k \in wire, r \in Reqs : RecvWrite(k, r)
BY DEF Next, Scanning, Retry, RecvPacket, Quiet, EnqueueRead, EnqueueWrite

\* Every event keeps each request held once.
LEMMA HolderStep ==
  ASSUME TypeOK, OneHolder, [Next]_vars
  PROVE  OneHolder'
<1> DEFINE R(q, acc, busy, st, by) == HeldOnce(ReadReqs, q, acc, busy, st, by)
           W(q, acc, busy, st, by) == HeldOnce(WriteReqs, q, acc, busy, st, by)
<1>1. /\ R(readQueue, accRdQ, readReq, status, carrier)
      /\ W(writeQueue, accWrQ, writeReq, status, carrier)
  BY DEF OneHolder
<1>2. SUFFICES /\ R(readQueue', accRdQ', readReq', status', carrier')
               /\ W(writeQueue', accWrQ', writeReq', status', carrier')
  BY DEF OneHolder, HeldOnce, Distinct, InQueue
<1>3. /\ ReadReqs \in SUBSET Reqs /\ WriteReqs \in SUBSET Reqs
      /\ \A r \in ReadReqs : r \notin WriteReqs
  BY ReqAssumption DEF WriteReqs
<1>4. /\ readQueue \in Seq(ReadReqs) /\ writeQueue \in Seq(WriteReqs)
      /\ accRdQ \in SUBSET ReadReqs /\ accWrQ \in SUBSET WriteReqs
      /\ readReq \in [Ports -> ReadReqs \cup {None}]
      /\ writeReq \in [Ports -> WriteReqs \cup {None}]
      /\ status \in [Reqs -> {"free", "live", "committed"}]
      /\ carrier \in [Reqs -> Ports \cup {None}]
  BY DEF TypeOK
<1>5. CASE Quiet
  BY <1>1, <1>5, QuietFrame DEF queues, progress, portState
<1>6. ASSUME NEW r \in ReadReqs, EnqueueRead(r)
      PROVE  /\ R(readQueue', accRdQ', readReq', status', carrier')
             /\ W(writeQueue', accWrQ', writeReq', status', carrier')
  <2>1. /\ readQueue' = Append(readQueue, r) /\ accRdQ' = accRdQ /\ readReq' = readReq
        /\ writeQueue' = writeQueue /\ accWrQ' = accWrQ /\ writeReq' = writeReq
        /\ status' = [status EXCEPT ![r] = "live"] /\ status[r] # "live"
        /\ carrier' = [carrier EXCEPT ![r] = None]
    BY <1>6 DEF EnqueueRead, NewRequest, portState
  <2>2. R(readQueue', accRdQ', readReq', status', carrier')
    BY <1>1, <1>3, <1>4, <2>1, HeldAppend
  <2>3. \A x \in WriteReqs : status'[x] = status[x] /\ carrier'[x] = carrier[x]
    BY <1>3, <1>4, <2>1
  <2>4. W(writeQueue, accWrQ, writeReq, status', carrier')
    BY <1>1, <1>3, <2>3, HeldFrame
  <2>5. QED
    BY <2>1, <2>2, <2>4
<1>7. ASSUME NEW r \in WriteReqs, EnqueueWrite(r)
      PROVE  /\ R(readQueue', accRdQ', readReq', status', carrier')
             /\ W(writeQueue', accWrQ', writeReq', status', carrier')
  <2>1. /\ writeQueue' = Append(writeQueue, r) /\ accRdQ' = accRdQ /\ readReq' = readReq
        /\ readQueue' = readQueue /\ accWrQ' = accWrQ /\ writeReq' = writeReq
        /\ status' = [status EXCEPT ![r] = "live"] /\ status[r] # "live"
        /\ carrier' = [carrier EXCEPT ![r] = None]
    BY <1>7 DEF EnqueueWrite, NewRequest, portState
  <2>2. W(writeQueue', accWrQ', writeReq', status', carrier')
    BY <1>1, <1>3, <1>4, <2>1, HeldAppend
  <2>3. \A x \in ReadReqs : status'[x] = status[x] /\ carrier'[x] = carrier[x]
    BY <1>3, <1>4, <2>1
  <2>4. R(readQueue, accRdQ, readReq, status', carrier')
    BY <1>1, <1>3, <2>3, HeldFrame
  <2>5. QED
    BY <2>1, <2>2, <2>4
<1>8. ASSUME NEW r \in Reqs, NEW p \in Ports, NEW ok \in BOOLEAN, IssueRead(r, p, ok)
      PROVE  /\ R(readQueue', accRdQ', readReq', status', carrier')
             /\ W(writeQueue', accWrQ', writeReq', status', carrier')
  <2>1. /\ scan.pos \in 1..Len(readQueue) /\ r = readQueue[scan.pos]
        /\ r \in ReadReqs /\ readReq[p] = None
    BY <1>8 DEF IssueRead, MayChoose, FreePorts, TypeOK
  <2>2. /\ readQueue' = Erase(readQueue, scan.pos) /\ accRdQ' = accRdQ \cup {r}
        /\ readReq' = [readReq EXCEPT ![p] = r]
        /\ writeQueue' = writeQueue /\ accWrQ' = accWrQ /\ writeReq' = writeReq
        /\ status' = status /\ carrier' = [carrier EXCEPT ![r] = p]
    BY <1>8 DEF IssueRead, Send
  <2>3. R(readQueue', accRdQ', readReq', status', carrier')
    BY <1>1, <1>3, <1>4, <2>1, <2>2, HeldIssue
  <2>4. \A x \in WriteReqs : status'[x] = status[x] /\ carrier'[x] = carrier[x]
    BY <1>3, <1>4, <2>1, <2>2
  <2>5. QED
    BY <1>1, <1>3, <2>2, <2>3, <2>4, HeldFrame
<1>9. ASSUME NEW r \in Reqs, NEW p \in Ports, NEW ok \in BOOLEAN, IssueWrite(r, p, ok)
      PROVE  /\ R(readQueue', accRdQ', readReq', status', carrier')
             /\ W(writeQueue', accWrQ', writeReq', status', carrier')
  <2>1. /\ scan.pos \in 1..Len(writeQueue) /\ r = writeQueue[scan.pos]
        /\ r \in WriteReqs /\ writeReq[p] = None
    BY <1>9 DEF IssueWrite, MayChoose, FreePorts, TypeOK
  <2>2. /\ writeQueue' = Erase(writeQueue, scan.pos) /\ accWrQ' = accWrQ \cup {r}
        /\ writeReq' = [writeReq EXCEPT ![p] = r]
        /\ readQueue' = readQueue /\ accRdQ' = accRdQ /\ readReq' = readReq
        /\ status' = status /\ carrier' = [carrier EXCEPT ![r] = p]
    BY <1>9 DEF IssueWrite, Send
  <2>3. W(writeQueue', accWrQ', writeReq', status', carrier')
    BY <1>1, <1>3, <1>4, <2>1, <2>2, HeldIssue
  <2>4. \A x \in ReadReqs : status'[x] = status[x] /\ carrier'[x] = carrier[x]
    BY <1>3, <1>4, <2>1, <2>2
  <2>5. QED
    BY <1>1, <1>3, <2>2, <2>3, <2>4, HeldFrame
<1>10. ASSUME NEW p \in Ports, NEW n \in 0..Len(outstandingPkts[p]), RecvReqRetry(p, n)
       PROVE  /\ R(readQueue', accRdQ', readReq', status', carrier')
              /\ W(writeQueue', accWrQ', writeReq', status', carrier')
  BY <1>1, <1>10 DEF RecvReqRetry, queues, progress
<1>11. ASSUME NEW k \in wire, NEW r \in Reqs, RecvRead(k, r)
       PROVE  /\ R(readQueue', accRdQ', readReq', status', carrier')
              /\ W(writeQueue', accWrQ', writeReq', status', carrier')
  <2>1. /\ r \in accRdQ /\ r \in ReadReqs
        /\ accRdQ' = accRdQ \ {r} /\ readReq' = [readReq EXCEPT ![carrier[r]] = None]
        /\ carrier' = carrier
        /\ writeQueue' = writeQueue /\ accWrQ' = accWrQ /\ writeReq' = writeReq
    BY <1>11, <1>4 DEF RecvRead
  <2>2. CASE need[r]
    <3>1. readQueue' = PushFront(readQueue, r) /\ status' = status
      BY <1>11, <2>2 DEF RecvRead
    <3>2. QED
      BY <1>1, <1>3, <1>4, <2>1, <3>1, HeldRequeue
  <2>3. CASE ~need[r]
    <3>1. readQueue' = readQueue /\ status' = [status EXCEPT ![r] = "committed"]
      BY <1>11, <2>3 DEF RecvRead
    <3>2. R(readQueue', accRdQ', readReq', status', carrier')
      BY <1>1, <1>3, <1>4, <2>1, <3>1, HeldCommit
    <3>3. \A x \in WriteReqs : status'[x] = status[x] /\ carrier'[x] = carrier[x]
      BY <1>3, <1>4, <2>1, <3>1
    <3>4. QED
      BY <1>1, <1>3, <2>1, <3>2, <3>3, HeldFrame
  <2>4. QED
    BY <2>2, <2>3
<1>12. ASSUME NEW k \in wire, NEW r \in Reqs, RecvWrite(k, r)
       PROVE  /\ R(readQueue', accRdQ', readReq', status', carrier')
              /\ W(writeQueue', accWrQ', writeReq', status', carrier')
  <2>1. /\ r \in accWrQ /\ r \in WriteReqs
        /\ accWrQ' = accWrQ \ {r} /\ writeReq' = [writeReq EXCEPT ![carrier[r]] = None]
        /\ carrier' = carrier
        /\ readQueue' = readQueue /\ accRdQ' = accRdQ /\ readReq' = readReq
    BY <1>12, <1>4 DEF RecvWrite
  <2>2. CASE need[r]
    <3>1. writeQueue' = PushFront(writeQueue, r) /\ status' = status
      BY <1>12, <2>2 DEF RecvWrite
    <3>2. QED
      BY <1>1, <1>3, <1>4, <2>1, <3>1, HeldRequeue
  <2>3. CASE ~need[r]
    <3>1. writeQueue' = writeQueue /\ status' = [status EXCEPT ![r] = "committed"]
      BY <1>12, <2>3 DEF RecvWrite
    <3>2. W(writeQueue', accWrQ', writeReq', status', carrier')
      BY <1>1, <1>3, <1>4, <2>1, <3>1, HeldCommit
    <3>3. \A x \in ReadReqs : status'[x] = status[x] /\ carrier'[x] = carrier[x]
      BY <1>3, <1>4, <2>1, <3>1
    <3>4. QED
      BY <1>1, <1>3, <2>1, <3>2, <3>3, HeldFrame
  <2>4. QED
    BY <2>2, <2>3
<1>13. QED
  BY <1>5, <1>6, <1>7, <1>8, <1>9, <1>10, <1>11, <1>12, StepCases

----------------------------------------------------------------------------
(***************************************************************************)
(* Every packet has its request, and a port holds back at most one         *)
(***************************************************************************)

\* A request gets its next packet, which the peer takes.
LEMMA PlacedSent ==
  ASSUME NEW under \in SUBSET Reqs, NEW pk \in [Reqs -> Packet \cup {None}],
         NEW by \in [Reqs -> Ports \cup {None}],
         NEW out \in [Ports -> Seq(Packet)], NEW w \in SUBSET Packet,
         Placed(under, pk, by, out, w),
         NEW r \in Reqs, r \notin under, NEW p \in Ports, NEW k \in Packet, k.req = r
  PROVE  Placed(under \cup {r}, [pk EXCEPT ![r] = k], [by EXCEPT ![r] = p], out, w \cup {k})
<1> DEFINE u2 == under \cup {r}
           pk2 == [pk EXCEPT ![r] = k]
           by2 == [by EXCEPT ![r] = p]
           w2 == w \cup {k}
<1>1. \A x \in w2 : x.req \in u2 /\ pk2[x.req] = x
  BY DEF Placed
<1>2. \A q \in Ports : \A i \in 1..Len(out[q]) :
        /\ out[q][i].req \in u2 /\ pk2[out[q][i].req] = out[q][i]
        /\ by2[out[q][i].req] = q /\ out[q][i] \notin w2
  BY DEF Placed
<1>3. \A x \in u2 : /\ pk2[x] \in Packet /\ pk2[x].req = x /\ by2[x] \in Ports
                    /\ pk2[x] \in w2 \/ \E i \in 1..Len(out[by2[x]]) : out[by2[x]][i] = pk2[x]
  BY DEF Placed
<1> HIDE DEF u2, pk2, by2, w2
<1>4. Placed(u2, pk2, by2, out, w2)
  BY <1>1, <1>2, <1>3 DEF Placed
<1>5. QED
  BY <1>4 DEF u2, pk2, by2, w2

\* A request gets its next packet, which an unstalled port has to keep.
LEMMA PlacedRefused ==
  ASSUME NEW under \in SUBSET Reqs, NEW pk \in [Reqs -> Packet \cup {None}],
         NEW by \in [Reqs -> Ports \cup {None}],
         NEW out \in [Ports -> Seq(Packet)], NEW w \in SUBSET Packet,
         Placed(under, pk, by, out, w),
         NEW r \in Reqs, r \notin under, NEW p \in Ports, out[p] = <<>>,
         NEW k \in Packet, k.req = r
  PROVE  Placed(under \cup {r}, [pk EXCEPT ![r] = k], [by EXCEPT ![r] = p],
                [out EXCEPT ![p] = Append(@, k)], w)
<1> DEFINE u2 == under \cup {r}
           pk2 == [pk EXCEPT ![r] = k]
           by2 == [by EXCEPT ![r] = p]
           out2 == [out EXCEPT ![p] = Append(@, k)]
<1>1. /\ Len(out2[p]) = 1 /\ out2[p][1] = k
      /\ \A q \in Ports : q # p => out2[q] = out[q]
  OBVIOUS
<1> HIDE DEF out2
<1>2. \A x \in w : x.req \in u2 /\ pk2[x.req] = x
  BY DEF Placed
<1>3. ASSUME NEW q \in Ports, NEW i \in 1..Len(out2[q])
      PROVE  /\ out2[q][i].req \in u2 /\ pk2[out2[q][i].req] = out2[q][i]
             /\ by2[out2[q][i].req] = q /\ out2[q][i] \notin w
  <2>1. CASE q = p
    BY <1>1, <2>1 DEF Placed
  <2>2. CASE q # p
    BY <1>1, <2>2 DEF Placed
  <2>3. QED
    BY <2>1, <2>2
<1>4. ASSUME NEW x \in u2
      PROVE  /\ pk2[x] \in Packet /\ pk2[x].req = x /\ by2[x] \in Ports
             /\ pk2[x] \in w \/ \E i \in 1..Len(out2[by2[x]]) : out2[by2[x]][i] = pk2[x]
  <2>1. CASE x = r
    BY <1>1, <2>1
  <2>2. CASE x # r
    <3>1. /\ x \in under /\ by2[x] = by[x] /\ pk2[x] = pk[x]
      BY <2>2
    <3>2. /\ pk[x] \in Packet /\ pk[x].req = x /\ by[x] \in Ports
          /\ pk[x] \in w \/ \E i \in 1..Len(out[by[x]]) : out[by[x]][i] = pk[x]
      BY <3>1 DEF Placed
    <3>3. CASE by[x] = p
      BY <3>1, <3>2, <3>3
    <3>4. CASE by[x] # p
      BY <1>1, <3>1, <3>2, <3>4
    <3>5. QED
      BY <3>3, <3>4
  <2>3. QED
    BY <2>1, <2>2
<1> HIDE DEF u2, pk2, by2
<1>5. Placed(u2, pk2, by2, out2, w)
  BY <1>2, <1>3, <1>4 DEF Placed
<1>6. QED
  BY <1>5 DEF u2, pk2, by2, out2

\* A packet is answered and its request is no longer under way.
LEMMA PlacedAnswered ==
  ASSUME NEW under \in SUBSET Reqs, NEW pk \in [Reqs -> Packet \cup {None}],
         NEW by \in [Reqs -> Ports \cup {None}],
         NEW out \in [Ports -> Seq(Packet)], NEW w \in SUBSET Packet,
         Placed(under, pk, by, out, w),
         NEW r \in under, NEW k \in w, pk[r] = k
  PROVE  Placed(under \ {r}, pk, by, out, w \ {k})
<1>1. k.req = r
  BY DEF Placed
<1>2. \A x \in w \ {k} : x.req \in under \ {r} /\ pk[x.req] = x
  BY <1>1 DEF Placed
<1>3. \A q \in Ports : \A i \in 1..Len(out[q]) :
        /\ out[q][i].req \in under \ {r} /\ pk[out[q][i].req] = out[q][i]
        /\ by[out[q][i].req] = q /\ out[q][i] \notin w \ {k}
  BY <1>1 DEF Placed
<1>4. \A x \in under \ {r} :
        /\ pk[x] \in Packet /\ pk[x].req = x /\ by[x] \in Ports
        /\ pk[x] \in w \ {k} \/ \E i \in 1..Len(out[by[x]]) : out[by[x]][i] = pk[x]
  BY <1>1 DEF Placed
<1>5. QED
  BY <1>2, <1>3, <1>4 DEF Placed

\* A retry lets the peer take the packet that a port held back.
LEMMA PlacedRetried ==
  ASSUME NEW under \in SUBSET Reqs, NEW pk \in [Reqs -> Packet \cup {None}],
         NEW by \in [Reqs -> Ports \cup {None}],
         NEW out \in [Ports -> Seq(Packet)], NEW w \in SUBSET Packet,
         Placed(under, pk, by, out, w),
         NEW p \in Ports, Len(out[p]) = 1
  PROVE  Placed(under, pk, by, [out EXCEPT ![p] = <<>>], w \cup {out[p][1]})
<1> DEFINE k == out[p][1]
           out2 == [out EXCEPT ![p] = <<>>]
           w2 == w \cup {k}
<1>1. /\ k.req \in under /\ pk[k.req] = k /\ by[k.req] = p /\ k \in Packet
  <2>1. 1 \in 1..Len(out[p]) /\ out[p] \in Seq(Packet)
    OBVIOUS
  <2>2. k \in Packet
    BY <2>1, ElementOfSeq
  <2>3. QED
    BY <2>1, <2>2 DEF Placed
<1>2. out2[p] = <<>> /\ \A q \in Ports : q # p => out2[q] = out[q]
  OBVIOUS
<1>3. \A i \in 1..Len(out[p]) : out[p][i] = k
  OBVIOUS
<1> HIDE DEF k, out2
<1>4. \A x \in w2 : x.req \in under /\ pk[x.req] = x
  BY <1>1 DEF Placed
<1>5. ASSUME NEW q \in Ports, NEW i \in 1..Len(out2[q])
      PROVE  /\ out2[q][i].req \in under /\ pk[out2[q][i].req] = out2[q][i]
             /\ by[out2[q][i].req] = q /\ out2[q][i] \notin w2
  <2>1. q # p
    BY <1>2
  <2>2. QED
    BY <1>1, <1>2, <2>1 DEF Placed
<1>6. ASSUME NEW x \in under
      PROVE  /\ pk[x] \in Packet /\ pk[x].req = x /\ by[x] \in Ports
             /\ pk[x] \in w2 \/ \E i \in 1..Len(out2[by[x]]) : out2[by[x]][i] = pk[x]
  <2>1. /\ pk[x] \in Packet /\ pk[x].req = x /\ by[x] \in Ports
        /\ pk[x] \in w \/ \E i \in 1..Len(out[by[x]]) : out[by[x]][i] = pk[x]
    BY DEF Placed
  <2>2. CASE by[x] = p
    BY <1>3, <2>1, <2>2
  <2>3. CASE by[x] # p
    BY <1>2, <2>1, <2>3
  <2>4. QED
    BY <2>2, <2>3
<1> HIDE DEF w2
<1>7. Placed(under, pk, by, out2, w2)
  BY <1>4, <1>5, <1>6 DEF Placed
<1>8. QED
  BY <1>7 DEF k, out2, w2

\* Every event keeps packets and requests under way in correspondence.
LEMMA PacketStep ==
  ASSUME TypeOK, OneHolder, OneOutstanding, PacketHasRequest, [Next]_vars
  PROVE  PacketHasRequest' /\ OneOutstanding'
<1> DEFINE P(under, pk, by, out, w) == Placed(under, pk, by, out, w)
<1>1. P(UnderWay, pkt, carrier, outstandingPkts, wire)
  BY DEF PacketHasRequest
<1>2. SUFFICES /\ P(UnderWay', pkt', carrier', outstandingPkts', wire')
               /\ \A p \in Ports : Len(outstandingPkts'[p]) <= 1
  BY DEF PacketHasRequest, OneOutstanding
<1>3. /\ pkt \in [Reqs -> Packet \cup {None}]
      /\ carrier \in [Reqs -> Ports \cup {None}]
      /\ outstandingPkts \in [Ports -> Seq(Packet)] /\ wire \in SUBSET Packet
      /\ UnderWay \in SUBSET Reqs /\ ReadReqs \subseteq Reqs
  BY ReqAssumption DEF TypeOK, UnderWay, WriteReqs
<1>4. \A p \in Ports : Len(outstandingPkts[p]) <= 1
  BY DEF OneOutstanding
<1>5. CASE Quiet
  BY <1>1, <1>4, <1>5, QuietFrame DEF queues, progress, portState, UnderWay
<1>6. ASSUME NEW r \in Reqs, NewRequest(r)
      PROVE  /\ P(UnderWay', pkt', carrier', outstandingPkts', wire')
             /\ \A p \in Ports : Len(outstandingPkts'[p]) <= 1
  <2>1. r \notin UnderWay
    BY <1>6, ReqAssumption DEF NewRequest, OneHolder, HeldOnce, UnderWay, TypeOK, WriteReqs
  <2>2. /\ UnderWay' = UnderWay /\ outstandingPkts' = outstandingPkts /\ wire' = wire
        /\ pkt' = [pkt EXCEPT ![r] = None] /\ carrier' = [carrier EXCEPT ![r] = None]
    BY <1>6 DEF NewRequest, portState, UnderWay
  <2>3. \A x \in UnderWay : pkt'[x] = pkt[x] /\ carrier'[x] = carrier[x]
    BY <1>3, <2>1, <2>2
  <2>4. P(UnderWay, pkt', carrier', outstandingPkts, wire)
    BY <1>1, <2>3 DEF Placed
  <2>5. QED
    BY <1>4, <2>2, <2>4
<1>7. ASSUME NEW r \in Reqs, NEW p \in Ports, NEW ok \in BOOLEAN,
             r \notin UnderWay, outstandingPkts[p] = <<>>,
             UnderWay' = UnderWay \cup {r}, Send(r, p, ok)
      PROVE  /\ P(UnderWay', pkt', carrier', outstandingPkts', wire')
             /\ \A q \in Ports : Len(outstandingPkts'[q]) <= 1
  <2> DEFINE k == NextPacket(r)
  <2>1. k \in Packet /\ k.req = r
    BY NextPacketType DEF NextPacket
  <2>2. /\ wire' = (IF ok THEN wire \cup {k} ELSE wire)
        /\ outstandingPkts' =
             (IF ok THEN outstandingPkts
                    ELSE [outstandingPkts EXCEPT ![p] = Append(@, k)])
        /\ pkt' = [pkt EXCEPT ![r] = k] /\ carrier' = [carrier EXCEPT ![r] = p]
    BY <1>7 DEF Send
  <2> HIDE DEF k
  <2>3. CASE ok
    <3>1. wire' = wire \cup {k} /\ outstandingPkts' = outstandingPkts
      BY <2>2, <2>3
    <3>2. P(UnderWay \cup {r}, [pkt EXCEPT ![r] = k], [carrier EXCEPT ![r] = p],
            outstandingPkts, wire \cup {k})
      BY <1>1, <1>3, <1>7, <2>1, PlacedSent
    <3>3. QED
      BY <1>4, <1>7, <2>2, <3>1, <3>2
  <2>4. CASE ~ok
    <3>1. wire' = wire /\ outstandingPkts' = [outstandingPkts EXCEPT ![p] = Append(@, k)]
      BY <2>2, <2>4
    <3>2. P(UnderWay \cup {r}, [pkt EXCEPT ![r] = k], [carrier EXCEPT ![r] = p],
            [outstandingPkts EXCEPT ![p] = Append(@, k)], wire)
      BY <1>1, <1>3, <1>7, <2>1, PlacedRefused
    <3>3. \A q \in Ports : Len(outstandingPkts'[q]) <= 1
      BY <1>3, <1>4, <1>7, <2>1, <3>1
    <3>4. QED
      BY <1>7, <2>2, <3>1, <3>2, <3>3
  <2>5. QED
    BY <2>3, <2>4
<1>8. ASSUME NEW r \in Reqs, NEW p \in Ports, NEW ok \in BOOLEAN, IssueRead(r, p, ok)
      PROVE  /\ P(UnderWay', pkt', carrier', outstandingPkts', wire')
             /\ \A q \in Ports : Len(outstandingPkts'[q]) <= 1
  <2>1. /\ scan.pos \in 1..Len(readQueue) /\ r = readQueue[scan.pos] /\ r \in ReadReqs
        /\ outstandingPkts[p] = <<>>
        /\ Send(r, p, ok) /\ UnderWay' = UnderWay \cup {r}
    BY <1>8 DEF IssueRead, MayChoose, FreePorts, IsStalled, TypeOK, UnderWay
  <2>2. r \notin UnderWay
    BY <2>1 DEF OneHolder, HeldOnce, InQueue, UnderWay, TypeOK, WriteReqs
  <2>3. QED
    BY <1>7, <2>1, <2>2
<1>9. ASSUME NEW r \in Reqs, NEW p \in Ports, NEW ok \in BOOLEAN, IssueWrite(r, p, ok)
      PROVE  /\ P(UnderWay', pkt', carrier', outstandingPkts', wire')
             /\ \A q \in Ports : Len(outstandingPkts'[q]) <= 1
  <2>1. /\ scan.pos \in 1..Len(writeQueue) /\ r = writeQueue[scan.pos] /\ r \in WriteReqs
        /\ outstandingPkts[p] = <<>>
        /\ Send(r, p, ok) /\ UnderWay' = UnderWay \cup {r}
    BY <1>9 DEF IssueWrite, MayChoose, FreePorts, IsStalled, TypeOK, UnderWay
  <2>2. r \notin UnderWay
    BY <2>1 DEF OneHolder, HeldOnce, InQueue, UnderWay, TypeOK, WriteReqs
  <2>3. QED
    BY <1>7, <2>1, <2>2
<1>10. ASSUME NEW p \in Ports, NEW n \in 0..Len(outstandingPkts[p]), RecvReqRetry(p, n)
       PROVE  /\ P(UnderWay', pkt', carrier', outstandingPkts', wire')
              /\ \A q \in Ports : Len(outstandingPkts'[q]) <= 1
  <2> DEFINE s == outstandingPkts[p]
  <2>1. s \in Seq(Packet) /\ Len(s) = 1
    <3>1. s \in Seq(Packet) /\ s # <<>>
      BY <1>3, <1>10 DEF RecvReqRetry, IsStalled
    <3>2. Len(s) <= 1
      BY <1>4
    <3>3. Len(s) \in Nat /\ Len(s) # 0
      BY <3>1, EmptySeq
    <3> DEFINE m == Len(s)
    <3>4. m \in Nat /\ m # 0 /\ m <= 1
      BY <3>2, <3>3
    <3> HIDE DEF m
    <3>5. m = 1
      BY <3>4
    <3>6. QED
      BY <3>1, <3>5 DEF m
  <2>2. /\ wire' = wire \cup {s[i] : i \in 1..n}
        /\ outstandingPkts' = [outstandingPkts EXCEPT ![p] = SubSeq(s, n + 1, Len(s))]
        /\ UnderWay' = UnderWay /\ pkt' = pkt /\ carrier' = carrier
    BY <1>10 DEF RecvReqRetry, queues, progress, UnderWay
  <2>3. CASE n = 0
    <3>1. SubSeq(s, n + 1, Len(s)) = s /\ wire' = wire
      BY <2>1, <2>2, <2>3
    <3>2. outstandingPkts' = outstandingPkts
      BY <1>3, <2>2, <3>1
    <3>3. QED
      BY <1>1, <1>4, <2>2, <3>1, <3>2
  <2>4. CASE n = 1
    <3>1. SubSeq(s, n + 1, Len(s)) = <<>> /\ wire' = wire \cup {s[1]}
      BY <2>1, <2>2, <2>4
    <3>2. outstandingPkts' = [outstandingPkts EXCEPT ![p] = <<>>]
      BY <2>2, <3>1
    <3>3. P(UnderWay, pkt, carrier, [outstandingPkts EXCEPT ![p] = <<>>],
            wire \cup {outstandingPkts[p][1]})
      BY <1>1, <1>3, <2>1, PlacedRetried
    <3>4. \A q \in Ports : Len(outstandingPkts'[q]) <= 1
      BY <1>3, <1>4, <3>2
    <3>5. QED
      BY <2>2, <3>1, <3>2, <3>3, <3>4
  <2>5. QED
    BY <2>1, <2>3, <2>4
<1>11. ASSUME NEW k \in wire, NEW r \in Reqs, RecvRead(k, r)
       PROVE  /\ P(UnderWay', pkt', carrier', outstandingPkts', wire')
              /\ \A q \in Ports : Len(outstandingPkts'[q]) <= 1
  <2>1. /\ r \in UnderWay /\ pkt[r] = k /\ UnderWay' = UnderWay \ {r} /\ wire' = wire \ {k}
        /\ pkt' = pkt /\ carrier' = carrier /\ outstandingPkts' = outstandingPkts
    BY <1>11 DEF RecvRead, UnderWay, TypeOK, WriteReqs
  <2>2. QED
    BY <1>1, <1>3, <1>4, <2>1, PlacedAnswered
<1>12. ASSUME NEW k \in wire, NEW r \in Reqs, RecvWrite(k, r)
       PROVE  /\ P(UnderWay', pkt', carrier', outstandingPkts', wire')
              /\ \A q \in Ports : Len(outstandingPkts'[q]) <= 1
  <2>1. /\ r \in UnderWay /\ pkt[r] = k /\ UnderWay' = UnderWay \ {r} /\ wire' = wire \ {k}
        /\ pkt' = pkt /\ carrier' = carrier /\ outstandingPkts' = outstandingPkts
    BY <1>12 DEF RecvWrite, UnderWay, TypeOK, WriteReqs
  <2>2. QED
    BY <1>1, <1>3, <1>4, <2>1, PlacedAnswered
<1>13. QED
  BY <1>3, <1>5, <1>6, <1>8, <1>9, <1>10, <1>11, <1>12, StepCases
     DEF EnqueueRead, EnqueueWrite, WriteReqs

----------------------------------------------------------------------------
(***************************************************************************)
(* Every byte is moved once, and a commit comes with the last one          *)
(***************************************************************************)

\* A request that waits gets its next packet.
LEMMA TiledSend ==
  ASSUME NEW r \in Reqs, NEW c \in Nat, NEW l \in Nat, NEW nd \in BOOLEAN, NEW mv, NEW k0,
         Tiled(r, c, l, nd, mv, FALSE, k0),
         NEW k \in Packet, k.addr = c, k.buf = ReqLen[r] - l, k.size <= l,
         l > 0 => k.size > 0
  PROVE  Tiled(r, c + k.size, l - k.size, l - k.size > 0, mv, TRUE, k)
<1>1. ReqLen[r] \in Nat /\ ReqAddr[r] \in Nat /\ k.size \in Nat /\ k.addr \in Nat /\ k.buf \in Int
  BY ReqAssumption DEF Packet
<1>2. /\ ReqLen[r] - l >= 0 /\ c = ReqAddr[r] + (ReqLen[r] - l) /\ nd /\ l > 0
      /\ mv = Bytes(ReqAddr[r], 0, ReqLen[r] - l)
  BY <1>1 DEF Tiled
<1>3. ReqLen[r] - (l - k.size) - k.size = ReqLen[r] - l
  BY <1>1
<1>4. QED
  BY <1>1, <1>2, <1>3 DEF Tiled

\* An answer extends the bytes moved; b is the place in the buffer.
LEMMA TiledAnswer ==
  ASSUME NEW r \in Reqs, NEW c \in Nat, NEW l \in Nat, NEW nd \in BOOLEAN, NEW mv,
         NEW k \in Packet, Tiled(r, c, l, nd, mv, TRUE, k),
         NEW b, b = k.addr - ReqAddr[r] \/ b = k.buf
  PROVE  /\ mv \cup Bytes(k.addr, b, k.size) = Bytes(ReqAddr[r], 0, ReqLen[r] - l)
         /\ nd => Tiled(r, c, l, nd, mv \cup Bytes(k.addr, b, k.size), FALSE, k)
         /\ ~nd => l = 0
<1> DEFINE d == ReqLen[r] - l - k.size
<1>1. ReqLen[r] \in Nat /\ ReqAddr[r] \in Nat /\ k.size \in Nat /\ k.addr \in Nat /\ k.buf \in Int
  BY ReqAssumption DEF Packet
<1>2. /\ d >= 0 /\ c = ReqAddr[r] + d + k.size /\ (nd <=> l > 0)
      /\ mv = Bytes(ReqAddr[r], 0, d)
      /\ k.size > 0 /\ k.addr = ReqAddr[r] + d /\ k.buf = d
  BY DEF Tiled
<1>3. d \in Nat /\ b = d /\ d + k.size = ReqLen[r] - l
  BY <1>1, <1>2
<1>4. c = ReqAddr[r] + (ReqLen[r] - l) /\ ReqLen[r] - l >= 0
  BY <1>1, <1>2, <1>3
<1> HIDE DEF d
<1>5. mv \cup Bytes(k.addr, b, k.size) = Bytes(ReqAddr[r], 0, d + k.size)
  <2>1. Bytes(ReqAddr[r], 0, d) \cup Bytes(ReqAddr[r] + d, d, k.size)
          = Bytes(ReqAddr[r], 0, d + k.size)
    BY <1>1, <1>3, BytesJoin
  <2>2. QED
    BY <1>2, <1>3, <2>1
<1>6. QED
  BY <1>1, <1>2, <1>3, <1>4, <1>5 DEF Tiled

\* Nothing is moved, and all is left, when a request is built.
LEMMA TiledNew ==
  ASSUME NEW r \in Reqs, NEW k
  PROVE  Tiled(r, ReqAddr[r], ReqLen[r], TRUE, {}, FALSE, k)
<1>1. ReqLen[r] \in Nat \ {0} /\ ReqAddr[r] \in Nat
  BY ReqAssumption
<1>2. Bytes(ReqAddr[r], 0, 0) = {}
  BY DEF Bytes
<1>3. ReqLen[r] - ReqLen[r] - 0 = 0
  BY <1>1
<1>4. QED
  BY <1>1, <1>2, <1>3 DEF Tiled

\* What one step does to the transfers: the bytes of the requests that are
\* live or committed stay in order, and the compute unit sees a step of the
\* abstract service or none.
LEMMA ByteStep ==
  ASSUME TypeOK, OneHolder, PacketHasRequest, ChunksTileRequest, CommitComplete, [Next]_vars
  PROVE  ChunksTileRequest' /\ CommitComplete' /\ [Service!Next]_(Service!vars)
<1> DEFINE T(r, c, l, nd, mv, u, k) == Tiled(r, c, l, nd, mv, u, k)
           Good(r) == /\ status'[r] = "live" =>
                           T(r, cur'[r], left'[r], need'[r], moved'[r], r \in UnderWay', pkt'[r])
                      /\ status'[r] = "committed" => moved'[r] = Bytes(ReqAddr[r], 0, ReqLen[r])
<1>1. \A r \in Reqs : /\ status[r] = "live" =>
                           T(r, cur[r], left[r], need[r], moved[r], r \in UnderWay, pkt[r])
                      /\ status[r] = "committed" => moved[r] = Bytes(ReqAddr[r], 0, ReqLen[r])
  BY DEF ChunksTileRequest, CommitComplete
<1>2. SUFFICES (\A r \in Reqs : Good(r)) /\ [Service!Next]_(Service!vars)
  BY DEF ChunksTileRequest, CommitComplete
<1>3. /\ cur \in [Reqs -> Nat] /\ left \in [Reqs -> Nat] /\ need \in [Reqs -> BOOLEAN]
      /\ pkt \in [Reqs -> Packet \cup {None}] /\ DOMAIN moved = Reqs
      /\ status \in [Reqs -> {"free", "live", "committed"}]
      /\ moved \in [Reqs -> SUBSET (Nat \X Int)]
  BY DEF TypeOK
<1>4. \A r \in Reqs : r \in UnderWay => status[r] = "live"
  BY ReqAssumption DEF OneHolder, HeldOnce, UnderWay, TypeOK, WriteReqs
<1>5. ASSUME UNCHANGED <<cur, left, need, moved, pkt, status>>, UnderWay' = UnderWay
      PROVE  (\A r \in Reqs : Good(r)) /\ [Service!Next]_(Service!vars)
  BY <1>1, <1>5 DEF Service!vars
<1>6. ASSUME NEW r \in Reqs, NewRequest(r)
      PROVE  (\A x \in Reqs : Good(x)) /\ [Service!Next]_(Service!vars)
  <2>1. /\ status[r] # "live" /\ r \notin UnderWay /\ UnderWay' = UnderWay
        /\ status' = [status EXCEPT ![r] = "live"] /\ moved' = [moved EXCEPT ![r] = {}]
        /\ cur' = [cur EXCEPT ![r] = ReqAddr[r]] /\ left' = [left EXCEPT ![r] = ReqLen[r]]
        /\ need' = [need EXCEPT ![r] = TRUE] /\ pkt' = [pkt EXCEPT ![r] = None]
    BY <1>4, <1>6 DEF NewRequest, UnderWay
  <2>2. Good(r)
    <3>1. T(r, ReqAddr[r], ReqLen[r], TRUE, {}, FALSE, None)
      BY TiledNew
    <3>2. /\ status'[r] = "live" /\ moved'[r] = {} /\ cur'[r] = ReqAddr[r]
          /\ left'[r] = ReqLen[r] /\ need'[r] = TRUE /\ pkt'[r] = None
      BY <1>3, <2>1
    <3>3. (r \in UnderWay') = FALSE
      BY <2>1
    <3>4. QED
      BY <3>1, <3>2, <3>3
  <2>3. ASSUME NEW x \in Reqs, x # r PROVE Good(x)
    <3>1. /\ status'[x] = status[x] /\ moved'[x] = moved[x] /\ cur'[x] = cur[x]
          /\ left'[x] = left[x] /\ need'[x] = need[x] /\ pkt'[x] = pkt[x]
      BY <1>3, <2>1, <2>3
    <3>2. QED
      BY <1>1, <2>1, <3>1
  <2>4. Service!Next
    BY <2>1 DEF Service!Next, Service!Submit
  <2>5. QED
    BY <2>2, <2>3, <2>4
<1>7. ASSUME NEW r \in Reqs, NEW p \in Ports, NEW ok \in BOOLEAN,
             status[r] = "live", r \notin UnderWay, UnderWay' = UnderWay \cup {r}, Send(r, p, ok)
      PROVE  (\A x \in Reqs : Good(x)) /\ [Service!Next]_(Service!vars)
  <2> DEFINE k == NextPacket(r)
  <2>1. /\ k \in Packet /\ k.size <= left[r] /\ (left[r] > 0 => k.size > 0)
        /\ k.addr = cur[r] /\ k.buf = ReqLen[r] - left[r]
    BY NextPacketType DEF NextPacket
  <2>2. /\ pkt' = [pkt EXCEPT ![r] = k] /\ cur' = [cur EXCEPT ![r] = @ + k.size]
        /\ left' = [left EXCEPT ![r] = @ - k.size]
        /\ need' = [need EXCEPT ![r] = left[r] - k.size > 0]
        /\ moved' = moved /\ status' = status
    BY <1>7 DEF Send
  <2> HIDE DEF k
  <2>3. Good(r)
    <3>1. T(r, cur[r], left[r], need[r], moved[r], FALSE, pkt[r])
      <4>1. (r \in UnderWay) = FALSE
        BY <1>7
      <4>2. QED
        BY <1>1, <1>7, <4>1
    <3>2. T(r, cur[r] + k.size, left[r] - k.size, left[r] - k.size > 0, moved[r], TRUE, k)
      <4>1. cur[r] \in Nat /\ left[r] \in Nat /\ need[r] \in BOOLEAN
        BY <1>3
      <4>2. QED
        BY <2>1, <3>1, <4>1, TiledSend
    <3>3. /\ cur'[r] = cur[r] + k.size /\ left'[r] = left[r] - k.size
          /\ need'[r] = (left[r] - k.size > 0) /\ pkt'[r] = k /\ moved'[r] = moved[r]
          /\ status'[r] = "live"
      BY <1>3, <1>7, <2>2
    <3>4. (r \in UnderWay') = TRUE
      BY <1>7
    <3>5. QED
      BY <3>2, <3>3, <3>4
  <2>4. ASSUME NEW x \in Reqs, x # r PROVE Good(x)
    <3>1. /\ status'[x] = status[x] /\ moved'[x] = moved[x] /\ cur'[x] = cur[x]
          /\ left'[x] = left[x] /\ need'[x] = need[x] /\ pkt'[x] = pkt[x]
      BY <1>3, <2>2, <2>4
    <3>2. (x \in UnderWay') = (x \in UnderWay)
      BY <1>7, <2>4
    <3>3. QED
      BY <1>1, <3>1, <3>2
  <2>5. QED
    BY <2>2, <2>3, <2>4 DEF Service!vars
<1>8. ASSUME NEW r \in UnderWay, NEW k \in Packet, pkt[r] = k, UnderWay' = UnderWay \ {r},
             NEW b, b = k.addr - ReqAddr[r] \/ b = k.buf,
             moved' = [moved EXCEPT ![r] = @ \cup Bytes(k.addr, b, k.size)],
             IF need[r] THEN status' = status
                        ELSE status' = [status EXCEPT ![r] = "committed"],
             UNCHANGED <<cur, left, need, pkt>>
      PROVE  (\A x \in Reqs : Good(x)) /\ [Service!Next]_(Service!vars)
  <2> DEFINE m == ReqLen[r] - left[r] - k.size
             n == ReqLen[r] - left[r]
  <2>1. r \in Reqs /\ status[r] = "live"
    BY <1>4, <1>8, ReqAssumption DEF UnderWay, TypeOK, WriteReqs
  <2>2. T(r, cur[r], left[r], need[r], moved[r], TRUE, k)
    <3>1. (r \in UnderWay) = TRUE
      BY <1>8
    <3>2. QED
      BY <1>1, <1>8, <2>1, <3>1
  <2>3. /\ cur[r] \in Nat /\ left[r] \in Nat /\ need[r] \in BOOLEAN
        /\ ReqLen[r] \in Nat \ {0} /\ ReqAddr[r] \in Nat /\ k.size \in Nat
    BY <1>3, <2>1, ReqAssumption DEF Packet
  <2>4. /\ moved[r] \cup Bytes(k.addr, b, k.size) = Bytes(ReqAddr[r], 0, n)
        /\ need[r] => T(r, cur[r], left[r], need[r], moved[r] \cup Bytes(k.addr, b, k.size), FALSE, k)
        /\ ~need[r] => left[r] = 0
    <3> DEFINE c == cur[r]
               l == left[r]
               nd == need[r]
               mv == moved[r]
    <3>1. /\ c \in Nat /\ l \in Nat /\ nd \in BOOLEAN
          /\ T(r, c, l, nd, mv, TRUE, k)
      BY <2>2, <2>3
    <3> HIDE DEF c, l, nd, mv
    <3>2. /\ mv \cup Bytes(k.addr, b, k.size) = Bytes(ReqAddr[r], 0, ReqLen[r] - l)
          /\ nd => T(r, c, l, nd, mv \cup Bytes(k.addr, b, k.size), FALSE, k)
          /\ ~nd => l = 0
      <4>1. k \in Packet /\ (b = k.addr - ReqAddr[r] \/ b = k.buf)
        BY <1>8
      <4>2. QED
        BY <2>1, <3>1, <4>1, TiledAnswer, ZenonT(30)
    <3>3. QED
      BY <3>2 DEF c, l, nd, mv
  <2>5. /\ m >= 0 /\ k.size > 0 /\ moved[r] = Bytes(ReqAddr[r], 0, m) /\ (need[r] <=> left[r] > 0)
    BY <2>2 DEF Tiled
  <2>6. moved'[r] = Bytes(ReqAddr[r], 0, n)
    BY <1>3, <1>8, <2>1, <2>4
  <2>7. ASSUME NEW x \in Reqs, x # r PROVE Good(x)
    <3>1. /\ status'[x] = status[x] /\ moved'[x] = moved[x] /\ cur'[x] = cur[x]
          /\ left'[x] = left[x] /\ need'[x] = need[x] /\ pkt'[x] = pkt[x]
      BY <1>3, <1>8, <2>7
    <3>2. (x \in UnderWay') = (x \in UnderWay)
      BY <1>8, <2>7
    <3>3. QED
      BY <1>1, <3>1, <3>2
  <2>8. /\ m \in 0..(ReqLen[r] - 1) /\ m < n
        /\ moved[r] = Service!Prefix(r, m)
        /\ moved' = [moved EXCEPT ![r] = Service!Prefix(r, n)]
    <3>1. m \in 0..(ReqLen[r] - 1) /\ m < n /\ n \in Nat /\ m \in Nat
      BY <2>3, <2>5
    <3>2. \A j \in Nat : Bytes(ReqAddr[r], 0, j) = Service!Prefix(r, j)
      BY DEF Bytes, Service!Prefix
    <3> HIDE DEF m, n
    <3>3. moved' = [moved EXCEPT ![r] = Bytes(ReqAddr[r], 0, n)]
      BY <1>3, <1>8, <2>4
    <3>4. Bytes(ReqAddr[r], 0, m) = Service!Prefix(r, m)
      BY <3>1, <3>2
    <3>5. Bytes(ReqAddr[r], 0, n) = Service!Prefix(r, n)
      BY <3>1, <3>2
    <3>6. QED
      BY <2>5, <3>1, <3>3, <3>4, <3>5
  <2>9. CASE need[r]
    <3>1. status' = status /\ n \in 1..(ReqLen[r] - 1) /\ n < ReqLen[r]
      BY <1>8, <2>3, <2>5, <2>9
    <3>2. Good(r)
      <4>1. T(r, cur[r], left[r], need[r], moved'[r], FALSE, k)
        BY <2>4, <2>6, <2>9
      <4>2. (r \in UnderWay') = FALSE
        BY <1>8
      <4>3. QED
        BY <1>8, <2>1, <3>1, <4>1, <4>2
    <3> HIDE DEF m, n
    <3>3. Service!Transfer(r, m, n)
      BY <2>1, <2>8, <3>1 DEF Service!Transfer
    <3>4. Service!Next
      BY <2>1, <2>8, <3>1, <3>3 DEF Service!Next
    <3>5. QED
      BY <2>7, <3>2, <3>4
  <2>10. CASE ~need[r]
    <3>1. status' = [status EXCEPT ![r] = "committed"] /\ n = ReqLen[r]
      BY <1>8, <2>3, <2>4, <2>10
    <3>2. Good(r)
      BY <1>3, <2>1, <2>6, <3>1
    <3> HIDE DEF m, n
    <3>3. Service!Commit(r, m)
      BY <2>1, <2>8, <3>1 DEF Service!Commit
    <3>4. Service!Next
      BY <2>1, <2>8, <3>3 DEF Service!Next
    <3>5. QED
      BY <2>7, <3>2, <3>4
  <2>11. QED
    BY <2>3, <2>9, <2>10
<1>9. ASSUME NEW r \in Reqs, NEW p \in Ports, NEW ok \in BOOLEAN,
             IssueRead(r, p, ok) \/ IssueWrite(r, p, ok)
      PROVE  (\A x \in Reqs : Good(x)) /\ [Service!Next]_(Service!vars)
  <2>1. CASE IssueRead(r, p, ok)
    <3>1. /\ scan.pos \in 1..Len(readQueue) /\ r = readQueue[scan.pos] /\ r \in ReadReqs
          /\ Send(r, p, ok) /\ UnderWay' = UnderWay \cup {r}
      BY <2>1 DEF IssueRead, TypeOK, UnderWay
    <3>2. r \notin UnderWay /\ status[r] = "live"
      BY <3>1 DEF OneHolder, HeldOnce, InQueue, UnderWay, TypeOK, WriteReqs
    <3>3. QED
      BY <1>7, <3>1, <3>2
  <2>2. CASE IssueWrite(r, p, ok)
    <3>1. /\ scan.pos \in 1..Len(writeQueue) /\ r = writeQueue[scan.pos] /\ r \in WriteReqs
          /\ Send(r, p, ok) /\ UnderWay' = UnderWay \cup {r}
      BY <2>2 DEF IssueWrite, TypeOK, UnderWay
    <3>2. r \notin UnderWay /\ status[r] = "live"
      BY <3>1 DEF OneHolder, HeldOnce, InQueue, UnderWay, TypeOK, WriteReqs
    <3>3. QED
      BY <1>7, <3>1, <3>2
  <2>3. QED
    BY <1>9, <2>1, <2>2
<1>10. ASSUME NEW k \in wire, NEW r \in Reqs, RecvRead(k, r) \/ RecvWrite(k, r)
       PROVE  (\A x \in Reqs : Good(x)) /\ [Service!Next]_(Service!vars)
  <2>1. CASE RecvRead(k, r)
    <3>1. /\ r \in UnderWay /\ k \in Packet /\ pkt[r] = k /\ UnderWay' = UnderWay \ {r}
          /\ moved' = [moved EXCEPT ![r] =
                         @ \cup Bytes(k.addr, k.addr - ReqAddr[r], k.size)]
          /\ (IF need[r] THEN status' = status
                         ELSE status' = [status EXCEPT ![r] = "committed"])
          /\ UNCHANGED <<cur, left, need, pkt>>
      BY <2>1 DEF RecvRead, UnderWay, TypeOK, WriteReqs
    <3>2. QED
      BY <1>8, <3>1
  <2>2. CASE RecvWrite(k, r)
    <3>1. /\ r \in UnderWay /\ k \in Packet /\ pkt[r] = k /\ UnderWay' = UnderWay \ {r}
          /\ moved' = [moved EXCEPT ![r] = @ \cup Bytes(k.addr, k.buf, k.size)]
          /\ (IF need[r] THEN status' = status
                         ELSE status' = [status EXCEPT ![r] = "committed"])
          /\ UNCHANGED <<cur, left, need, pkt>>
      BY <2>2 DEF RecvWrite, UnderWay, TypeOK, WriteReqs
    <3>2. QED
      BY <1>8, <3>1
  <2>3. QED
    BY <1>10, <2>1, <2>2
<1>11. CASE Quiet
  BY <1>5, <1>11, QuietFrame DEF queues, progress, UnderWay
<1>12. ASSUME NEW p \in Ports, NEW n \in 0..Len(outstandingPkts[p]), RecvReqRetry(p, n)
       PROVE  (\A x \in Reqs : Good(x)) /\ [Service!Next]_(Service!vars)
  BY <1>5, <1>12 DEF RecvReqRetry, queues, progress, UnderWay
<1>13. ReadReqs \subseteq Reqs /\ WriteReqs \subseteq Reqs
  BY ReqAssumption DEF WriteReqs
<1>14. QED
  BY <1>6, <1>9, <1>10, <1>11, <1>12, <1>13, StepCases DEF EnqueueRead, EnqueueWrite

----------------------------------------------------------------------------
(***************************************************************************)
(* The theorems                                                            *)
(***************************************************************************)

\* The inductive invariant: the five properties need each other (a commit is
\* complete because packets tile the request, which holds because a packet
\* belongs to one request, which holds because a request has one holder).
IInv == /\ TypeOK /\ OneHolder /\ OneOutstanding /\ PacketHasRequest
        /\ ChunksTileRequest /\ CommitComplete

\* The inductive invariant holds initially.
LEMMA InitIInv == Init => IInv
<1> SUFFICES ASSUME Init PROVE IInv
  OBVIOUS
<1>1. OneHolder
  BY ReqAssumption DEF Init, OneHolder, HeldOnce, Distinct, InQueue, WriteReqs
<1>2. OneOutstanding /\ PacketHasRequest
  BY DEF Init, OneOutstanding, PacketHasRequest, Placed, UnderWay
<1>3. ChunksTileRequest /\ CommitComplete
  BY DEF Init, ChunksTileRequest, CommitComplete
<1>4. QED
  BY <1>1, <1>2, <1>3, InitType DEF IInv

\* Every event preserves the inductive invariant.
LEMMA StepIInv == IInv /\ [Next]_vars => IInv'
BY TypeStep, HolderStep, PacketStep, ByteStep DEF IInv

\* For every set of requests and ports: no request is lost or held twice, a
\* port holds back at most one packet, every packet finds its request (the
\* panic of findMemRequest() is unreachable), packets tile their request, and
\* a committed request had every byte transferred to its own place.
THEOREM Safety ==
  Spec => [](OneHolder /\ OneOutstanding /\ PacketHasRequest
             /\ ChunksTileRequest /\ CommitComplete)
<1>1. IInv => OneHolder /\ OneOutstanding /\ PacketHasRequest
              /\ ChunksTileRequest /\ CommitComplete
  BY DEF IInv
<1>2. QED
  BY <1>1, InitIInv, StepIInv, PTL DEF Spec

\* The interface implements the abstract request service.
THEOREM Refinement == Spec => ImplementsService
<1>1. Init => Service!Init
  BY DEF Init, Service!Init
<1>2. IInv /\ [Next]_vars => [Service!Next]_(Service!vars)
  BY ByteStep DEF IInv
<1>3. QED
  BY <1>1, <1>2, InitIInv, StepIInv, PTL DEF Spec, ImplementsService, Service!Spec

=============================================================================
