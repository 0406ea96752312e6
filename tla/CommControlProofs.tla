------------------------- MODULE CommControlProofs --------------------------
(***************************************************************************)
(* Proofs about the control side of CommInterface: the tick that is never  *)
(* lost, the done bit and the interrupt, and the order of the queues.  They *)
(* rest on the invariant that CommInterfaceProofs establishes.             *)
(***************************************************************************)
EXTENDS CommInterfaceProofs

----------------------------------------------------------------------------
(***************************************************************************)
(* The tick                                                                *)
(***************************************************************************)
UnseenStart == "start" \in mmr /\ ~computationNeeded

\* NoLostTick is not inductive: the end of the scan schedules a tick for waiting
\* requests only.  A start bit cannot wait then, because tick() calls checkMMR()
\* before the scan, and no event of the host comes in between.
TickInv ==
  /\ TypeOK /\ NoLostTick
  /\ scan # Idle => ~UnseenStart

\* Every event preserves the invariant of the tick.
LEMMA TickStep == TickInv /\ [Next]_vars => TickInv'
<1> SUFFICES ASSUME TickInv, [Next]_vars
             PROVE  NoLostTick' /\ (scan # Idle => ~UnseenStart)'
  BY TypeStep DEF TickInv
<1> USE DEF queues, progress, portState, control, TickInv
<1>1. ASSUME NEW v \in HostWrites, Write(v)
      PROVE  NoLostTick' /\ (scan # Idle => ~UnseenStart)'
  BY <1>1 DEF Write, NoLostTick
<1>2. ASSUME NEW r \in Reqs, EnqueueRead(r) \/ EnqueueWrite(r)
      PROVE  NoLostTick' /\ (scan # Idle => ~UnseenStart)'
  BY <1>2 DEF EnqueueRead, EnqueueWrite, NewRequest, NoLostTick
<1>3. CASE Finish
  <2>1. /\ scan = Idle /\ scan' = scan /\ "start" \notin mmr' /\ tickScheduled' = tickScheduled
        /\ RequestsInQueues' = RequestsInQueues
    BY <1>3 DEF Finish, RequestsInQueues
  <2>2. QED
    BY <2>1 DEF NoLostTick
<1>4. CASE Tick
  <2>1. ~UnseenStart'
    BY <1>4 DEF Tick, CheckMMR, UnseenStart
  <2>2. RequestsInQueues' = RequestsInQueues
    BY <1>4 DEF Tick, RequestsInQueues
  <2>3. scan' = Idle => tickScheduled' = (RequestsInQueues > 0)
    BY <1>4 DEF Tick, Scan, Idle
  <2>4. QED
    BY <2>1, <2>2, <2>3 DEF NoLostTick, UnseenStart
<1>5. ASSUME NEW r \in Reqs, NEW p \in Ports, NEW ok \in BOOLEAN,
             IssueRead(r, p, ok) \/ IssueWrite(r, p, ok)
      PROVE  NoLostTick' /\ (scan # Idle => ~UnseenStart)'
  BY <1>5 DEF IssueRead, IssueWrite, NoLostTick, UnseenStart, Idle
<1>6. CASE SkipRead \/ EndReads \/ SkipWrite
  <2>1. scan # Idle /\ scan' # Idle /\ mmr' = mmr /\ computationNeeded' = computationNeeded
    BY <1>6 DEF SkipRead, EndReads, SkipWrite, Scan, Idle
  <2>2. QED
    BY <2>1 DEF NoLostTick, UnseenStart
<1>7. CASE EndWrites
  <2>1. /\ scan # Idle /\ mmr' = mmr /\ computationNeeded' = computationNeeded
        /\ RequestsInQueues' = RequestsInQueues
        /\ tickScheduled' = (tickScheduled \/ RequestsInQueues > 0) /\ scan' = Idle
    BY <1>7 DEF EndWrites, Idle, RequestsInQueues
  <2>2. QED
    BY <2>1 DEF NoLostTick, UnseenStart
<1>8. ASSUME NEW p \in Ports, NEW n \in 0..Len(outstandingPkts[p]), RecvReqRetry(p, n)
      PROVE  NoLostTick' /\ (scan # Idle => ~UnseenStart)'
  <2>1. /\ RequestsInQueues' = RequestsInQueues /\ mmr' = mmr /\ scan' = scan
        /\ computationNeeded' = computationNeeded /\ (tickScheduled => tickScheduled')
    BY <1>8 DEF RecvReqRetry, RequestsInQueues
  <2>2. QED
    BY <2>1 DEF NoLostTick, UnseenStart
<1>9. ASSUME NEW k \in wire, NEW r \in Reqs, RecvRead(k, r) \/ RecvWrite(k, r)
      PROVE  NoLostTick' /\ (scan # Idle => ~UnseenStart)'
  BY <1>9 DEF RecvRead, RecvWrite, NoLostTick
<1>10. CASE UNCHANGED vars
  BY <1>10 DEF vars, NoLostTick, UnseenStart, RequestsInQueues
<1>11. QED
  BY <1>1, <1>2, <1>3, <1>4, <1>5, <1>6, <1>7, <1>8, <1>9, <1>10
     DEF Next, Scanning, Retry, RecvPacket

\* The interface never sleeps with work to do: whenever the event loop is back, a
\* waiting request or a start bit not yet seen has a tick scheduled.
THEOREM TickNeverLost == Spec => []NoLostTick
<1>1. Init => TickInv
  <2>1. SUFFICES ASSUME Init PROVE TickInv
    OBVIOUS
  <2>2. RequestsInQueues = 0
    BY <2>1 DEF Init, RequestsInQueues
  <2>3. ~(RequestsInQueues > 0) /\ "start" \notin mmr /\ scan = Idle
    BY <2>1, <2>2 DEF Init
  <2>4. QED
    BY <2>1, <2>3, InitType DEF TickInv, NoLostTick
<1>2. QED
  BY <1>1, TickStep, PTL DEF Spec, TickInv

----------------------------------------------------------------------------
(***************************************************************************)
(* The done bit and the interrupt                                          *)
(***************************************************************************)

\* What keeps the done bit and the interrupt away from a computation: the
\* interrupt line is up only with the flag that makes write() lower it, the
\* done bit and the interrupt are gone before a start bit is there, and only a
\* running computation has live requests.
ControlInv ==
  /\ intLine => intFlag /\ UseInt
  /\ "start" \in mmr \/ computationNeeded => "done" \notin mmr /\ ~intLine
  /\ \A r \in Reqs : status[r] = "live" => computationNeeded

\* Every event preserves it.
LEMMA ControlStep ==
  ASSUME TypeOK, ControlInv, [Next]_vars
  PROVE  ControlInv'
<1> USE DEF queues, progress, portState, control
<1>1. ASSUME NEW v \in HostWrites, Write(v) PROVE ControlInv'
  <2>1. "done" \notin mmr' /\ computationNeeded' = computationNeeded /\ status' = status
    BY <1>1, HostAssumption DEF Write
  <2>2. ~intLine'
    <3>1. CASE intFlag
      BY <1>1, <2>1, <3>1 DEF Write, ControlInv
    <3>2. CASE ~intFlag
      BY <1>1, <3>2 DEF Write, ControlInv
    <3>3. QED
      BY <3>1, <3>2
  <2>3. QED
    BY <2>1, <2>2 DEF ControlInv
<1>2. ASSUME NEW r \in Reqs, EnqueueRead(r) \/ EnqueueWrite(r) PROVE ControlInv'
  BY <1>2 DEF EnqueueRead, EnqueueWrite, NewRequest, ControlInv, TypeOK
<1>3. CASE Finish
  BY <1>3, HostAssumption DEF Finish, ControlInv, TypeOK
<1>4. CASE Tick
  <2>1. intFlag' = intFlag /\ intLine' = intLine /\ status' = status
    BY <1>4 DEF Tick
  <2>2. CASE ~computationNeeded /\ "start" \in mmr
    <3>1. mmr' = (mmr \ {"start"}) \cup {"running"} /\ computationNeeded'
      BY <1>4, <2>2 DEF Tick, CheckMMR
    <3>2. QED
      BY <2>1, <2>2, <3>1 DEF ControlInv
  <2>3. CASE ~(~computationNeeded /\ "start" \in mmr)
    <3>1. mmr' = mmr /\ computationNeeded' = computationNeeded
      BY <1>4, <2>3 DEF Tick, CheckMMR
    <3>2. QED
      BY <2>1, <3>1 DEF ControlInv
  <2>4. QED
    BY <2>2, <2>3
<1>5. ASSUME NEW r \in Reqs, NEW p \in Ports, NEW ok \in BOOLEAN,
             IssueRead(r, p, ok) \/ IssueWrite(r, p, ok)
      PROVE  ControlInv'
  BY <1>5 DEF IssueRead, IssueWrite, Send, ControlInv
<1>6. CASE SkipRead \/ EndReads \/ SkipWrite \/ EndWrites
  BY <1>6 DEF SkipRead, EndReads, SkipWrite, EndWrites, ControlInv
<1>7. ASSUME NEW p \in Ports, NEW n \in 0..Len(outstandingPkts[p]), RecvReqRetry(p, n)
      PROVE  ControlInv'
  BY <1>7 DEF RecvReqRetry, ControlInv
<1>8. ASSUME NEW k \in wire, NEW r \in Reqs, RecvRead(k, r) \/ RecvWrite(k, r)
      PROVE  ControlInv'
  <2>1. /\ mmr' = mmr /\ computationNeeded' = computationNeeded
        /\ intFlag' = intFlag /\ intLine' = intLine
        /\ status' = status \/ status' = [status EXCEPT ![r] = "committed"]
    BY <1>8 DEF RecvRead, RecvWrite
  <2>2. \A x \in Reqs : status'[x] = "live" => status[x] = "live"
    BY <2>1 DEF TypeOK
  <2>3. QED
    BY <2>1, <2>2 DEF ControlInv
<1>9. CASE UNCHANGED vars
  BY <1>9 DEF vars, ControlInv
<1>10. QED
  BY <1>1, <1>2, <1>3, <1>4, <1>5, <1>6, <1>7, <1>8, <1>9
     DEF Next, Scanning, Retry, RecvPacket

\* Without a live request no packet is at a peer or waits at a port.
LEMMA QuietPorts ==
  ASSUME IInv, \A r \in Reqs : status[r] # "live"
  PROVE  wire = {} /\ \A p \in Ports : ~IsStalled(p)
<1>1. UnderWay = {}
  <2>1. \A r \in ReadReqs : r \notin accRdQ
    BY ReqAssumption DEF IInv, OneHolder, HeldOnce
  <2>2. \A r \in WriteReqs : r \notin accWrQ
    BY DEF IInv, OneHolder, HeldOnce, WriteReqs
  <2>3. QED
    BY <2>1, <2>2 DEF IInv, TypeOK, UnderWay
<1>2. wire = {}
  BY <1>1 DEF IInv, PacketHasRequest, Placed
<1>3. ASSUME NEW p \in Ports PROVE ~IsStalled(p)
  <2>1. outstandingPkts[p] \in Seq(Packet)
    BY DEF IInv, TypeOK
  <2>2. \A i \in 1..Len(outstandingPkts[p]) : FALSE
    BY <1>1 DEF IInv, PacketHasRequest, Placed
  <2>3. outstandingPkts[p] = <<>>
    BY <2>1, <2>2
  <2>4. QED
    BY <2>3 DEF IsStalled
<1>4. QED
  BY <1>2, <1>3

\* The host never sees the done bit or the interrupt while something of the
\* computation is left: a live request, a packet at a peer, a packet waiting.
THEOREM DoneIsQuiet == Spec => []DoneMeansQuiet
<1>1. Init => ControlInv
  BY DEF Init, ControlInv
<1>2. IInv /\ ControlInv /\ [Next]_vars => ControlInv'
  BY ControlStep DEF IInv
<1>3. IInv /\ ControlInv => DoneMeansQuiet
  <2>1. SUFFICES ASSUME IInv, ControlInv, "done" \in mmr \/ intLine
                 PROVE  /\ ~computationNeeded /\ \A r \in Reqs : status[r] # "live"
                        /\ wire = {} /\ \A p \in Ports : ~IsStalled(p)
    BY DEF DoneMeansQuiet
  <2>2. ~computationNeeded /\ \A r \in Reqs : status[r] # "live"
    BY <2>1 DEF ControlInv
  <2>3. QED
    BY <2>1, <2>2, QuietPorts
<1>4. QED
  BY <1>1, <1>2, <1>3, InitIInv, StepIInv, PTL DEF Spec

----------------------------------------------------------------------------
(***************************************************************************)
(* The order of the queues                                                 *)
(***************************************************************************)

\* ContinuationFirst for one queue and given addresses.
Continued(q, c) ==
  \A i, j \in 1..Len(q) :
    i < j /\ c[q[j]] # ReqAddr[q[j]] => c[q[i]] # ReqAddr[q[i]]

\* A new request has sent nothing and joins at the end.
LEMMA ContinuedAppend ==
  ASSUME NEW S \in SUBSET Reqs, NEW q \in Seq(S), NEW r \in S, ~InQueue(q, r),
         NEW c \in [Reqs -> Nat], Continued(q, c)
  PROVE  Continued(Append(q, r), [c EXCEPT ![r] = ReqAddr[r]])
<1> DEFINE q2 == Append(q, r)
           c2 == [c EXCEPT ![r] = ReqAddr[r]]
<1>1. /\ Len(q) \in Nat /\ Len(q2) = Len(q) + 1 /\ q2[Len(q) + 1] = r
      /\ \A i \in 1..Len(q) : q2[i] = q[i]
  BY AppendProperties
<1>2. c2[r] = ReqAddr[r] /\ \A i \in 1..Len(q) : c2[q[i]] = c[q[i]]
  BY DEF InQueue
<1> HIDE DEF q2, c2
<1>3. SUFFICES ASSUME NEW i \in 1..Len(q2), NEW j \in 1..Len(q2), i < j,
                      c2[q2[j]] # ReqAddr[q2[j]]
               PROVE  c2[q2[i]] # ReqAddr[q2[i]]
  BY DEF Continued, q2, c2
<1>4. i \in 1..Len(q) /\ j \in 1..Len(q)
  BY <1>1, <1>2, <1>3
<1>5. QED
  BY <1>1, <1>2, <1>3, <1>4 DEF Continued

\* A request that leaves the queue does not change the order of the others.
LEMMA ContinuedErase ==
  ASSUME NEW S \in SUBSET Reqs, NEW q \in Seq(S), NEW n \in 1..Len(q), Distinct(q),
         NEW c \in [Reqs -> Nat], NEW x, Continued(q, c)
  PROVE  Continued(Erase(q, n), [c EXCEPT ![q[n]] = x])
<1> DEFINE q2 == Erase(q, n)
           c2 == [c EXCEPT ![q[n]] = x]
           old(i) == IF i < n THEN i ELSE i + 1
<1>1. /\ Len(q) \in Nat /\ Len(q2) = Len(q) - 1
      /\ \A j \in 1..(Len(q) - 1) : q2[j] = IF j < n THEN q[j] ELSE q[j + 1]
  BY EraseEntries
<1>3. \A i \in 1..Len(q) : i # n => q[i] # q[n] /\ c2[q[i]] = c[q[i]]
  BY DEF Distinct
<1> HIDE DEF q2, c2
<1>2. \A i \in 1..Len(q2) : old(i) \in 1..Len(q) /\ old(i) # n /\ q2[i] = q[old(i)]
  BY <1>1
<1>4. \A i, j \in 1..Len(q2) : i < j => old(i) < old(j)
  BY <1>1
<1> HIDE DEF old
<1>5. SUFFICES ASSUME NEW i \in 1..Len(q2), NEW j \in 1..Len(q2), i < j,
                      c2[q2[j]] # ReqAddr[q2[j]]
               PROVE  c2[q2[i]] # ReqAddr[q2[i]]
  BY DEF Continued, q2, c2
<1>6. /\ old(i) \in 1..Len(q) /\ old(j) \in 1..Len(q) /\ old(i) < old(j)
      /\ q2[i] = q[old(i)] /\ q2[j] = q[old(j)]
      /\ c2[q2[i]] = c[q[old(i)]] /\ c2[q2[j]] = c[q[old(j)]]
  BY <1>2, <1>3, <1>4, <1>5
<1>7. QED
  BY <1>5, <1>6 DEF Continued

\* A request that has sent a packet is put at the front.
LEMMA ContinuedFront ==
  ASSUME NEW S \in SUBSET Reqs, NEW q \in Seq(S), NEW r \in S,
         NEW c, c[r] # ReqAddr[r], Continued(q, c)
  PROVE  Continued(PushFront(q, r), c)
<1> DEFINE q2 == PushFront(q, r)
<1>0. /\ Len(q) \in Nat /\ Len(q2) = Len(q) + 1
      /\ \A i \in 1..(Len(q) + 1) : q2[i] = IF i = 1 THEN r ELSE q[i - 1]
  BY DEF PushFront
<1> HIDE DEF q2
<1>1. /\ Len(q) \in Nat /\ Len(q2) = Len(q) + 1 /\ q2[1] = r
      /\ \A i \in 1..Len(q2) : i # 1 => i - 1 \in 1..Len(q) /\ q2[i] = q[i - 1]
  BY <1>0
<1>2. SUFFICES ASSUME NEW i \in 1..Len(q2), NEW j \in 1..Len(q2), i < j,
                      c[q2[j]] # ReqAddr[q2[j]]
               PROVE  c[q2[i]] # ReqAddr[q2[i]]
  BY DEF Continued, q2
<1>3. CASE i = 1
  BY <1>1, <1>3
<1>4. CASE i # 1
  <2>1. i - 1 \in 1..Len(q) /\ j - 1 \in 1..Len(q) /\ i - 1 < j - 1
        /\ q2[i] = q[i - 1] /\ q2[j] = q[j - 1]
    BY <1>1, <1>2, <1>4
  <2>2. QED
    BY <1>2, <2>1 DEF Continued
<1>5. QED
  BY <1>3, <1>4

\* A queue is not concerned by a request of the other direction.
LEMMA ContinuedFrame ==
  ASSUME NEW S \in SUBSET Reqs, NEW q \in Seq(S), NEW r \in Reqs \ S,
         NEW c \in [Reqs -> Nat], NEW x, Continued(q, c)
  PROVE  Continued(q, [c EXCEPT ![r] = x])
<1>1. \A i \in 1..Len(q) : q[i] \in S
  OBVIOUS
<1>2. \A i \in 1..Len(q) : [c EXCEPT ![r] = x][q[i]] = c[q[i]]
  BY <1>1
<1>3. QED
  BY <1>2 DEF Continued

QueuesContinued == Continued(readQueue, cur) /\ Continued(writeQueue, cur)

\* Every event keeps both queues in order.
LEMMA ContinuedStep ==
  ASSUME IInv, QueuesContinued, [Next]_vars
  PROVE  QueuesContinued'
<1>1. /\ ReadReqs \in SUBSET Reqs /\ WriteReqs \in SUBSET Reqs
      /\ readQueue \in Seq(ReadReqs) /\ writeQueue \in Seq(WriteReqs)
      /\ cur \in [Reqs -> Nat] /\ scan.pos \in Nat \ {0}
      /\ Continued(readQueue, cur) /\ Continued(writeQueue, cur)
      /\ Distinct(readQueue) /\ Distinct(writeQueue)
  BY ReqAssumption DEF IInv, TypeOK, OneHolder, HeldOnce, WriteReqs, QueuesContinued
<1>2. \A r \in ReadReqs : r \in Reqs \ WriteReqs
  BY ReqAssumption DEF WriteReqs
<1>3. \A r \in WriteReqs : r \in Reqs \ ReadReqs
  BY DEF WriteReqs
<1>4. ASSUME NEW r \in UnderWay PROVE cur[r] # ReqAddr[r]
  <2>1. r \in Reqs /\ status[r] = "live" /\ pkt[r] \in Packet
    BY <1>1, <1>4 DEF IInv, TypeOK, UnderWay, OneHolder, HeldOnce, PacketHasRequest, Placed
  <2>2. Tiled(r, cur[r], left[r], need[r], moved[r], TRUE, pkt[r])
    BY <1>4, <2>1 DEF IInv, ChunksTileRequest
  <2>3. /\ ReqLen[r] \in Nat /\ ReqAddr[r] \in Nat /\ left[r] \in Nat /\ pkt[r].size \in Nat
    BY <2>1, ReqAssumption DEF IInv, TypeOK, Packet
  <2>4. QED
    BY <2>2, <2>3 DEF Tiled
<1>5. CASE Quiet
  BY <1>1, <1>5, QuietFrame DEF QueuesContinued, queues, progress
<1>6. ASSUME NEW r \in ReadReqs, EnqueueRead(r) PROVE QueuesContinued'
  <2>1. /\ readQueue' = Append(readQueue, r) /\ writeQueue' = writeQueue
        /\ cur' = [cur EXCEPT ![r] = ReqAddr[r]] /\ status[r] # "live"
    BY <1>6 DEF EnqueueRead, NewRequest
  <2>2. ~InQueue(readQueue, r)
    BY <2>1 DEF IInv, OneHolder, HeldOnce
  <2>3. QED
    BY <1>1, <1>2, <2>1, <2>2, ContinuedAppend, ContinuedFrame DEF QueuesContinued
<1>7. ASSUME NEW r \in WriteReqs, EnqueueWrite(r) PROVE QueuesContinued'
  <2>1. /\ writeQueue' = Append(writeQueue, r) /\ readQueue' = readQueue
        /\ cur' = [cur EXCEPT ![r] = ReqAddr[r]] /\ status[r] # "live"
    BY <1>7 DEF EnqueueWrite, NewRequest
  <2>2. ~InQueue(writeQueue, r)
    BY <2>1 DEF IInv, OneHolder, HeldOnce
  <2>3. QED
    BY <1>1, <1>3, <2>1, <2>2, ContinuedAppend, ContinuedFrame DEF QueuesContinued
<1>8. ASSUME NEW r \in Reqs, NEW p \in Ports, NEW ok \in BOOLEAN, IssueRead(r, p, ok)
      PROVE  QueuesContinued'
  <2>1. /\ scan.pos \in 1..Len(readQueue) /\ r = readQueue[scan.pos] /\ r \in ReadReqs
        /\ readQueue' = Erase(readQueue, scan.pos) /\ writeQueue' = writeQueue
        /\ cur' = [cur EXCEPT ![r] = cur[r] + NextPacket(r).size]
    BY <1>1, <1>8 DEF IssueRead, Send
  <2>2. QED
    BY <1>1, <1>2, <2>1, ContinuedErase, ContinuedFrame DEF QueuesContinued
<1>9. ASSUME NEW r \in Reqs, NEW p \in Ports, NEW ok \in BOOLEAN, IssueWrite(r, p, ok)
      PROVE  QueuesContinued'
  <2>1. /\ scan.pos \in 1..Len(writeQueue) /\ r = writeQueue[scan.pos] /\ r \in WriteReqs
        /\ writeQueue' = Erase(writeQueue, scan.pos) /\ readQueue' = readQueue
        /\ cur' = [cur EXCEPT ![r] = cur[r] + NextPacket(r).size]
    BY <1>1, <1>9 DEF IssueWrite, Send
  <2>2. QED
    BY <1>1, <1>3, <2>1, ContinuedErase, ContinuedFrame DEF QueuesContinued
<1>10. ASSUME NEW p \in Ports, NEW n \in 0..Len(outstandingPkts[p]), RecvReqRetry(p, n)
       PROVE  QueuesContinued'
  BY <1>1, <1>10 DEF RecvReqRetry, queues, progress, QueuesContinued
<1>11. ASSUME NEW k \in wire, NEW r \in Reqs, RecvRead(k, r) PROVE QueuesContinued'
  <2>1. /\ r \in ReadReqs /\ r \in UnderWay /\ writeQueue' = writeQueue /\ cur' = cur
        /\ readQueue' = readQueue \/ readQueue' = PushFront(readQueue, r)
    BY <1>11 DEF RecvRead, UnderWay, IInv, TypeOK
  <2>2. QED
    BY <1>1, <1>4, <2>1, ContinuedFront DEF QueuesContinued
<1>12. ASSUME NEW k \in wire, NEW r \in Reqs, RecvWrite(k, r) PROVE QueuesContinued'
  <2>1. /\ r \in WriteReqs /\ r \in UnderWay /\ readQueue' = readQueue /\ cur' = cur
        /\ writeQueue' = writeQueue \/ writeQueue' = PushFront(writeQueue, r)
    BY <1>12 DEF RecvWrite, UnderWay, IInv, TypeOK
  <2>2. QED
    BY <1>1, <1>4, <2>1, ContinuedFront DEF QueuesContinued
<1>13. QED
  BY <1>5, <1>6, <1>7, <1>8, <1>9, <1>10, <1>11, <1>12, StepCases

\* A request that has sent a packet is always served again before the requests
\* that have not: push_front in recvPacket() keeps the queues in that order
\* whatever is enqueued, issued and answered in between.
THEOREM ContinuationsFirst == Spec => []ContinuationFirst
<1>1. Init => QueuesContinued
  BY DEF Init, QueuesContinued, Continued
<1>2. QueuesContinued => ContinuationFirst
  BY DEF QueuesContinued, Continued, ContinuationFirst, Started
<1>3. IInv /\ QueuesContinued /\ [Next]_vars => QueuesContinued'
  BY ContinuedStep
<1>4. QED
  BY <1>1, <1>2, <1>3, InitIInv, StepIInv, PTL DEF Spec

\* The packets of a request make it up, in address order and without overlap,
\* and a waiting request has bytes left.
THEOREM ChunksAlwaysTile == Spec => []ChunksTileRequest
BY Safety, PTL
=============================================================================
