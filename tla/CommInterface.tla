--------------------------- MODULE CommInterface ---------------------------
(***************************************************************************)
(* The communications interface of an accelerator (comm_interface.cc/.hh). *)
(* It queues the memory requests of the compute unit, cuts each into       *)
(* packets that stop at cache-line boundaries, sends them over its master  *)
(* ports (at most one read and one write request per port), keeps a packet *)
(* that its peer refuses until the peer asks for it again, and carries the *)
(* start / running / done bits and the interrupt that the host sees.       *)
(*                                                                         *)
(* The simulator runs one event at a time.  The loop over the two queues   *)
(* in processMemoryRequests() is modelled one iteration per step (variable *)
(* scan); every other event waits until the loop is over.  The peers of    *)
(* the ports, the compute unit and the host are the environment: a peer    *)
(* may refuse a packet, owes a retry when it did, and answers packets in   *)
(* any order.                                                              *)
(***************************************************************************)
EXTENDS Integers, Sequences, FiniteSets

CONSTANTS
  Reqs,        \* the MemoryRequest objects the compute unit hands over
  ReadReqs,    \* those built by the read constructor; the others are writes
  ReqAddr,     \* address of the first byte of each request
  ReqLen,      \* length of each request in bytes
  Ports,       \* the master ports, numbered in the order the code scans them
  PortClass,   \* "stream", "spm", "local" or "global" (port name "acp")
  PortRange,   \* the set of addresses each port reaches
  LineSize,    \* cacheLineSize
  UseInt,      \* int_num > 0
  HostWrites,  \* the flag bytes the host writes, each a set of bits
  None         \* the null pointer

Classes == {"stream", "spm", "local", "global"}
Bits    == {"start", "running", "done"}    \* 0x01, 0x02, 0x04 of *mmreg

ASSUME ReqAssumption ==
  /\ ReadReqs \subseteq Reqs
  /\ ReqAddr \in [Reqs -> Nat]
  /\ ReqLen \in [Reqs -> Nat \ {0}]
  /\ None \notin Reqs
ASSUME PortAssumption ==
  /\ Ports \subseteq Nat
  /\ PortClass \in [Ports -> Classes]
  /\ PortRange \in [Ports -> SUBSET Nat]
  /\ None \notin Ports
ASSUME LineAssumption == LineSize \in Nat \ {0}
ASSUME HostAssumption ==
  /\ UseInt \in BOOLEAN
  /\ HostWrites \subseteq SUBSET {"start", "running"}
\* The code panics on an address that no port reaches.
ASSUME ReachAssumption ==
  \A r \in Reqs : \A i \in 0..(ReqLen[r] - 1) :
    \E p \in Ports : ReqAddr[r] + i \in PortRange[p]

VARIABLES
  readQueue, writeQueue,   \* requests waiting for a port
  accRdQ, accWrQ,          \* requests with a packet under way (std::list used as a set)
  cur, left, need,         \* per request: current address, bytes left, needToRead / needToWrite
  pkt, carrier,            \* per request: its last packet and the port that took it
  readReq, writeReq,       \* per port: the request it is busy with
  outstandingPkts,         \* per port: packets refused by the peer
  wire,                    \* packets a peer took and has not answered
  moved,                   \* per request: <<address, buffer index>> of every byte transferred
  status,                  \* per request, for the compute unit: "free", "live", "committed"
  tickScheduled,           \* tickEvent.scheduled()
  scan,                    \* where processMemoryRequests() is
  mmr, computationNeeded, intFlag,  \* *mmreg, computationNeeded, int_flag
  intLine                  \* the interrupt line at the GIC

queues == <<readQueue, writeQueue, accRdQ, accWrQ>>
progress == <<cur, left, need, pkt, carrier, moved, status>>
portState == <<readReq, writeReq, outstandingPkts, wire>>
control == <<mmr, computationNeeded, intFlag, intLine>>
vars == <<queues, progress, portState, control, tickScheduled, scan>>

WriteReqs == Reqs \ ReadReqs
Idle == [phase |-> "idle", pos |-> 1]
Scan(phase, pos) == [phase |-> phase, pos |-> pos]

(***************************************************************************)
(* Packets.  A packet belongs to one request; buf is the index in the      *)
(* buffer of a write where the packet's data was copied from.              *)
(***************************************************************************)
Packet == [req : Reqs, addr : Nat, size : Nat, buf : Int]

\* Mutant: the rest of the request is ignored.
ChunkToLineEnd(a, n) == LineSize - (a % LineSize)

\* Bytes up to the end of the cache line, or all that is left.
ChunkSize(a, n) ==
  LET line == LineSize - (a % LineSize)
  IN  IF n > line - 1 THEN line ELSE n

\* Mutant: every packet of a write is copied from the start of the buffer.
NextPacketFromStart(r) ==
  [req |-> r, addr |-> cur[r], size |-> ChunkSize(cur[r], left[r]), buf |-> 0]

NextPacket(r) ==
  [req  |-> r,
   addr |-> cur[r],
   size |-> ChunkSize(cur[r], left[r]),
   buf  |-> ReqLen[r] - left[r]]

Bytes(addr, buf, size) == {<<addr + k, buf + k>> : k \in 0..(size - 1)}

(***************************************************************************)
(* Choosing a port                                                         *)
(***************************************************************************)
InRange(c, a) == \E p \in Ports : PortClass[p] = c /\ a \in PortRange[p]

ClassOf(a) ==
  IF InRange("stream", a) THEN "stream"
  ELSE IF InRange("spm", a) THEN "spm"
  ELSE IF InRange("local", a) THEN "local"
  ELSE "global"

IsStalled(p) == outstandingPkts[p] # <<>>
AllPortsStalled == \A p \in Ports : IsStalled(p)

\* The ports a request may use now; busy is readReq or writeReq.
FreePorts(a, busy) ==
  {p \in Ports : /\ PortClass[p] = ClassOf(a)
                 /\ a \in PortRange[p]
                 /\ ~IsStalled(p)
                 /\ busy[p] = None}

\* Whether the peer lets the port be used is the peer's state, asked for by
\* streamValid() and canAccess(): any answer is possible here.
Gated(a) == ClassOf(a) \in {"stream", "spm"}

\* The first free port; for a gated class, the first one whose peer agrees.
MayChoose(p, a, busy) ==
  /\ p \in FreePorts(a, busy)
  /\ Gated(a) \/ \A q \in FreePorts(a, busy) : p <= q

MayFindNone(a, busy) == Gated(a) \/ FreePorts(a, busy) = {}

(***************************************************************************)
(* Initial state                                                           *)
(***************************************************************************)
Init ==
  /\ readQueue = <<>> /\ writeQueue = <<>>
  /\ accRdQ = {} /\ accWrQ = {}
  /\ cur = ReqAddr
  /\ left = ReqLen
  /\ need = [r \in Reqs |-> TRUE]
  /\ pkt = [r \in Reqs |-> None]
  /\ carrier = [r \in Reqs |-> None]
  /\ moved = [r \in Reqs |-> {}]
  /\ status = [r \in Reqs |-> "free"]
  /\ readReq = [p \in Ports |-> None]
  /\ writeReq = [p \in Ports |-> None]
  /\ outstandingPkts = [p \in Ports |-> <<>>]
  /\ wire = {}
  /\ tickScheduled = FALSE
  /\ scan = Idle
  /\ mmr = {} /\ computationNeeded = FALSE
  /\ intFlag = FALSE /\ intLine = FALSE

----------------------------------------------------------------------------
(***************************************************************************)
(* The host and the compute unit                                           *)
(***************************************************************************)

\* Mutant: no tick is scheduled.
WriteWithoutTick(v) ==
  /\ scan = Idle
  /\ mmr' = v
  /\ intFlag' = FALSE /\ intLine' = FALSE
  /\ UNCHANGED <<queues, progress, portState, computationNeeded, tickScheduled, scan>>

\* write(): the host overwrites the flag byte; clearing the done bit
\* acknowledges the interrupt; a tick is scheduled in any case.
Write(v) ==
  /\ scan = Idle
  /\ mmr' = v
  /\ IF "done" \notin v /\ intFlag
       THEN /\ intFlag' = FALSE
            /\ intLine' = IF UseInt THEN FALSE ELSE intLine
       ELSE UNCHANGED <<intFlag, intLine>>
  /\ tickScheduled' = TRUE
  /\ UNCHANGED <<queues, progress, portState, computationNeeded, scan>>

\* A running compute unit builds a MemoryRequest and hands it over.
NewRequest(r) ==
  /\ scan = Idle
  /\ computationNeeded
  /\ status[r] # "live"
  /\ status' = [status EXCEPT ![r] = "live"]
  /\ cur' = [cur EXCEPT ![r] = ReqAddr[r]]
  /\ left' = [left EXCEPT ![r] = ReqLen[r]]
  /\ need' = [need EXCEPT ![r] = TRUE]
  /\ pkt' = [pkt EXCEPT ![r] = None]
  /\ carrier' = [carrier EXCEPT ![r] = None]
  /\ moved' = [moved EXCEPT ![r] = {}]
  /\ tickScheduled' = TRUE
  /\ UNCHANGED <<accRdQ, accWrQ, portState, control, scan>>

EnqueueRead(r) ==
  /\ r \in ReadReqs
  /\ NewRequest(r)
  /\ readQueue' = Append(readQueue, r)
  /\ UNCHANGED writeQueue

EnqueueWrite(r) ==
  /\ r \in WriteReqs
  /\ NewRequest(r)
  /\ writeQueue' = Append(writeQueue, r)
  /\ UNCHANGED readQueue

\* finish(), called by the compute unit when none of its requests is pending.
\* What it does to the scratchpads (reset_spm) is SetAllReady of ScratchpadMemory.
Finish ==
  /\ scan = Idle
  /\ computationNeeded
  /\ \A r \in Reqs : status[r] # "live"
  /\ mmr' = (mmr \ {"start", "running"}) \cup {"done"}
  /\ computationNeeded' = FALSE
  /\ IF UseInt THEN intFlag' = TRUE /\ intLine' = TRUE
               ELSE UNCHANGED <<intFlag, intLine>>
  /\ UNCHANGED <<queues, progress, portState, tickScheduled, scan>>

----------------------------------------------------------------------------
(***************************************************************************)
(* tick(): checkMMR() and processMemoryRequests()                          *)
(***************************************************************************)
CheckMMR ==
  IF ~computationNeeded /\ "start" \in mmr
    THEN /\ mmr' = (mmr \ {"start"}) \cup {"running"}
         /\ computationNeeded' = TRUE
    ELSE UNCHANGED <<mmr, computationNeeded>>

RequestsInQueues == Len(readQueue) + Len(writeQueue)

Tick ==
  /\ scan = Idle
  /\ tickScheduled
  /\ CheckMMR
  /\ IF RequestsInQueues > 0 /\ ~AllPortsStalled
       THEN scan' = Scan("read", 1) /\ tickScheduled' = FALSE
       ELSE UNCHANGED scan /\ tickScheduled' = (RequestsInQueues > 0)
  /\ UNCHANGED <<queues, progress, portState, intFlag, intLine>>

\* Mutant: a request that has sent a packet needs no more.
SendOnce(r, p, ok) ==
  LET k == NextPacket(r)
  IN  /\ wire' = IF ok THEN wire \cup {k} ELSE wire
      /\ outstandingPkts' =
           IF ok THEN outstandingPkts
                 ELSE [outstandingPkts EXCEPT ![p] = Append(@, k)]
      /\ pkt' = [pkt EXCEPT ![r] = k]
      /\ cur' = [cur EXCEPT ![r] = @ + k.size]
      /\ left' = [left EXCEPT ![r] = @ - k.size]
      /\ need' = [need EXCEPT ![r] = FALSE]
      /\ carrier' = [carrier EXCEPT ![r] = p]
      /\ tickScheduled' = TRUE
      /\ UNCHANGED <<moved, status>>

\* sendPacket() of tryRead() and tryWrite(): the peer takes the packet, or
\* refuses it and the port keeps it.
Send(r, p, ok) ==
  LET k == NextPacket(r)
  IN  /\ wire' = IF ok THEN wire \cup {k} ELSE wire
      /\ outstandingPkts' =
           IF ok THEN outstandingPkts
                 ELSE [outstandingPkts EXCEPT ![p] = Append(@, k)]
      /\ pkt' = [pkt EXCEPT ![r] = k]
      /\ cur' = [cur EXCEPT ![r] = @ + k.size]
      /\ left' = [left EXCEPT ![r] = @ - k.size]
      /\ need' = [need EXCEPT ![r] = left[r] - k.size > 0]
      /\ carrier' = [carrier EXCEPT ![r] = p]
      /\ tickScheduled' = (tickScheduled \/ ok \/ left[r] - k.size <= 0)
      /\ UNCHANGED <<moved, status>>

\* Mutant: a request goes to the back of its queue.
PushBack(q, r) == Append(q, r)

\* list::erase and list::push_front on a queue.
Erase(q, i) == SubSeq(q, 1, i - 1) \o SubSeq(q, i + 1, Len(q))
PushFront(q, r) == <<r>> \o q

\* needToRead is TRUE of every request in the queue: see ChunksTileRequest.
IssueRead(r, p, ok) ==
  /\ scan.phase = "read" /\ scan.pos <= Len(readQueue)
  /\ r = readQueue[scan.pos]
  /\ MayChoose(p, cur[r], readReq)
  /\ readReq' = [readReq EXCEPT ![p] = r]
  /\ readQueue' = Erase(readQueue, scan.pos)
  /\ accRdQ' = accRdQ \cup {r}
  /\ Send(r, p, ok)
  /\ UNCHANGED <<writeQueue, accWrQ, writeReq, control, scan>>

SkipRead ==
  /\ scan.phase = "read" /\ scan.pos <= Len(readQueue)
  /\ MayFindNone(cur[readQueue[scan.pos]], readReq)
  /\ scan' = Scan("read", scan.pos + 1)
  /\ UNCHANGED <<queues, progress, portState, control, tickScheduled>>

EndReads ==
  /\ scan.phase = "read" /\ scan.pos > Len(readQueue)
  /\ scan' = Scan("write", 1)
  /\ UNCHANGED <<queues, progress, portState, control, tickScheduled>>

IssueWrite(r, p, ok) ==
  /\ scan.phase = "write" /\ scan.pos <= Len(writeQueue)
  /\ r = writeQueue[scan.pos]
  /\ MayChoose(p, cur[r], writeReq)
  /\ writeReq' = [writeReq EXCEPT ![p] = r]
  /\ writeQueue' = Erase(writeQueue, scan.pos)
  /\ accWrQ' = accWrQ \cup {r}
  /\ Send(r, p, ok)
  /\ UNCHANGED <<readQueue, accRdQ, readReq, control, scan>>

SkipWrite ==
  /\ scan.phase = "write" /\ scan.pos <= Len(writeQueue)
  /\ MayFindNone(cur[writeQueue[scan.pos]], writeReq)
  /\ scan' = Scan("write", scan.pos + 1)
  /\ UNCHANGED <<queues, progress, portState, control, tickScheduled>>

\* Mutant: requests that found no port are not tried again.
EndWritesForGood ==
  /\ scan.phase = "write" /\ scan.pos > Len(writeQueue)
  /\ scan' = Idle
  /\ UNCHANGED <<queues, progress, portState, control, tickScheduled>>

EndWrites ==
  /\ scan.phase = "write" /\ scan.pos > Len(writeQueue)
  /\ scan' = Idle
  /\ tickScheduled' = (tickScheduled \/ RequestsInQueues > 0)
  /\ UNCHANGED <<queues, progress, portState, control>>

----------------------------------------------------------------------------
(***************************************************************************)
(* Events at a port                                                        *)
(***************************************************************************)

\* Mutant: a packet that the peer took stays at the port.
RetryWithoutPop(p, n) ==
  /\ scan = Idle
  /\ IsStalled(p)
  /\ n \in 0..Len(outstandingPkts[p])
  /\ wire' = wire \cup {outstandingPkts[p][i] : i \in 1..n}
  /\ tickScheduled' = (tickScheduled \/ n > 0)
  /\ UNCHANGED <<queues, progress, readReq, writeReq, outstandingPkts, control, scan>>

\* recvReqRetry(): the peer asks again for what it refused; it takes the
\* first n packets and, if some are left, refuses the next.
RecvReqRetry(p, n) ==
  /\ scan = Idle
  /\ IsStalled(p)
  /\ n \in 0..Len(outstandingPkts[p])
  /\ wire' = wire \cup {outstandingPkts[p][i] : i \in 1..n}
  /\ outstandingPkts' =
       [outstandingPkts EXCEPT ![p] = SubSeq(@, n + 1, Len(@))]
  /\ tickScheduled' = (tickScheduled \/ n > 0)
  /\ UNCHANGED <<queues, progress, readReq, writeReq, control, scan>>

\* recvPacket() for a read: r is what findMemRequest() returns.
RecvRead(k, r) ==
  /\ scan = Idle
  /\ k \in wire /\ r \in accRdQ /\ pkt[r] = k
  /\ wire' = wire \ {k}
  /\ readReq' = [readReq EXCEPT ![carrier[r]] = None]
  /\ moved' = [moved EXCEPT ![r] =
                 @ \cup Bytes(k.addr, k.addr - ReqAddr[r], k.size)]
  /\ accRdQ' = accRdQ \ {r}
  /\ IF need[r]
       THEN readQueue' = PushFront(readQueue, r) /\ UNCHANGED status
       ELSE status' = [status EXCEPT ![r] = "committed"] /\ UNCHANGED readQueue
  /\ tickScheduled' = TRUE
  /\ UNCHANGED <<writeQueue, accWrQ, cur, left, need, pkt, carrier,
                 writeReq, outstandingPkts, control, scan>>

\* recvPacket() for a write.
RecvWrite(k, r) ==
  /\ scan = Idle
  /\ k \in wire /\ r \in accWrQ /\ pkt[r] = k
  /\ wire' = wire \ {k}
  /\ writeReq' = [writeReq EXCEPT ![carrier[r]] = None]
  /\ moved' = [moved EXCEPT ![r] = @ \cup Bytes(k.addr, k.buf, k.size)]
  /\ accWrQ' = accWrQ \ {r}
  /\ IF need[r]
       THEN writeQueue' = PushFront(writeQueue, r) /\ UNCHANGED status
       ELSE status' = [status EXCEPT ![r] = "committed"] /\ UNCHANGED writeQueue
  /\ tickScheduled' = TRUE
  /\ UNCHANGED <<readQueue, accRdQ, cur, left, need, pkt, carrier,
                 readReq, outstandingPkts, control, scan>>

----------------------------------------------------------------------------
Scanning ==
  \/ \E r \in Reqs, p \in Ports, ok \in BOOLEAN :
       IssueRead(r, p, ok) \/ IssueWrite(r, p, ok)
  \/ SkipRead \/ EndReads \/ SkipWrite \/ EndWrites

Retry(p) == \E n \in 0..Len(outstandingPkts[p]) : RecvReqRetry(p, n)

RecvPacket == \E k \in wire, r \in Reqs : RecvRead(k, r) \/ RecvWrite(k, r)

Next ==
  \/ \E v \in HostWrites : Write(v)
  \/ \E r \in Reqs : EnqueueRead(r) \/ EnqueueWrite(r)
  \/ Finish
  \/ Tick
  \/ Scanning
  \/ \E p \in Ports : Retry(p)
  \/ RecvPacket

Spec == Init /\ [][Next]_vars

\* The event queue runs every event that is scheduled, so a tick, the loop it
\* starts, an answer and a retry all happen in the end, whatever the host does
\* in between; a peer that refuses packets takes one in the end, and the gate
\* of a stream or scratchpad does not stay shut for a request.
Fairness ==
  /\ SF_vars(Tick)
  /\ WF_vars(Scanning)
  /\ \A r \in Reqs :
       /\ SF_vars(\E p \in Ports, ok \in BOOLEAN :
                    IssueRead(r, p, ok) \/ IssueWrite(r, p, ok))
       /\ SF_vars(\E k \in wire : RecvRead(k, r) \/ RecvWrite(k, r))
  /\ \A p \in Ports :
       SF_vars(\E n \in 1..Len(outstandingPkts[p]) : RecvReqRetry(p, n))

FairSpec == Spec /\ Fairness

----------------------------------------------------------------------------
(***************************************************************************)
(* Properties                                                              *)
(***************************************************************************)
InQueue(q, r) == \E i \in 1..Len(q) : q[i] = r
Distinct(q) == \A i, j \in 1..Len(q) : q[i] = q[j] => i = j

\* Every variable has the shape that the class declarations give it.
TypeOK ==
  /\ readQueue \in Seq(ReadReqs) /\ writeQueue \in Seq(WriteReqs)
  /\ accRdQ \subseteq ReadReqs /\ accWrQ \subseteq WriteReqs
  /\ cur \in [Reqs -> Nat] /\ left \in [Reqs -> Nat]
  /\ need \in [Reqs -> BOOLEAN]
  /\ pkt \in [Reqs -> Packet \cup {None}]
  /\ carrier \in [Reqs -> Ports \cup {None}]
  /\ moved \in [Reqs -> SUBSET (Nat \X Int)]
  /\ status \in [Reqs -> {"free", "live", "committed"}]
  /\ readReq \in [Ports -> ReadReqs \cup {None}]
  /\ writeReq \in [Ports -> WriteReqs \cup {None}]
  /\ outstandingPkts \in [Ports -> Seq(Packet)]
  /\ wire \subseteq Packet
  /\ tickScheduled \in BOOLEAN
  /\ scan \in [phase : {"idle", "read", "write"}, pos : Nat \ {0}]
  /\ mmr \subseteq Bits /\ computationNeeded \in BOOLEAN
  /\ intFlag \in BOOLEAN /\ intLine \in BOOLEAN

\* One direction of OneHolder: its requests, queue, requests under way and
\* ports, the requests' status and carrier.
HeldOnce(S, q, acc, busy, st, by) ==
  /\ Distinct(q)
  /\ \A r \in S :
       /\ st[r] = "live" <=> (InQueue(q, r) \/ r \in acc)
       /\ ~(InQueue(q, r) /\ r \in acc)
       /\ \A p \in Ports : busy[p] = r <=> (r \in acc /\ by[r] = p)

\* A request of the compute unit is never lost and never held twice: while it
\* is live it is either waiting in its queue, once, or under way on exactly
\* the port recorded as its carrier; otherwise nothing refers to it (the code
\* deletes it).
OneHolder ==
  /\ HeldOnce(ReadReqs, readQueue, accRdQ, readReq, status, carrier)
  /\ HeldOnce(WriteReqs, writeQueue, accWrQ, writeReq, status, carrier)

UnderWay == accRdQ \cup accWrQ

\* PacketHasRequest for given requests under way, their packets and carriers,
\* refused packets and packets at peers.
Placed(under, pk, by, out, w) ==
  /\ \A k \in w : k.req \in under /\ pk[k.req] = k
  /\ \A p \in Ports : \A i \in 1..Len(out[p]) :
       LET k == out[p][i]
       IN  k.req \in under /\ pk[k.req] = k /\ by[k.req] = p /\ k \notin w
  /\ \A r \in under :
       /\ pk[r] \in Packet /\ pk[r].req = r /\ by[r] \in Ports
       /\ pk[r] \in w \/ \E i \in 1..Len(out[by[r]]) : out[by[r]][i] = pk[r]

\* Every packet at a peer or waiting at a port is the packet of one request
\* under way, so findMemRequest() never reaches its panic and an answer never
\* touches a request that was deleted; and every request under way has its
\* packet in exactly one of the two places.
PacketHasRequest == Placed(UnderWay, pkt, carrier, outstandingPkts, wire)

\* A port holds back at most one refused packet, although outstandingPkts is a
\* queue: no request is given to a stalled port.
OneOutstanding == \A p \in Ports : Len(outstandingPkts[p]) <= 1

\* The transfer of request r at address c with l bytes left and mv moved; k is
\* its packet when it is under way.
Tiled(r, c, l, nd, mv, under, k) ==
  LET inPkt == IF under THEN k.size ELSE 0
      done  == ReqLen[r] - l - inPkt
  IN  /\ done >= 0
      /\ c = ReqAddr[r] + done + inPkt
      /\ nd <=> l > 0
      /\ mv = Bytes(ReqAddr[r], 0, done)
      /\ under => k.size > 0 /\ k.addr = ReqAddr[r] + done /\ k.buf = done
      /\ ~under => nd

\* The bytes that were moved, the bytes in the packet under way and the bytes
\* left make up the request, in address order and without overlap, and a
\* request in a queue has bytes left (the code tests needToRead and needToWrite
\* after it took the request from the queue; were it false the port would stay
\* busy for ever).
ChunksTileRequest ==
  \A r \in Reqs : status[r] = "live" =>
    Tiled(r, cur[r], left[r], need[r], moved[r], r \in UnderWay, pkt[r])

\* A request is committed to the compute unit only when every one of its
\* bytes was transferred, each between its own address and its own place in
\* the buffer.
CommitComplete ==
  \A r \in Reqs :
    status[r] = "committed" => moved[r] = Bytes(ReqAddr[r], 0, ReqLen[r])

Started(r) == cur[r] # ReqAddr[r]

\* A request that has sent a packet is served again before the requests that
\* have not (push_front in recvPacket()).
ContinuationFirst ==
  \A q \in {readQueue, writeQueue} : \A i, j \in 1..Len(q) :
    i < j /\ Started(q[j]) => Started(q[i])

\* The interface never sleeps with work to do: when the event loop is back, a
\* waiting request or a start bit not yet seen has a tick scheduled.
NoLostTick ==
  /\ scan = Idle
  /\ RequestsInQueues > 0 \/ ("start" \in mmr /\ ~computationNeeded)
  => tickScheduled

\* When the host sees the done bit or the interrupt, nothing of the computation
\* is left: no request is live and no packet is at a peer or waiting at a port.
DoneMeansQuiet ==
  "done" \in mmr \/ intLine =>
    /\ ~computationNeeded
    /\ \A r \in Reqs : status[r] # "live"
    /\ wire = {} /\ \A p \in Ports : ~IsStalled(p)

\* Programs end: from some moment on no request is handed over.
ProgramEnds == <>[][\A r \in Reqs : status'[r] = "live" => status[r] = "live"]_vars

\* Every request handed over is committed in the end.  (Reads are tried before
\* writes, so a program that issued reads for ever could keep a port stalled
\* for a write.)
EveryRequestCommits ==
  ProgramEnds => \A r \in Reqs : status[r] = "live" ~> status[r] = "committed"

\* A start bit written to an idle interface starts the computation, unless the
\* host overwrites it first.
StartIsSeen ==
  ("start" \in mmr /\ ~computationNeeded) ~> (computationNeeded \/ "start" \notin mmr)

(***************************************************************************)
(* What the interface promises the compute unit                            *)
(***************************************************************************)
Service == INSTANCE RequestService

\* Cutting, queueing, stalling and retrying are invisible to the compute unit:
\* it sees a service that moves the bytes of a request in order and commits it
\* with the last one.
ImplementsService == Service!Spec

=============================================================================
