------------------------------ MODULE DmaPort -------------------------------
(***************************************************************************)
(* The port through which the DMA engines reach memory (class DmaPort of   *)
(* dma_device.cc/.hh).  An action is cut into packets at cache line        *)
(* boundaries; the packets of all actions wait in one list and are sent    *)
(* one per cycle; a packet the bus refuses stays at the head of the list   *)
(* until the bus calls back; the answers, which come in any order, are     *)
(* counted, and the last one of an action schedules its completion event.  *)
(*                                                                         *)
(* Timing mode.  An action stands for its completion event (a DmaDoneEvent *)
(* of a FIFO), which is used again once it has run.  Environment: the      *)
(* device that begins actions, and the bus, which takes or refuses         *)
(* packets, owes a retry for each refusal, and answers what it took.       *)
(***************************************************************************)
EXTENDS Integers, Sequences, FiniteSets

CONSTANTS
  Actions,        \* the completion events of the device
  Addr, Size,     \* the block of each action
  LineSize        \* sys->cacheLineSize()

ASSUME LineAssumption == LineSize \in Nat \ {0}

\* An action of no bytes would queue no packet: it would trip the assertion of
\* sendDma(), and never complete.
ASSUME BlockAssumption ==
  /\ Addr \in [Actions -> Nat]
  /\ Size \in [Actions -> Nat \ {0}]

VARIABLES
  transmitList,   \* packets that were not taken yet
  inRetry,        \* the head of the list was refused
  sendScheduled,  \* sendEvent.scheduled()
  pendingCount,   \* packets queued and not answered
  numBytes,       \* bytes answered of each action under way (DmaReqState)
  live,           \* the actions under way, those with a DmaReqState
  completion,     \* the actions whose completion event is scheduled
  atBus,          \* packets that the bus has taken and not answered
  owed,           \* the bus refused a packet and has not called back
  moved           \* history: the addresses answered, of each action

sending == <<transmitList, inRetry, sendScheduled, atBus, owed>>
counting == <<numBytes, live, completion, moved>>
vars == <<sending, pendingCount, counting>>

Init ==
  /\ transmitList = <<>> /\ inRetry = FALSE /\ sendScheduled = FALSE
  /\ pendingCount = 0
  /\ numBytes = [a \in Actions |-> 0]
  /\ live = {} /\ completion = {}
  /\ atBus = {} /\ owed = FALSE
  /\ moved = [a \in Actions |-> {}]

----------------------------------------------------------------------------
\* ChunkGenerator: the k-th packet of action a is the part of its block in the
\* k-th line the block touches.
FirstLine(a) == Addr[a] \div LineSize
Chunks(a) == ((Addr[a] + Size[a] - 1) \div LineSize) - FirstLine(a) + 1

\* Mutant: packets of a full line, wherever the block starts.
UnalignedChunk(a, k) ==
  LET from == Addr[a] + (k - 1) * LineSize
      rest == Addr[a] + Size[a] - from
  IN  [act |-> a, addr |-> from, size |-> IF rest < LineSize THEN rest ELSE LineSize]

Chunk(a, k) ==
  LET line == (FirstLine(a) + k - 1) * LineSize
      from == IF line < Addr[a] THEN Addr[a] ELSE line
      to   == IF line + LineSize < Addr[a] + Size[a] THEN line + LineSize
                                                     ELSE Addr[a] + Size[a]
  IN  [act |-> a, addr |-> from, size |-> to - from]

Packets(a) == [k \in 1..Chunks(a) |-> Chunk(a, k)]
Bytes(p) == p.addr..(p.addr + p.size - 1)

\* Mutant: nothing is scheduled for the rest of the list.
TrySendOnce(list, taken) ==
  /\ inRetry' = ~taken
  /\ transmitList' = IF taken THEN Tail(list) ELSE list
  /\ atBus' = IF taken THEN atBus \cup {Head(list)} ELSE atBus
  /\ sendScheduled' = FALSE
  /\ owed' = ~taken

\* trySendTimingReq() with the packets in list; the bus takes the first or not.
TrySendTimingReq(list, taken) ==
  /\ inRetry' = ~taken
  /\ transmitList' = IF taken THEN Tail(list) ELSE list
  /\ atBus' = IF taken THEN atBus \cup {Head(list)} ELSE atBus
  /\ sendScheduled' = (taken /\ Tail(list) # <<>>)
  /\ owed' = ~taken

\* sendDma(): nothing is sent while a retry or the send event is awaited.
SendDma(list, taken) ==
  IF inRetry \/ sendScheduled
    THEN /\ transmitList' = list
         /\ UNCHANGED <<inRetry, sendScheduled, atBus, owed>>
    ELSE TrySendTimingReq(list, taken)

\* Mutant: the packets of a new action go first.
QueueFirst(a) == Packets(a) \o transmitList

\* queueDma() of every packet.
QueueDma(a) == transmitList \o Packets(a)

\* dmaAction().
DmaAction(a, taken) ==
  /\ a \notin live \cup completion
  /\ live' = live \cup {a}
  /\ numBytes' = [numBytes EXCEPT ![a] = 0]
  /\ moved' = [moved EXCEPT ![a] = {}]
  /\ pendingCount' = pendingCount + Chunks(a)
  /\ SendDma(QueueDma(a), taken)
  /\ UNCHANGED completion

\* The send event runs: sendDma(), with the event no longer scheduled.
SendEvent(taken) ==
  /\ sendScheduled
  /\ IF inRetry
       THEN sendScheduled' = FALSE /\ UNCHANGED <<transmitList, inRetry, atBus, owed>>
       ELSE TrySendTimingReq(transmitList, taken)
  /\ UNCHANGED <<pendingCount, counting>>

\* recvReqRetry(): the bus calls back.
RecvReqRetry(taken) ==
  /\ owed
  /\ TrySendTimingReq(transmitList, taken)
  /\ UNCHANGED <<pendingCount, counting>>

\* Mutant: the event is scheduled by the answer that is one packet short.
CompletesEarly(p) == numBytes[p.act] + p.size >= Size[p.act] - 1

Completes(p) == numBytes[p.act] + p.size = Size[p.act]

\* recvTimingResp() and handleResp(): an answer, in any order.
RecvTimingResp(p) ==
  /\ p \in atBus
  /\ atBus' = atBus \ {p}
  /\ pendingCount' = pendingCount - 1
  /\ numBytes' = [numBytes EXCEPT ![p.act] = @ + p.size]
  /\ moved' = [moved EXCEPT ![p.act] = @ \cup Bytes(p)]
  /\ live' = IF Completes(p) THEN live \ {p.act} ELSE live
  /\ completion' = IF Completes(p) THEN completion \cup {p.act} ELSE completion
  /\ UNCHANGED <<transmitList, inRetry, sendScheduled, owed>>

\* The completion event runs (process() of a DmaDoneEvent): the device is told
\* and may use the event again.
Process(a) ==
  /\ a \in completion
  /\ completion' = completion \ {a}
  /\ UNCHANGED <<sending, pendingCount, numBytes, live, moved>>

AllPackets == UNION {{Chunk(a, k) : k \in 1..Chunks(a)} : a \in Actions}

Next ==
  \/ \E a \in Actions, taken \in BOOLEAN : DmaAction(a, taken)
  \/ \E taken \in BOOLEAN : SendEvent(taken) \/ RecvReqRetry(taken)
  \/ \E p \in AllPackets : RecvTimingResp(p)
  \/ \E a \in Actions : Process(a)

Spec == Init /\ [][Next]_vars

\* Scheduled events run; the bus calls back after a refusal, takes the packet in
\* the end, and answers every packet it took.
Fairness ==
  /\ WF_vars(\E taken \in BOOLEAN : SendEvent(taken))
  /\ WF_vars(RecvReqRetry(TRUE))
  /\ \A p \in AllPackets : WF_vars(RecvTimingResp(p))
  /\ \A a \in Actions : WF_vars(Process(a))

FairSpec == Spec /\ Fairness

----------------------------------------------------------------------------
(***************************************************************************)
(* Properties                                                              *)
(***************************************************************************)
Queued == {transmitList[i] : i \in 1..Len(transmitList)}

\* Packets wait exactly while one thing, and only one, is going to send them:
\* the send event or the retry the bus owes.  So no packet is left behind, the
\* assertions of sendDma() and recvReqRetry() hold, the send event is never
\* scheduled twice, and nothing is sent to a bus that owes a retry.
SomebodySends ==
  /\ inRetry = owed
  /\ ~(inRetry /\ sendScheduled)
  /\ (inRetry \/ sendScheduled) <=> transmitList # <<>>

\* Every byte of an action under way is at one place: answered, in a packet at
\* the bus or in a packet that waits; numBytes and pendingCount count them, so
\* neither of the assertions of handleResp() fails.
BytesAccountedFor ==
  /\ \A i, j \in 1..Len(transmitList) : i # j => transmitList[i] # transmitList[j]
  /\ Queued \cap atBus = {}
  /\ pendingCount = Len(transmitList) + Cardinality(atBus)
  /\ \A p \in Queued \cup atBus : p.act \in live
  /\ \A a \in live :
       LET out == {p \in Queued \cup atBus : p.act = a}
       IN  /\ numBytes[a] = Cardinality(moved[a]) /\ numBytes[a] < Size[a]
           /\ moved[a] \cup UNION {Bytes(p) : p \in out}
                = Addr[a]..(Addr[a] + Size[a] - 1)
           /\ \A p \in out : Bytes(p) \cap moved[a] = {}
           /\ \A p, q \in out : p # q => Bytes(p) \cap Bytes(q) = {}

\* Every action completes.
EveryActionCompletes == \A a \in Actions : a \in live ~> a \in completion

Service ==
  INSTANCE DmaService WITH
    Block <- [a \in Actions |-> Addr[a]..(Addr[a] + Size[a] - 1)],
    phase <- [a \in Actions |-> IF a \in completion THEN "done"
                                ELSE IF a \in live THEN "busy" ELSE "free"]

\* The cutting into packets, refusals and answers out of order are invisible to
\* the device: each byte is transferred once and the completion event is
\* scheduled with the last one, once.
ImplementsDmaService == Service!Spec
=============================================================================
