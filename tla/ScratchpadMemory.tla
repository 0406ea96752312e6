-------------------------- MODULE ScratchpadMemory --------------------------
(***************************************************************************)
(* The scratchpad memory of an accelerator (scratchpad_memory.cc/.hh): one *)
(* generic port (number 0, on the system's bus) and private ports for      *)
(* accelerators.  In ready mode every byte has a ready bit that hands data *)
(* from a producer to a consumer: a private port may read only bytes that  *)
(* are ready, and the read takes the ready bits away.                      *)
(*                                                                         *)
(* Time is abstracted: a scheduled event may run at any later moment, and  *)
(* the random latency of a response shows as the place where it is put in  *)
(* the queue.  The requesters are the environment.  The one of a private   *)
(* port is a CommInterface port: it asks canAccess() before it sends,      *)
(* keeps a refused packet, sends it again from the retry, and takes every  *)
(* response.  The bus may refuse a response, and then owes a retry.        *)
(***************************************************************************)
EXTENDS Integers, Sequences, SequencesExt

CONSTANTS
  Accesses,        \* the accesses that requesters make
  AccPort,         \* the port each comes from
  AccRead,         \* whether it is a read
  AccAddr, AccSize,\* its first byte (an offset into the memory) and its size
  Ports,           \* 0 and the private ports
  Size,            \* range.size()
  ReadyMode, ReadOnInvalid, WriteOnValid, ResetOnScratchpadRead,
  ResetSpm,        \* reset_spm of the CommInterfaces on the private ports
  None

SpmPorts == Ports \ {0}
Bytes(a) == AccAddr[a]..(AccAddr[a] + AccSize[a] - 1)

ASSUME SpmAssumption ==
  /\ Ports \subseteq Nat /\ 0 \in Ports
  /\ AccPort \in [Accesses -> Ports] /\ AccRead \in [Accesses -> BOOLEAN]
  /\ AccAddr \in [Accesses -> Nat] /\ AccSize \in [Accesses -> Nat \ {0}]
  /\ \A a \in Accesses : Bytes(a) \subseteq 0..(Size - 1)
  /\ {ReadyMode, ReadOnInvalid, WriteOnValid, ResetOnScratchpadRead, ResetSpm} \subseteq BOOLEAN
  /\ None \notin Accesses

VARIABLES
  ready,             \* the bytes whose ready bit is set
  initial,
  isBusy, retryReq, retryResp,   \* per port
  packetQueue,       \* accesses whose response waits, in the order of sending
  dequeueScheduled,  \* dequeueEvent.scheduled()
  held,              \* per port: the refused access its requester keeps
  owed,              \* the ports whose peer refused a response and owes a retry
  unread,            \* per byte: writes less private reads since the last reset,
                     \* counted between -1 and 2
  panicked           \* an access that is not ready reached scratchpadAccess()

vars == <<ready, initial, isBusy, retryReq, retryResp, packetQueue,
          dequeueScheduled, held, owed, unread, panicked>>

Init ==
  /\ ready = {} /\ initial = TRUE
  /\ isBusy = [p \in Ports |-> FALSE]
  /\ retryReq = [p \in Ports |-> FALSE]
  /\ retryResp = [p \in Ports |-> FALSE]
  /\ packetQueue = <<>> /\ dequeueScheduled = FALSE
  /\ held = [p \in Ports |-> None] /\ owed = {}
  /\ unread = [b \in 0..(Size - 1) |-> 0]
  /\ panicked = FALSE

Outstanding(a) == held[AccPort[a]] = a \/ Contains(packetQueue, a)

\* Mutant: a write does not look at the ready bits.
ReadyForAnyWrite(a) ==
  ~ReadyMode \/ ~AccRead[a] \/ ReadOnInvalid \/ Bytes(a) \subseteq ready

IsReady(a) ==
  \/ ~ReadyMode
  \/ AccRead[a] /\ (ReadOnInvalid \/ Bytes(a) \subseteq ready)
  \/ ~AccRead[a] /\ (WriteOnValid \/ Bytes(a) \cap ready = {})

\* Mutant: a write sets one ready bit too many.
AccessTooFar(a) ==
  /\ initial' = FALSE
  /\ ready' = IF AccRead[a] THEN ready
              ELSE ready \cup AccAddr[a]..(AccAddr[a] + AccSize[a])
  /\ UNCHANGED <<unread, panicked>>

\* scratchpadAccess(): a private port validates, the generic port does not.
ScratchpadAccess(a) ==
  LET private == AccPort[a] # 0
      takes   == AccRead[a] /\ private /\ ResetOnScratchpadRead
  IN  /\ initial' = FALSE
      /\ panicked' = (panicked \/ (private /\ ~IsReady(a)))
      /\ ready' = IF takes THEN ready \ Bytes(a)
                  ELSE IF ~AccRead[a] /\ ReadyMode THEN ready \cup Bytes(a)
                  ELSE ready
      /\ unread' = [b \in DOMAIN unread |->
                      IF b \notin Bytes(a) THEN unread[b]
                      ELSE IF takes THEN Max({unread[b] - 1, -1})
                      ELSE IF ~AccRead[a] THEN Min({unread[b] + 1, 2})
                      ELSE unread[b]]

\* The places where the insertion sort may put the response: after the head,
\* and after every response with the same address.
Places(a) ==
  {i \in 1..(Len(packetQueue) + 1) :
     /\ packetQueue # <<>> => i > 1
     /\ \A j \in i..Len(packetQueue) : AccAddr[packetQueue[j]] # AccAddr[a]}

\* The accepting part of recvTimingReq().
Accept(a) ==
  /\ isBusy' = [isBusy EXCEPT ![AccPort[a]] = TRUE]
  /\ ScratchpadAccess(a)
  /\ \E i \in Places(a) : packetQueue' = InsertAt(packetQueue, i, a)
  /\ dequeueScheduled' = (dequeueScheduled \/ ~retryResp[AccPort[a]])

\* Mutant: the requester does not ask canAccess().
RecvUnasked(a) ==
  LET p == AccPort[a]
  IN  /\ ~Outstanding(a) /\ held[p] = None
      /\ ~isBusy[p]
      /\ Accept(a)
      /\ UNCHANGED <<retryReq, held, retryResp, owed>>

\* A requester sends an access; recvTimingReq() takes it, or refuses it
\* because the port is busy.  A private port's requester sends only what
\* canAccess() allows.
RecvTimingReq(a) ==
  LET p == AccPort[a]
  IN  /\ ~Outstanding(a) /\ held[p] = None
      /\ p # 0 => IsReady(a)
      /\ IF isBusy[p]
           THEN /\ retryReq' = [retryReq EXCEPT ![p] = TRUE]
                /\ held' = [held EXCEPT ![p] = a]
                /\ UNCHANGED <<ready, initial, isBusy, packetQueue,
                               dequeueScheduled, unread, panicked>>
           ELSE Accept(a) /\ UNCHANGED <<retryReq, held>>
      /\ UNCHANGED <<retryResp, owed>>

\* Mutant: the refusal is not forgotten once the retry was sent.
ReleaseKeepsRetry(p) ==
  /\ isBusy[p]
  /\ IF retryReq[p] /\ held[p] # None
       THEN /\ held' = [held EXCEPT ![p] = None]
            /\ Accept(held[p])
       ELSE /\ isBusy' = [isBusy EXCEPT ![p] = FALSE]
            /\ UNCHANGED <<ready, initial, packetQueue, dequeueScheduled, held,
                           unread, panicked>>
  /\ UNCHANGED <<retryReq, retryResp, owed>>

\* release(): the port is free again; a refused requester is told to retry and
\* sends its packet from that call.
Release(p) ==
  /\ isBusy[p]
  /\ IF retryReq[p]
       THEN /\ retryReq' = [retryReq EXCEPT ![p] = FALSE]
            /\ held' = [held EXCEPT ![p] = None]
            /\ Accept(held[p])
       ELSE /\ isBusy' = [isBusy EXCEPT ![p] = FALSE]
            /\ UNCHANGED <<ready, initial, retryReq, packetQueue,
                           dequeueScheduled, held, unread, panicked>>
  /\ UNCHANGED <<retryResp, owed>>

\* dequeue(): the head response is sent; ok is the answer of the peer.
SendHead(ok) ==
  LET p == AccPort[Head(packetQueue)]
  IN  /\ packetQueue # <<>>
      /\ p # 0 => ok
      /\ retryResp' = [retryResp EXCEPT ![p] = ~ok]
      /\ packetQueue' = IF ok THEN Tail(packetQueue) ELSE packetQueue

\* Mutant: the responses behind the head are not scheduled.
DequeueOne(ok) ==
  /\ dequeueScheduled
  /\ SendHead(ok)
  /\ dequeueScheduled' = FALSE
  /\ owed' = IF ok THEN owed ELSE owed \cup {AccPort[Head(packetQueue)]}
  /\ UNCHANGED <<ready, initial, isBusy, retryReq, held, unread, panicked>>

Dequeue(ok) ==
  /\ dequeueScheduled
  /\ SendHead(ok)
  /\ dequeueScheduled' = (ok /\ packetQueue' # <<>>)
  /\ owed' = IF ok THEN owed ELSE owed \cup {AccPort[Head(packetQueue)]}
  /\ UNCHANGED <<ready, initial, isBusy, retryReq, held, unread, panicked>>

\* recvRespRetry(): the peer's retry; the code asserts retryResp and calls
\* dequeue() at once, which leaves an event that is already scheduled alone
\* unless the response is taken.
RecvRespRetry(p, ok) ==
  /\ p \in owed
  /\ retryResp[p]
  /\ SendHead(ok)
  /\ dequeueScheduled' = IF ok THEN packetQueue' # <<>> \/ dequeueScheduled
                               ELSE dequeueScheduled
  /\ owed' = IF ok THEN owed \ {p} ELSE owed
  /\ UNCHANGED <<ready, initial, isBusy, retryReq, held, unread, panicked>>

\* setAllReady(false), from finish() of a CommInterface with reset_spm.
SetAllReady(p) ==
  /\ ResetSpm
  /\ \A a \in Accesses : AccPort[a] = p => ~Outstanding(a)
  /\ IF ReadyMode /\ ~initial
       THEN ready' = {} /\ unread' = [b \in DOMAIN unread |-> 0]
       ELSE UNCHANGED <<ready, unread>>
  /\ initial' = TRUE
  /\ UNCHANGED <<isBusy, retryReq, retryResp, packetQueue, dequeueScheduled,
                 held, owed, panicked>>

Next ==
  \/ \E a \in Accesses : RecvTimingReq(a)
  \/ \E p \in Ports : Release(p)
  \/ \E ok \in BOOLEAN : Dequeue(ok)
  \/ \E p \in Ports, ok \in BOOLEAN : RecvRespRetry(p, ok)
  \/ \E p \in SpmPorts : SetAllReady(p)

Spec == Init /\ [][Next]_vars

\* Scheduled events run, a peer that refused a response sends its retry and
\* takes the response in the end.
Fairness ==
  /\ \A p \in Ports : WF_vars(Release(p))
  /\ WF_vars(\E ok \in BOOLEAN : Dequeue(ok))
  /\ \A p \in Ports : SF_vars(RecvRespRetry(p, TRUE))

FairSpec == Spec /\ Fairness

----------------------------------------------------------------------------
(***************************************************************************)
(* Properties                                                              *)
(***************************************************************************)

\* Every variable has the shape that the class declares.
TypeOK ==
  /\ ready \subseteq 0..(Size - 1) /\ initial \in BOOLEAN
  /\ isBusy \in [Ports -> BOOLEAN]
  /\ retryReq \in [Ports -> BOOLEAN] /\ retryResp \in [Ports -> BOOLEAN]
  /\ packetQueue \in Seq(Accesses) /\ dequeueScheduled \in BOOLEAN
  /\ held \in [Ports -> Accesses \cup {None}] /\ owed \subseteq Ports
  /\ unread \in [0..(Size - 1) -> -1..2] /\ panicked \in BOOLEAN

\* The panics of scratchpadAccess() are unreachable: what canAccess() allowed
\* is still allowed when the packet arrives, also after a refusal and a retry.
NoPanic == ~panicked

\* Between one producer and one consumer on private ports (no write on valid
\* bytes, reset on read) every byte written is read once before it is
\* overwritten, and the ready bit says which of the two is next.
HandOff ==
  \A b \in 0..(Size - 1) :
    unread[b] \in {0, 1} /\ (unread[b] = 1 <=> b \in ready)

\* A refused requester is remembered exactly while a release of its port is to
\* come, so its retry is never lost.
RetryPromised ==
  \A p \in Ports : (held[p] # None <=> retryReq[p]) /\ (retryReq[p] => isBusy[p])

\* A response that waits is never forgotten: a dequeue is scheduled, or the
\* peer of the head response owes a retry; and a scheduled dequeue finds a
\* response (the assertion at the top of dequeue()).
NoLostResponse ==
  /\ packetQueue # <<>> => dequeueScheduled \/ AccPort[Head(packetQueue)] \in owed
  /\ dequeueScheduled => packetQueue # <<>>

\* The assertion of recvRespRetry(): a peer's retry always finds retryResp set.
RetryIsAwaited == \A p \in owed : retryResp[p]

\* Traffic ends: from some moment on no access is made.
TrafficEnds == <>[][\A a \in Accesses : Outstanding(a)' => Outstanding(a)]_vars

\* Every access, refused or not, is answered in the end.  (Latencies have no
\* bound in the model, so traffic that never ends could overtake a response for
\* ever.)
EveryAccessAnswered ==
  TrafficEnds => \A a \in Accesses : Outstanding(a) ~> ~Outstanding(a)
=============================================================================
