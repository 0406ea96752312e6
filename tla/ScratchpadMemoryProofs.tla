----------------------- MODULE ScratchpadMemoryProofs -----------------------
(***************************************************************************)
(* Proofs about ScratchpadMemory for any number of ports and accesses, any *)
(* size of the memory and any setting of its parameters.                   *)
(***************************************************************************)
EXTENDS ScratchpadMemory, SequenceTheorems, TLAPS

----------------------------------------------------------------------------
(***************************************************************************)
(* Lemmas about the operators of the model                                 *)
(***************************************************************************)

\* The queue after the insertion sort has put a response in place n.
LEMMA InsertEntries ==
  ASSUME NEW S, NEW q \in Seq(S), NEW n \in 1..(Len(q) + 1), NEW x \in S
  PROVE  /\ InsertAt(q, n, x) \in Seq(S)
         /\ Len(InsertAt(q, n, x)) = Len(q) + 1
         /\ \A j \in 1..(Len(q) + 1) :
              InsertAt(q, n, x)[j] =
                IF j < n THEN q[j] ELSE IF j = n THEN x ELSE q[j - 1]
<1> DEFINE a == SubSeq(q, 1, n - 1)
           b == SubSeq(q, n, Len(q))
           c == a \o <<x>>
<1>1. /\ a \in Seq(S) /\ Len(a) = n - 1
      /\ \A j \in 1..(n - 1) : a[j] = q[j]
  OBVIOUS
<1>2. /\ b \in Seq(S) /\ Len(b) = Len(q) - n + 1
      /\ \A j \in 1..(Len(q) - n + 1) : b[j] = q[n + j - 1]
  OBVIOUS
<1>3. InsertAt(q, n, x) = c \o b
  BY DEF InsertAt
<1>4. /\ c \in Seq(S) /\ Len(c) = n
      /\ \A j \in 1..n : c[j] = IF j = n THEN x ELSE q[j]
  <2> HIDE DEF a
  <2>1. <<x>> \in Seq(S) /\ Len(<<x>>) = 1 /\ <<x>>[1] = x
    OBVIOUS
  <2>2. /\ c \in Seq(S) /\ Len(c) = Len(a) + Len(<<x>>)
        /\ \A j \in 1..(Len(a) + Len(<<x>>)) :
             c[j] = IF j <= Len(a) THEN a[j] ELSE <<x>>[j - Len(a)]
    BY <1>1, <2>1, ConcatProperties
  <2>3. QED
    BY <1>1, <2>1, <2>2
<1> HIDE DEF b, c
<1>5. /\ c \o b \in Seq(S) /\ Len(c \o b) = Len(c) + Len(b)
      /\ \A j \in 1..(Len(c) + Len(b)) :
           (c \o b)[j] = IF j <= Len(c) THEN c[j] ELSE b[j - Len(c)]
  BY <1>2, <1>4, ConcatProperties
<1>6. QED
  BY <1>2, <1>3, <1>4, <1>5

\* The bounds of the count of unread writes.
LEMMA CountBounds ==
  ASSUME NEW u \in -1..2
  PROVE  /\ Max({u - 1, -1}) = IF u = -1 THEN -1 ELSE u - 1
         /\ Min({u + 1, 2}) = IF u = 2 THEN 2 ELSE u + 1
<1>1. Max({u - 1, -1}) \in {u - 1, -1} /\ \A y \in {u - 1, -1} : Max({u - 1, -1}) >= y
  <2>1. \E z \in {u - 1, -1} : \A y \in {u - 1, -1} : z >= y
    OBVIOUS
  <2>2. QED
    BY <2>1 DEF Max
<1>2. Min({u + 1, 2}) \in {u + 1, 2} /\ \A y \in {u + 1, 2} : Min({u + 1, 2}) <= y
  <2>1. \E z \in {u + 1, 2} : \A y \in {u + 1, 2} : z <= y
    OBVIOUS
  <2>2. QED
    BY <2>1 DEF Min
<1>3. QED
  BY <1>1, <1>2

----------------------------------------------------------------------------
(***************************************************************************)
(* Types and retries                                                       *)
(***************************************************************************)

\* A requester keeps an access of its own port.
HeldAtPort == \A p \in Ports : held[p] # None => AccPort[held[p]] = p

\* TypeOK is not inductive by itself: release() sends the access that a refused
\* requester kept, and RetryPromised says that there is one.
BaseInv == TypeOK /\ RetryPromised /\ HeldAtPort

\* What the accepting part of recvTimingReq() does to the state.
LEMMA AcceptShape ==
  ASSUME TypeOK, NEW a \in Accesses, Accept(a)
  PROVE  /\ AccPort[a] \in Ports
         /\ isBusy' = [isBusy EXCEPT ![AccPort[a]] = TRUE]
         /\ ready' \subseteq 0..(Size - 1) /\ initial' \in BOOLEAN /\ panicked' \in BOOLEAN
         /\ unread' \in [0..(Size - 1) -> -1..2]
         /\ packetQueue' \in Seq(Accesses) /\ Len(packetQueue') = Len(packetQueue) + 1
         /\ packetQueue # <<>> => Head(packetQueue') = Head(packetQueue)
         /\ packetQueue = <<>> => Head(packetQueue') = a
         /\ dequeueScheduled' = (dequeueScheduled \/ ~retryResp[AccPort[a]])
<1>1. AccPort[a] \in Ports /\ Bytes(a) \subseteq 0..(Size - 1)
  BY SpmAssumption
<1>2. /\ isBusy' = [isBusy EXCEPT ![AccPort[a]] = TRUE]
      /\ dequeueScheduled' = (dequeueScheduled \/ ~retryResp[AccPort[a]])
      /\ ScratchpadAccess(a)
  BY DEF Accept
<1>3. ready' \subseteq 0..(Size - 1) /\ initial' \in BOOLEAN /\ panicked' \in BOOLEAN
  BY <1>1, <1>2 DEF ScratchpadAccess, TypeOK
<1>4. unread' \in [0..(Size - 1) -> -1..2]
  <2> DEFINE takes == AccRead[a] /\ AccPort[a] # 0 /\ ResetOnScratchpadRead
             new(b) == IF b \notin Bytes(a) THEN unread[b]
                       ELSE IF takes THEN Max({unread[b] - 1, -1})
                       ELSE IF ~AccRead[a] THEN Min({unread[b] + 1, 2})
                       ELSE unread[b]
  <2>1. DOMAIN unread = 0..(Size - 1)
    BY DEF TypeOK
  <2>2. unread' = [b \in DOMAIN unread |-> new(b)]
    BY <1>2 DEF ScratchpadAccess
  <2>3. ASSUME NEW b \in 0..(Size - 1) PROVE new(b) \in -1..2
    <3>1. unread[b] \in -1..2
      BY DEF TypeOK
    <3>2. /\ Max({unread[b] - 1, -1}) = IF unread[b] = -1 THEN -1 ELSE unread[b] - 1
          /\ Min({unread[b] + 1, 2}) = IF unread[b] = 2 THEN 2 ELSE unread[b] + 1
      BY <3>1, CountBounds
    <3>3. Max({unread[b] - 1, -1}) \in -1..2 /\ Min({unread[b] + 1, 2}) \in -1..2
      BY <3>1, <3>2
    <3>4. QED
      BY <3>1, <3>3
  <2> HIDE DEF new
  <2>4. QED
    BY <2>1, <2>2, <2>3
<1>5. PICK n \in Places(a) : packetQueue' = InsertAt(packetQueue, n, a)
  BY DEF Accept
<1>6. /\ packetQueue \in Seq(Accesses) /\ Len(packetQueue) \in Nat
      /\ n \in 1..(Len(packetQueue) + 1) /\ (packetQueue # <<>> => n > 1)
  BY DEF TypeOK, Places
<1>7. /\ packetQueue' \in Seq(Accesses) /\ Len(packetQueue') = Len(packetQueue) + 1
      /\ \A j \in 1..(Len(packetQueue) + 1) :
           packetQueue'[j] = IF j < n THEN packetQueue[j]
                             ELSE IF j = n THEN a ELSE packetQueue[j - 1]
  <2> DEFINE q2 == InsertAt(packetQueue, n, a)
  <2>1. /\ q2 \in Seq(Accesses) /\ Len(q2) = Len(packetQueue) + 1
        /\ \A j \in 1..(Len(packetQueue) + 1) :
             q2[j] = IF j < n THEN packetQueue[j]
                     ELSE IF j = n THEN a ELSE packetQueue[j - 1]
    BY <1>6, InsertEntries
  <2> HIDE DEF q2
  <2>2. packetQueue' = q2
    BY <1>5 DEF q2
  <2>3. QED
    BY <2>1, <2>2
<1>8. /\ packetQueue # <<>> => Head(packetQueue') = Head(packetQueue)
      /\ packetQueue = <<>> => Head(packetQueue') = a
  <2>1. Head(packetQueue') = packetQueue'[1]
    BY <1>6, <1>7
  <2>2. packetQueue # <<>> => Head(packetQueue) = packetQueue[1]
    BY <1>6
  <2>3. packetQueue = <<>> => n = 1
    BY <1>6
  <2>4. QED
    BY <1>6, <1>7, <2>1, <2>2, <2>3
<1>9. QED
  BY <1>1, <1>2, <1>3, <1>4, <1>7, <1>8

\* Sending the head response.
LEMMA SendHeadShape ==
  ASSUME TypeOK, NEW ok \in BOOLEAN, SendHead(ok)
  PROVE  /\ AccPort[Head(packetQueue)] \in Ports
         /\ packetQueue # <<>> /\ (AccPort[Head(packetQueue)] # 0 => ok)
         /\ packetQueue' = (IF ok THEN Tail(packetQueue) ELSE packetQueue)
         /\ packetQueue' \in Seq(Accesses)
         /\ retryResp' = [retryResp EXCEPT ![AccPort[Head(packetQueue)]] = ~ok]
         /\ retryResp' \in [Ports -> BOOLEAN]
<1>1. /\ packetQueue # <<>> /\ (AccPort[Head(packetQueue)] # 0 => ok)
      /\ packetQueue' = (IF ok THEN Tail(packetQueue) ELSE packetQueue)
      /\ retryResp' = [retryResp EXCEPT ![AccPort[Head(packetQueue)]] = ~ok]
  BY DEF SendHead
<1>2. /\ packetQueue \in Seq(Accesses) /\ Head(packetQueue) \in Accesses
      /\ Tail(packetQueue) \in Seq(Accesses) /\ Len(Tail(packetQueue)) = Len(packetQueue) - 1
      /\ \A j \in 1..Len(Tail(packetQueue)) : Tail(packetQueue)[j] = packetQueue[j + 1]
      /\ Len(packetQueue) \in Nat /\ Len(packetQueue) >= 1
  BY <1>1, HeadTailProperties DEF TypeOK
<1>3. AccPort[Head(packetQueue)] \in Ports
  BY <1>2, SpmAssumption
<1>4. retryResp' \in [Ports -> BOOLEAN]
  BY <1>1, <1>3 DEF TypeOK
<1>5. QED
  BY <1>1, <1>2, <1>3, <1>4

\* The cases of a step, with what they leave alone.  An access is accepted from
\* recvTimingReq() or from a release; every access that a private requester
\* sends anew was allowed by canAccess().
Refuse(a) ==
  /\ held[AccPort[a]] = None /\ isBusy[AccPort[a]]
  /\ AccPort[a] # 0 => IsReady(a)
  /\ retryReq' = [retryReq EXCEPT ![AccPort[a]] = TRUE]
  /\ held' = [held EXCEPT ![AccPort[a]] = a]
  /\ UNCHANGED <<ready, initial, isBusy, retryResp, packetQueue, dequeueScheduled,
                 owed, unread, panicked>>

AcceptNew(a) ==
  /\ held[AccPort[a]] = None /\ ~isBusy[AccPort[a]]
  /\ AccPort[a] # 0 => IsReady(a)
  /\ Accept(a)
  /\ UNCHANGED <<retryReq, held, retryResp, owed>>

AcceptHeld(p) ==
  /\ isBusy[p] /\ retryReq[p]
  /\ retryReq' = [retryReq EXCEPT ![p] = FALSE]
  /\ held' = [held EXCEPT ![p] = None]
  /\ Accept(held[p])
  /\ UNCHANGED <<retryResp, owed>>

Free(p) ==
  /\ isBusy[p] /\ ~retryReq[p]
  /\ isBusy' = [isBusy EXCEPT ![p] = FALSE]
  /\ UNCHANGED <<ready, initial, retryReq, retryResp, packetQueue, dequeueScheduled,
                 held, owed, unread, panicked>>

\* The steps of the specification are those cases.
LEMMA StepCases ==
  ASSUME [Next]_vars
  PROVE  \/ \E a \in Accesses : Refuse(a) \/ AcceptNew(a)
         \/ \E p \in Ports : AcceptHeld(p) \/ Free(p)
         \/ \E ok \in BOOLEAN : Dequeue(ok)
         \/ \E p \in Ports, ok \in BOOLEAN : RecvRespRetry(p, ok)
         \/ \E p \in SpmPorts : SetAllReady(p)
         \/ UNCHANGED vars
<1>1. ASSUME NEW a \in Accesses, RecvTimingReq(a) PROVE Refuse(a) \/ AcceptNew(a)
  BY <1>1 DEF RecvTimingReq, Refuse, AcceptNew
<1>2. ASSUME NEW p \in Ports, Release(p) PROVE AcceptHeld(p) \/ Free(p)
  BY <1>2 DEF Release, AcceptHeld, Free
<1>3. QED
  BY <1>1, <1>2 DEF Next

\* Every event preserves the types and the promise of a retry.
LEMMA BaseStep == BaseInv /\ [Next]_vars => BaseInv'
<1> SUFFICES ASSUME BaseInv, [Next]_vars PROVE BaseInv'
  OBVIOUS
<1> USE DEF BaseInv
<1>1. ASSUME NEW a \in Accesses, Refuse(a) PROVE BaseInv'
  <2>1. AccPort[a] \in Ports /\ a # None
    BY SpmAssumption
  <2>2. TypeOK'
    BY <1>1, <2>1 DEF Refuse, TypeOK
  <2>3. RetryPromised' /\ HeldAtPort'
    BY <1>1, <2>1 DEF Refuse, TypeOK, RetryPromised, HeldAtPort
  <2>4. QED
    BY <2>2, <2>3
<1>2. ASSUME NEW a \in Accesses, AcceptNew(a) PROVE BaseInv'
  <2>1. Accept(a) /\ UNCHANGED <<retryReq, held, retryResp, owed>>
    BY <1>2 DEF AcceptNew
  <2>2. TypeOK'
    BY <2>1, AcceptShape DEF TypeOK
  <2>3. RetryPromised' /\ HeldAtPort'
    BY <2>1, AcceptShape DEF TypeOK, RetryPromised, HeldAtPort
  <2>4. QED
    BY <2>2, <2>3
<1>3. ASSUME NEW p \in Ports, AcceptHeld(p) PROVE BaseInv'
  <2>1. /\ Accept(held[p]) /\ UNCHANGED <<retryResp, owed>>
        /\ retryReq' = [retryReq EXCEPT ![p] = FALSE]
        /\ held' = [held EXCEPT ![p] = None]
    BY <1>3 DEF AcceptHeld
  <2>2. held[p] \in Accesses /\ AccPort[held[p]] = p
    BY <1>3 DEF AcceptHeld, TypeOK, RetryPromised, HeldAtPort
  <2>3. TypeOK'
    BY <2>1, <2>2, AcceptShape DEF TypeOK
  <2>4. isBusy' = [isBusy EXCEPT ![p] = TRUE]
    BY <2>1, <2>2, AcceptShape
  <2>5. RetryPromised' /\ HeldAtPort'
    BY <2>1, <2>4 DEF TypeOK, RetryPromised, HeldAtPort
  <2>6. QED
    BY <2>3, <2>5
<1>4. ASSUME NEW p \in Ports, Free(p) PROVE BaseInv'
  BY <1>4 DEF Free, TypeOK, RetryPromised, HeldAtPort
<1>5. ASSUME NEW ok \in BOOLEAN, Dequeue(ok) PROVE BaseInv'
  <2>1. /\ SendHead(ok) /\ dequeueScheduled' = (ok /\ packetQueue' # <<>>)
        /\ owed' = (IF ok THEN owed ELSE owed \cup {AccPort[Head(packetQueue)]})
        /\ UNCHANGED <<ready, initial, isBusy, retryReq, held, unread, panicked>>
    BY <1>5 DEF Dequeue
  <2>2. TypeOK'
    BY <2>1, SendHeadShape DEF TypeOK
  <2>3. RetryPromised' /\ HeldAtPort'
    BY <2>1 DEF RetryPromised, HeldAtPort
  <2>4. QED
    BY <2>2, <2>3
<1>6. ASSUME NEW p \in Ports, NEW ok \in BOOLEAN, RecvRespRetry(p, ok) PROVE BaseInv'
  <2>1. /\ SendHead(ok)
        /\ dequeueScheduled' = (IF ok THEN packetQueue' # <<>> \/ dequeueScheduled
                                     ELSE dequeueScheduled)
        /\ owed' = (IF ok THEN owed \ {p} ELSE owed)
        /\ UNCHANGED <<ready, initial, isBusy, retryReq, held, unread, panicked>>
    BY <1>6 DEF RecvRespRetry
  <2>2. TypeOK'
    BY <2>1, SendHeadShape DEF TypeOK
  <2>3. RetryPromised' /\ HeldAtPort'
    BY <2>1 DEF RetryPromised, HeldAtPort
  <2>4. QED
    BY <2>2, <2>3
<1>7. ASSUME NEW p \in SpmPorts, SetAllReady(p) PROVE BaseInv'
  <2>1. /\ initial' = TRUE
        /\ \/ ready' = {} /\ unread' = [b \in DOMAIN unread |-> 0]
           \/ UNCHANGED <<ready, unread>>
        /\ UNCHANGED <<isBusy, retryReq, retryResp, packetQueue, dequeueScheduled,
                       held, owed, panicked>>
    BY <1>7 DEF SetAllReady
  <2>2. unread' \in [0..(Size - 1) -> -1..2] /\ ready' \subseteq 0..(Size - 1)
    <3>1. DOMAIN unread = 0..(Size - 1) /\ 0 \in -1..2
      BY DEF TypeOK
    <3>2. CASE ready' = {} /\ unread' = [b \in DOMAIN unread |-> 0]
      BY <3>1, <3>2
    <3>3. CASE UNCHANGED <<ready, unread>>
      BY <3>3 DEF TypeOK
    <3>4. QED
      BY <2>1, <3>2, <3>3
  <2>3. QED
    BY <2>1, <2>2 DEF TypeOK, RetryPromised, HeldAtPort
<1>8. CASE UNCHANGED vars
  BY <1>8 DEF vars, TypeOK, RetryPromised, HeldAtPort
<1>9. QED
  BY <1>1, <1>2, <1>3, <1>4, <1>5, <1>6, <1>7, <1>8, StepCases

\* The constructor's state.
LEMMA InitBase == Init => BaseInv
<1> SUFFICES ASSUME Init PROVE BaseInv
  OBVIOUS
<1>1. packetQueue \in Seq(Accesses) /\ unread \in [0..(Size - 1) -> -1..2]
  BY DEF Init
<1>2. TypeOK
  BY <1>1 DEF Init, TypeOK
<1>3. QED
  BY <1>2 DEF Init, BaseInv, RetryPromised, HeldAtPort

\* The variables of the scratchpad keep their types: release() always finds the
\* access that a refused requester kept.
THEOREM TypeCorrect == Spec => []TypeOK
BY InitBase, BaseStep, PTL DEF Spec, BaseInv

\* A refused requester is remembered exactly while a release of its port is to
\* come.
THEOREM RetryIsPromised == Spec => []RetryPromised
BY InitBase, BaseStep, PTL DEF Spec, BaseInv

----------------------------------------------------------------------------
(***************************************************************************)
(* Responses                                                               *)
(***************************************************************************)

\* Only the bus refuses a response.  While retryResp is set the refused response
\* is the head of the queue and the retry is owed; a dequeue that is scheduled
\* meanwhile was scheduled for a response behind the head.
RespInv ==
  /\ owed \subseteq {0}
  /\ \A p \in Ports : retryResp[p] =>
       /\ p = 0 /\ 0 \in owed
       /\ packetQueue # <<>> /\ AccPort[Head(packetQueue)] = 0
       /\ dequeueScheduled => Len(packetQueue) >= 2

\* An accepted access adds a response behind the head, or the only one.
LEMMA AcceptResp ==
  ASSUME TypeOK, RespInv, NoLostResponse, NEW a \in Accesses, Accept(a),
         UNCHANGED <<retryResp, owed>>
  PROVE  RespInv' /\ NoLostResponse'
<1>1. /\ AccPort[a] \in Ports
      /\ packetQueue' \in Seq(Accesses) /\ Len(packetQueue') = Len(packetQueue) + 1
      /\ packetQueue # <<>> => Head(packetQueue') = Head(packetQueue)
      /\ dequeueScheduled' = (dequeueScheduled \/ ~retryResp[AccPort[a]])
      /\ retryResp' = retryResp /\ owed' = owed
  BY AcceptShape
<1>2. packetQueue' # <<>> /\ (packetQueue # <<>> => Len(packetQueue') >= 2)
  BY <1>1 DEF TypeOK
<1>3. RespInv'
  BY <1>1, <1>2 DEF RespInv
<1>4. NoLostResponse'
  <2>1. CASE packetQueue = <<>>
    BY <1>1, <1>2, <2>1 DEF RespInv, NoLostResponse
  <2>2. CASE packetQueue # <<>>
    BY <1>1, <1>2, <2>2 DEF NoLostResponse
  <2>3. QED
    BY <2>1, <2>2
<1>5. QED
  BY <1>3, <1>4

\* Every event keeps the responses safe.
LEMMA RespStep ==
  ASSUME BaseInv, RespInv, NoLostResponse, [Next]_vars
  PROVE  RespInv' /\ NoLostResponse'
<1> USE DEF BaseInv
<1>1. ASSUME NEW a \in Accesses, AcceptNew(a) PROVE RespInv' /\ NoLostResponse'
  BY <1>1, AcceptResp DEF AcceptNew
<1>2. ASSUME NEW p \in Ports, AcceptHeld(p) PROVE RespInv' /\ NoLostResponse'
  <2>1. held[p] \in Accesses
    BY <1>2 DEF AcceptHeld, TypeOK, RetryPromised
  <2>2. QED
    BY <1>2, <2>1, AcceptResp DEF AcceptHeld
<1>3. ASSUME UNCHANGED <<retryResp, packetQueue, dequeueScheduled, owed>>
      PROVE  RespInv' /\ NoLostResponse'
  BY <1>3 DEF RespInv, NoLostResponse
<1>4. ASSUME NEW ok \in BOOLEAN, Dequeue(ok) PROVE RespInv' /\ NoLostResponse'
  <2> DEFINE h == AccPort[Head(packetQueue)]
  <2>1. /\ SendHead(ok) /\ dequeueScheduled' = (ok /\ packetQueue' # <<>>)
        /\ owed' = (IF ok THEN owed ELSE owed \cup {h})
    BY <1>4 DEF Dequeue
  <2>2. /\ h \in Ports /\ packetQueue # <<>> /\ (h # 0 => ok)
        /\ packetQueue' = (IF ok THEN Tail(packetQueue) ELSE packetQueue)
        /\ retryResp' = [retryResp EXCEPT ![h] = ~ok]
    BY <2>1, SendHeadShape
  <2>3. CASE ok
    <3>1. \A p \in Ports : ~retryResp'[p]
      BY <2>2, <2>3 DEF RespInv, TypeOK
    <3>2. QED
      BY <2>1, <2>2, <2>3, <3>1 DEF RespInv, NoLostResponse
  <2>4. CASE ~ok
    <3>1. h = 0 /\ packetQueue' = packetQueue /\ ~dequeueScheduled' /\ owed' = owed \cup {0}
      BY <2>1, <2>2, <2>4
    <3>2. \A p \in Ports : retryResp'[p] => p = 0
      BY <2>2, <3>1 DEF RespInv, TypeOK
    <3>3. QED
      BY <2>2, <3>1, <3>2 DEF RespInv, NoLostResponse
  <2>5. QED
    BY <2>3, <2>4
<1>5. ASSUME NEW p \in Ports, NEW ok \in BOOLEAN, RecvRespRetry(p, ok)
      PROVE  RespInv' /\ NoLostResponse'
  <2>1. /\ p \in owed /\ retryResp[p] /\ SendHead(ok)
        /\ dequeueScheduled' = (IF ok THEN packetQueue' # <<>> \/ dequeueScheduled
                                     ELSE dequeueScheduled)
        /\ owed' = (IF ok THEN owed \ {p} ELSE owed)
    BY <1>5 DEF RecvRespRetry
  <2>2. /\ p = 0 /\ packetQueue # <<>> /\ AccPort[Head(packetQueue)] = 0
        /\ dequeueScheduled => Len(packetQueue) >= 2
        /\ packetQueue' = (IF ok THEN Tail(packetQueue) ELSE packetQueue)
        /\ retryResp' = [retryResp EXCEPT ![0] = ~ok]
    BY <2>1, SendHeadShape DEF RespInv
  <2>3. CASE ok
    <3>1. \A x \in Ports : ~retryResp'[x]
      BY <2>1, <2>2, <2>3 DEF RespInv, TypeOK
    <3>2. dequeueScheduled => packetQueue' # <<>>
      <4>1. Len(Tail(packetQueue)) = Len(packetQueue) - 1 /\ Len(packetQueue) \in Nat
        BY <2>2, HeadTailProperties DEF TypeOK
      <4>2. QED
        BY <2>2, <2>3, <4>1
    <3>3. QED
      BY <2>1, <2>2, <2>3, <3>1, <3>2 DEF RespInv, NoLostResponse
  <2>4. CASE ~ok
    <3>1. retryResp' = retryResp
      BY <2>1, <2>2, <2>4 DEF TypeOK
    <3>2. QED
      BY <2>1, <2>2, <2>4, <3>1 DEF RespInv, NoLostResponse
  <2>5. QED
    BY <2>3, <2>4
<1>6. QED
  BY <1>1, <1>2, <1>3, <1>4, <1>5, StepCases DEF Refuse, Free, SetAllReady, vars

\* A response that waits is never forgotten, and a scheduled dequeue finds one:
\* the assertion at the top of dequeue() holds in every state.
THEOREM ResponsesNotLost == Spec => []NoLostResponse
<1>1. Init => RespInv /\ NoLostResponse
  BY DEF Init, RespInv, NoLostResponse
<1>2. BaseInv /\ RespInv /\ NoLostResponse /\ [Next]_vars => RespInv' /\ NoLostResponse'
  BY RespStep
<1>3. QED
  BY <1>1, <1>2, InitBase, BaseStep, PTL DEF Spec

----------------------------------------------------------------------------
(***************************************************************************)
(* The hand-off                                                            *)
(***************************************************************************)

\* The use that the ready bits are for: every write comes from one private port
\* and every private read from one (the host may read on port 0), no access is
\* let through against the ready bits, a read takes them away, and nobody
\* resets the whole memory meanwhile.
OneProducerOneConsumer ==
  /\ ReadyMode /\ ~ReadOnInvalid /\ ~WriteOnValid /\ ResetOnScratchpadRead /\ ~ResetSpm
  /\ \A a \in Accesses : ~AccRead[a] => AccPort[a] # 0
  /\ \A a, b \in Accesses :
       AccPort[a] # 0 /\ AccPort[b] # 0 /\ AccRead[a] = AccRead[b]
       => AccPort[a] = AccPort[b]

\* IsReady with given ready bits.
ReadyWith(a, bits) ==
  \/ ~ReadyMode
  \/ AccRead[a] /\ (ReadOnInvalid \/ Bytes(a) \subseteq bits)
  \/ ~AccRead[a] /\ (WriteOnValid \/ Bytes(a) \cap bits = {})

\* IsReady looks at the present ready bits.
LEMMA ReadyNow == \A a : IsReady(a) <=> ReadyWith(a, ready)
BY DEF IsReady, ReadyWith

\* What a private requester keeps after a refusal is still allowed: this is what
\* NoPanic and HandOff need, because a retry does not ask canAccess() again.
HeldIsReady == \A p \in SpmPorts : held[p] # None => ReadyWith(held[p], ready)

HandInv == HeldIsReady /\ NoPanic /\ HandOff

\* An access that is ready keeps the hand-off and the readiness of accesses
\* that are kept at other ports.
LEMMA AcceptHand ==
  ASSUME OneProducerOneConsumer, TypeOK, HandInv, HeldAtPort, NEW a \in Accesses,
         AccPort[a] # 0 => IsReady(a), Accept(a)
  PROVE  /\ NoPanic' /\ HandOff'
         /\ \A b \in Accesses :
              AccPort[b] # 0 /\ AccPort[b] # AccPort[a] /\ ReadyWith(b, ready)
              => ReadyWith(b, ready')
<1> DEFINE takes == AccRead[a] /\ AccPort[a] # 0
<1>1. /\ AccRead \in [Accesses -> BOOLEAN] /\ Bytes(a) \subseteq 0..(Size - 1)
      /\ unread \in [0..(Size - 1) -> -1..2] /\ DOMAIN unread = 0..(Size - 1)
  BY SpmAssumption DEF TypeOK
<1>2. /\ panicked' = (panicked \/ (AccPort[a] # 0 /\ ~IsReady(a)))
      /\ ready' = (IF takes THEN ready \ Bytes(a)
                   ELSE IF ~AccRead[a] THEN ready \cup Bytes(a) ELSE ready)
      /\ unread' = [b \in DOMAIN unread |->
                      IF b \notin Bytes(a) THEN unread[b]
                      ELSE IF takes THEN Max({unread[b] - 1, -1})
                      ELSE IF ~AccRead[a] THEN Min({unread[b] + 1, 2})
                      ELSE unread[b]]
  BY DEF Accept, ScratchpadAccess, OneProducerOneConsumer
<1>3. NoPanic'
  BY <1>2 DEF HandInv, NoPanic
<1>4. /\ takes => Bytes(a) \subseteq ready
      /\ ~AccRead[a] => Bytes(a) \cap ready = {}
  BY DEF IsReady, OneProducerOneConsumer
<1>5. HandOff'
  <2>1. SUFFICES ASSUME NEW b \in 0..(Size - 1)
                 PROVE  unread'[b] \in {0, 1} /\ (unread'[b] = 1 <=> b \in ready')
    BY DEF HandOff
  <2>2. unread[b] \in {0, 1} /\ (unread[b] = 1 <=> b \in ready) /\ unread[b] \in -1..2
    BY <1>1 DEF HandInv, HandOff
  <2>3. /\ Max({unread[b] - 1, -1}) = IF unread[b] = -1 THEN -1 ELSE unread[b] - 1
        /\ Min({unread[b] + 1, 2}) = IF unread[b] = 2 THEN 2 ELSE unread[b] + 1
    BY <2>2, CountBounds
  <2>4. unread'[b] = (IF b \notin Bytes(a) THEN unread[b]
                      ELSE IF takes THEN Max({unread[b] - 1, -1})
                      ELSE IF ~AccRead[a] THEN Min({unread[b] + 1, 2})
                      ELSE unread[b])
    BY <1>1, <1>2
  <2> HIDE DEF takes
  <2>5. CASE b \notin Bytes(a)
    BY <1>2, <2>2, <2>4, <2>5
  <2>6. CASE b \in Bytes(a) /\ takes
    BY <1>2, <1>4, <2>2, <2>3, <2>4, <2>6
  <2>7. CASE b \in Bytes(a) /\ ~takes /\ ~AccRead[a]
    BY <1>2, <1>4, <2>2, <2>3, <2>4, <2>7
  <2>8. CASE b \in Bytes(a) /\ ~takes /\ AccRead[a]
    BY <1>2, <2>2, <2>4, <2>8
  <2>9. QED
    BY <2>5, <2>6, <2>7, <2>8
<1>6. ASSUME NEW b \in Accesses, AccPort[b] # 0, AccPort[b] # AccPort[a], ReadyWith(b, ready)
      PROVE  ReadyWith(b, ready')
  <2>1. CASE AccPort[a] = 0
    <3>1. ready' = ready
      BY <1>2, <2>1 DEF OneProducerOneConsumer
    <3>2. QED
      BY <1>6, <3>1
  <2>2. CASE AccPort[a] # 0
    <3>1. AccRead[b] <=> ~AccRead[a]
      BY <1>1, <1>6, <2>2 DEF OneProducerOneConsumer
    <3>2. QED
      BY <1>2, <1>6, <2>2, <3>1 DEF ReadyWith, OneProducerOneConsumer
  <2>3. QED
    BY <2>1, <2>2
<1>7. QED
  BY <1>3, <1>5, <1>6

\* Every event keeps the hand-off.
LEMMA HandStep ==
  ASSUME OneProducerOneConsumer, BaseInv, HandInv, [Next]_vars
  PROVE  HandInv'
<1> USE DEF BaseInv
<1>1. ASSUME NEW p \in SpmPorts, held[p] # None
      PROVE  held[p] \in Accesses /\ AccPort[held[p]] = p /\ p # 0
  BY <1>1 DEF TypeOK, HeldAtPort, SpmPorts
<1>2. ASSUME NEW a \in Accesses, Refuse(a) PROVE HandInv'
  <2>1. AccPort[a] \in Ports /\ ready' = ready
    BY <1>2, SpmAssumption DEF Refuse
  <2>3. ASSUME NEW p \in SpmPorts, held'[p] # None PROVE ReadyWith(held'[p], ready)
    <3>1. CASE p = AccPort[a]
      <4>1. held'[p] = a /\ p # 0 /\ IsReady(a)
        BY <1>2, <2>1, <3>1 DEF Refuse, TypeOK, SpmPorts
      <4>2. QED
        BY <4>1, ReadyNow
    <3>2. CASE p # AccPort[a]
      <4>1. held'[p] = held[p]
        BY <1>2, <3>2 DEF Refuse, TypeOK, SpmPorts
      <4>2. QED
        BY <2>3, <4>1 DEF HandInv, HeldIsReady
    <3>3. QED
      BY <3>1, <3>2
  <2>4. NoPanic' /\ HandOff'
    BY <1>2 DEF Refuse, HandInv, NoPanic, HandOff
  <2>5. QED
    BY <2>1, <2>3, <2>4 DEF HandInv, HeldIsReady
<1>3. ASSUME NEW a \in Accesses, AcceptNew(a) PROVE HandInv'
  <2>1. /\ NoPanic' /\ HandOff' /\ held' = held /\ held[AccPort[a]] = None
        /\ \A b \in Accesses :
             AccPort[b] # 0 /\ AccPort[b] # AccPort[a] /\ ReadyWith(b, ready)
             => ReadyWith(b, ready')
    BY <1>3, AcceptHand DEF AcceptNew
  <2>2. ASSUME NEW p \in SpmPorts, held[p] # None PROVE ReadyWith(held[p], ready')
    BY <1>1, <2>1, <2>2 DEF HandInv, HeldIsReady
  <2>3. QED
    BY <2>1, <2>2 DEF HandInv, HeldIsReady
<1>4. ASSUME NEW p \in Ports, AcceptHeld(p) PROVE HandInv'
  <2>1. held[p] \in Accesses /\ AccPort[held[p]] = p
    BY <1>4 DEF AcceptHeld, TypeOK, RetryPromised, HeldAtPort
  <2>2. p # 0 => IsReady(held[p])
    BY <2>1, SpmAssumption, ReadyNow DEF HandInv, HeldIsReady, SpmPorts
  <2>3. /\ NoPanic' /\ HandOff' /\ held' = [held EXCEPT ![p] = None]
        /\ \A b \in Accesses :
             AccPort[b] # 0 /\ AccPort[b] # p /\ ReadyWith(b, ready)
             => ReadyWith(b, ready')
    BY <1>4, <2>1, <2>2, AcceptHand DEF AcceptHeld
  <2>4. ASSUME NEW x \in SpmPorts, held'[x] # None PROVE ReadyWith(held'[x], ready')
    <3>1. x # p /\ held'[x] = held[x] /\ held[x] # None
      BY <2>3, <2>4 DEF TypeOK, SpmPorts
    <3>2. ReadyWith(held[x], ready')
      BY <1>1, <2>3, <3>1 DEF HandInv, HeldIsReady
    <3>3. QED
      BY <3>1, <3>2
  <2>5. QED
    BY <2>3, <2>4 DEF HandInv, HeldIsReady
<1>5. ASSUME UNCHANGED <<ready, held, unread, panicked>> PROVE HandInv'
  BY <1>5 DEF HandInv, HeldIsReady, NoPanic, HandOff
<1>6. QED
  BY <1>2, <1>3, <1>4, <1>5, StepCases
     DEF Free, Dequeue, RecvRespRetry, SetAllReady, OneProducerOneConsumer, vars

\* Between one producer and one consumer the invariant of the hand-off holds in
\* every state.
LEMMA HandOffInvariant ==
  ASSUME OneProducerOneConsumer
  PROVE  Spec => []HandInv
<1>1. Init => HandInv
  <2>1. SUFFICES ASSUME Init PROVE HandInv
    OBVIOUS
  <2>2. HandOff
    BY <2>1 DEF Init, HandOff
  <2>3. QED
    BY <2>1, <2>2 DEF Init, HandInv, HeldIsReady, NoPanic, SpmPorts
<1>2. BaseInv /\ HandInv /\ [Next]_vars => HandInv'
  BY HandStep
<1>3. QED
  BY <1>1, <1>2, InitBase, BaseStep, PTL DEF Spec

\* Between one producer and one consumer every byte written is read once before
\* it is overwritten, and the ready bits say which of the two is next.
THEOREM HandOffSafe ==
  ASSUME OneProducerOneConsumer
  PROVE  Spec => []HandOff
<1>1. HandInv => HandOff
  BY DEF HandInv
<1>2. QED
  BY <1>1, HandOffInvariant, PTL

\* Between one producer and one consumer the panics of scratchpadAccess() are
\* unreachable, refusals and retries included: what canAccess() allowed is still
\* allowed when the packet arrives.
THEOREM NeverPanics ==
  ASSUME OneProducerOneConsumer
  PROVE  Spec => []NoPanic
<1>1. HandInv => NoPanic
  BY DEF HandInv
<1>2. QED
  BY <1>1, HandOffInvariant, PTL
=============================================================================
