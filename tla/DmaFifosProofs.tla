--------------------------- MODULE DmaFifosProofs ---------------------------
(***************************************************************************)
(* Lemmas on the operations of the DMA FIFOs, for every buffer size,       *)
(* request size and number of requests under way.  The engines' proofs     *)
(* use the lemmas of the last two parts: what a read FIFO and a write FIFO *)
(* keep true of their bytes, operation by operation.                       *)
(*                                                                         *)
(* A block is a function V from offsets, 0 on, to values; base is the      *)
(* address of its first byte.  A stream is a block of which the FIFO sees  *)
(* frame after frame at addresses of its own: base is where its first byte *)
(* would be if it had come in one piece, and may be negative.              *)
(***************************************************************************)
EXTENDS DmaFifos, SequenceTheorems, FiniteSetTheorems, TLAPS

(***************************************************************************)
(* Counting rounds                                                         *)
(***************************************************************************)

\* A set of numbers from 1 on that has no gap is an interval, whose end is the
\* number of its elements: the loops of resumeFill(), resumeEmpty() and
\* handlePending() go round as often as their condition holds.
LEMMA NoGap ==
  ASSUME NEW m \in Nat, NEW S \in SUBSET (1..m),
         \A j \in S : \A i \in 1..j : i \in S
  PROVE  Cardinality(S) \in 0..m /\ S = 1..Cardinality(S)
<1> DEFINE c == Cardinality(S)
<1>1. IsFiniteSet(1..m) /\ Cardinality(1..m) = m
  <2>1. Cardinality(1..m) = IF 1 > m THEN 0 ELSE m - 1 + 1 BY FS_Interval
  <2> QED BY <2>1, FS_Interval
<1>2. IsFiniteSet(S) /\ c \in Nat /\ c <= m
  <2>1. IsFiniteSet(S) /\ c <= Cardinality(1..m) BY <1>1, FS_Subset
  <2>2. c \in Nat BY <2>1, FS_CardinalityType
  <2> HIDE DEF c
  <2> QED BY <1>1, <2>1, <2>2
<1>3. S \subseteq 1..c
  <2> SUFFICES ASSUME NEW j \in S PROVE j <= c
    BY <1>2
  <2>1. j \in Nat /\ 1 <= j OBVIOUS
  <2>2. (1..j) \subseteq S OBVIOUS
  <2>3. Cardinality(1..j) = IF 1 > j THEN 0 ELSE j - 1 + 1 BY <2>1, FS_Interval
  <2>4. Cardinality(1..j) <= c BY <1>2, <2>2, FS_Subset
  <2> QED BY <2>1, <2>3, <2>4
<1>4. IsFiniteSet(1..c) /\ Cardinality(1..c) = c
  <2> HIDE DEF c
  <2>1. Cardinality(1..c) = IF 1 > c THEN 0 ELSE c - 1 + 1 BY <1>2, FS_Interval
  <2> QED BY <1>2, <2>1, FS_Interval
<1>5. S = 1..c
  BY <1>3, <1>4, FS_Subset
<1> QED BY <1>2, <1>5

\* Going round from 1 to m: what holds of each number as soon as it holds of
\* all before it, holds of all.
LEMMA GoRound ==
  ASSUME NEW m \in Nat, NEW S \in SUBSET (1..m),
         \A i \in 1..m : (1..(i - 1)) \subseteq S => i \in S
  PROVE  S = 1..m
<1> DEFINE D == {i \in 1..m : (1..i) \subseteq S}
           c == Cardinality(D)
<1>1. c \in 0..m /\ D = 1..c
  <2>1. D \in SUBSET (1..m) OBVIOUS
  <2>2. \A j \in D : \A i \in 1..j : i \in D OBVIOUS
  <2> HIDE DEF D
  <2> QED BY <2>1, <2>2, NoGap
<1>2. (1..c) \subseteq S
  <2>1. \A j \in D : j \in S OBVIOUS
  <2> HIDE DEF D
  <2> QED BY <1>1, <2>1
<1>3. c = m
  <2> SUFFICES ASSUME c < m PROVE FALSE
    <3> HIDE DEF c, D
    <3> QED BY <1>1
  <2>1. c + 1 \in 1..m /\ (c + 1) - 1 = c BY <1>1
  <2>2. c + 1 \in S
    <3> HIDE DEF c, D
    <3> QED BY <1>2, <2>1
  <2>3. (1..(c + 1)) \subseteq S
    <3> HIDE DEF c, D
    <3> QED BY <1>1, <1>2, <2>2
  <2>4. c + 1 \in D
    <3> HIDE DEF c
    <3> QED BY <2>1, <2>3
  <2> HIDE DEF c, D
  <2> QED BY <1>1, <2>4
<1> HIDE DEF c, D
<1> QED BY <1>2, <1>3

(***************************************************************************)
(* The requests under way                                                  *)
(***************************************************************************)
RequestOf(Val) == [addr : Nat, size : Nat, done : BOOLEAN, data : Seq(Val)]
FifoOf(Val) ==
  [buffer : Seq(Val), nextAddr : Nat, endAddr : Nat, pending : Seq(RequestOf(Val))]

\* The requests p under way follow each other without a gap up to next.
Tiled(p, next) ==
  /\ \A i \in 1..Len(p) : p[i].size >= 1 /\ p[i].addr + p[i].size <= next
  /\ \A i, j \in 1..Len(p) : i < j => p[i].addr + p[i].size <= p[j].addr
  /\ \A i \in 1..Len(p) :
       p[i].addr + p[i].size = IF i = Len(p) THEN next ELSE p[i + 1].addr

Shape(f) == f.nextAddr <= f.endAddr /\ Tiled(f.pending, f.nextAddr)

\* n further requests can be issued, as far as the end of the block goes.
CanIssue(f, n) ==
  n \in Nat /\ \A i \in 1..n : f.nextAddr + Before(i) < f.endAddr

\* Where nextAddr is after n further requests.
NextAfter(f, n) == Least(f.endAddr, f.nextAddr + n * MaxReqSize)

\* Requests start MaxReqSize apart.
LEMMA BeforeSteps ==
  /\ Before(1) = 0
  /\ \A i \in 1..MaxPending : Before(i) \in Nat
  /\ \A i \in Nat : i >= 1 => Before(i) \in Nat
  /\ \A i \in Nat : i * MaxReqSize = Before(i) + MaxReqSize
  /\ \A i \in Nat : Before(i + 1) = Before(i) + MaxReqSize
  /\ \A i, j \in Nat : i < j => Before(i) + MaxReqSize <= Before(j)
BY FifoAssumption, Z3 DEF Before

\* The requests that are issued together fill the addresses from nextAddr to
\* where it moves, each but the last of full size.
LEMMA Grid ==
  ASSUME NEW Val, NEW f \in FifoOf(Val), f.nextAddr <= f.endAddr,
         NEW n, CanIssue(f, n)
  PROVE  /\ \A i \in 1..n : /\ Before(i) \in Nat /\ ReqSize(f, i) \in Nat
                            /\ ReqSize(f, i) >= 1
                            /\ f.nextAddr + Before(i) + ReqSize(f, i) <= NextAfter(f, n)
         /\ \A i, j \in 1..n : i < j => Before(i) + ReqSize(f, i) <= Before(j)
         /\ \A i \in 1..n :
              f.nextAddr + Before(i) + ReqSize(f, i) =
                IF i = n THEN NextAfter(f, n) ELSE f.nextAddr + Before(i + 1)
         /\ NextAfter(f, n) \in Nat
         /\ f.nextAddr <= NextAfter(f, n) /\ NextAfter(f, n) <= f.endAddr
         /\ n = 0 => NextAfter(f, n) = f.nextAddr
         /\ NextAfter(f, n) - f.nextAddr = Least(n * MaxReqSize, f.endAddr - f.nextAddr)
<1> DEFINE a == f.nextAddr
           e == f.endAddr
           M == MaxReqSize
<1>1. a \in Nat /\ e \in Nat /\ a <= e BY DEF FifoOf
<1>2. n \in Nat /\ \A i \in 1..n : a + Before(i) < e BY DEF CanIssue
<1>3. M \in Nat /\ M >= 1 BY FifoAssumption
<1>4. \A i \in 1..n : /\ Before(i) \in Nat
                      /\ Before(i) + M <= n * M
                      /\ i # n => Before(i + 1) = Before(i) + M /\ a + Before(i) + M < e
                      /\ i = n => Before(i) + M = n * M
  <2> SUFFICES ASSUME NEW i \in 1..n
               PROVE  /\ Before(i) \in Nat
                      /\ Before(i) + M <= n * M
                      /\ i # n => Before(i + 1) = Before(i) + M /\ a + Before(i) + M < e
                      /\ i = n => Before(i) + M = n * M
    OBVIOUS
  <2>1. i \in Nat /\ i >= 1 /\ n \in Nat BY <1>2
  <2>2. Before(i) \in Nat /\ Before(n) \in Nat BY <2>1, BeforeSteps
  <2>3. n * M = Before(n) + M BY <2>1, BeforeSteps
  <2>4. i < n => Before(i) + M <= Before(n) BY <2>1, BeforeSteps
  <2>5. Before(i + 1) = Before(i) + M BY <2>1, BeforeSteps
  <2>6. i # n => i < n /\ i + 1 \in 1..n BY <1>2, <2>1
  <2>7. i # n => a + Before(i + 1) < e BY <1>2, <2>6
  <2>8. i # n => a + Before(i) + M < e
    <3> HIDE DEF a, e, M
    <3> QED BY <1>1, <1>3, <2>2, <2>5, <2>7
  <2> HIDE DEF a, e, M
  <2> QED BY <1>3, <2>1, <2>2, <2>3, <2>4, <2>5, <2>6, <2>8
<1>5. \A i, j \in 1..n : i < j => Before(i) + M <= Before(j)
  BY <1>2, BeforeSteps
<1>6. n * M \in Nat /\ (n = 0 => n * M = 0) BY <1>2, <1>3, Z3
<1>7. \A i \in 1..n : ReqSize(f, i) = IF M < e - a - Before(i) THEN M ELSE e - a - Before(i)
  BY DEF ReqSize, Least
<1>8. NextAfter(f, n) = IF e < a + n * M THEN e ELSE a + n * M
  BY DEF NextAfter, Least
<1>9. Least(n * M, e - a) = IF n * M < e - a THEN n * M ELSE e - a
  BY DEF Least
<1>10. n > 0 => Before(n) \in Nat /\ Before(n) + M = n * M /\ a + Before(n) < e
  BY <1>2, <1>4
<1> DEFINE N == NextAfter(f, n)
           R(i) == ReqSize(f, i)
           B(i) == Before(i)
           nM == n * M
<1>11. N \in Nat /\ a <= N /\ N <= e /\ (n = 0 => N = a)
       /\ N - a = Least(nM, e - a)
  <2> HIDE DEF a, e, M, N, nM
  <2> QED BY <1>1, <1>2, <1>3, <1>6, <1>8, <1>9 DEF N, nM
<1>12. ASSUME NEW i \in 1..n
       PROVE  /\ B(i) \in Nat /\ R(i) \in Nat /\ R(i) >= 1 /\ R(i) <= M
              /\ a + B(i) + R(i) <= N
              /\ a + B(i) + R(i) = IF i = n THEN N ELSE a + B(i + 1)
  <2>1. B(i) \in Nat /\ B(i) + M <= nM
        /\ (i # n => B(i + 1) = B(i) + M /\ a + B(i) + M < e)
        /\ (i = n => B(i) + M = nM) /\ a + B(i) < e
    BY <1>2, <1>4
  <2>2. R(i) = IF M < e - a - B(i) THEN M ELSE e - a - B(i)
    BY <1>7
  <2>3. N = IF e < a + nM THEN e ELSE a + nM BY <1>8
  <2>4. nM \in Nat BY <1>6
  <2> HIDE DEF a, e, M, N, nM, B, R
  <2> QED BY <1>1, <1>3, <2>1, <2>2, <2>3, <2>4
<1>13. \A i, j \in 1..n : i < j => B(i) + R(i) <= B(j)
  <2> SUFFICES ASSUME NEW i \in 1..n, NEW j \in 1..n, i < j
               PROVE  B(i) + R(i) <= B(j) OBVIOUS
  <2>1. B(i) + M <= B(j) BY <1>5
  <2>2. B(i) \in Nat /\ B(j) \in Nat /\ R(i) \in Nat /\ R(i) <= M BY <1>12
  <2> HIDE DEF a, e, M, N, nM, B, R
  <2> QED BY <1>3, <2>1, <2>2
<1> QED BY <1>11, <1>12, <1>13

\* The bytes under way are those from the first pending address on; there are
\* none exactly when no request is pending.
LEMMA PendingBytes ==
  ASSUME NEW Val, NEW f \in FifoOf(Val), Shape(f)
  PROVE  /\ SizePending(f) \in Nat /\ SizePending(f) <= f.nextAddr
         /\ SizePending(f) = 0 <=> f.pending = <<>>
         /\ f.pending # <<>> => /\ Len(f.pending) \in Nat /\ Len(f.pending) >= 1
                                /\ f.pending[1] \in RequestOf(Val)
                                /\ SizePending(f) = f.nextAddr - f.pending[1].addr
<1>1. f.nextAddr \in Nat /\ f.pending \in Seq(RequestOf(Val)) BY DEF FifoOf
<1>2. CASE f.pending = <<>> BY <1>1, <1>2 DEF SizePending
<1>3. CASE f.pending # <<>>
  <2>1. Len(f.pending) \in Nat /\ Len(f.pending) >= 1 BY <1>1, <1>3
  <2>2. f.pending[1] \in RequestOf(Val) BY <1>1, <2>1
  <2>3. f.pending[1].addr \in Nat /\ f.pending[1].size \in Nat BY <2>2 DEF RequestOf
  <2>4. f.pending[1].size >= 1 /\ f.pending[1].addr + f.pending[1].size <= f.nextAddr
    BY <2>1 DEF Shape, Tiled
  <2> QED BY <1>1, <1>3, <2>1, <2>2, <2>3, <2>4 DEF SizePending
<1> QED BY <1>2, <1>3

\* What the parts of a concatenation are.
LEMMA Joined ==
  ASSUME NEW T, NEW p \in Seq(T), NEW q \in Seq(T)
  PROVE  /\ p \o q \in Seq(T) /\ Len(p \o q) = Len(p) + Len(q)
         /\ \A i \in 1..Len(p) : (p \o q)[i] = p[i] /\ i \in 1..Len(p \o q)
         /\ \A i \in 1..Len(q) : (p \o q)[Len(p) + i] = q[i]
         /\ \A i \in 1..(Len(p) + Len(q)) :
              i > Len(p) => i - Len(p) \in 1..Len(q) /\ (p \o q)[i] = q[i - Len(p)]
OBVIOUS

\* The address of the oldest byte under way, nextAddr if there is none.
FirstUnderWay(f) == f.nextAddr - SizePending(f)

\* g is f some steps later in the same block.
Advances(f, g) ==
  /\ g.endAddr = f.endAddr /\ f.nextAddr <= g.nextAddr
  /\ FirstUnderWay(f) <= FirstUnderWay(g)

\* Steps of a FIFO add up.
LEMMA AdvancesOn ==
  ASSUME NEW Val, NEW f \in FifoOf(Val), Shape(f), NEW g \in FifoOf(Val), Shape(g),
         NEW h \in FifoOf(Val), Shape(h), Advances(f, g), Advances(g, h)
  PROVE  Advances(f, h)
<1>1. /\ f.nextAddr \in Nat /\ g.nextAddr \in Nat /\ h.nextAddr \in Nat BY DEF FifoOf
<1>2. /\ SizePending(f) \in Nat /\ SizePending(g) \in Nat /\ SizePending(h) \in Nat
  BY PendingBytes
<1>3. /\ FirstUnderWay(f) \in Int /\ FirstUnderWay(g) \in Int /\ FirstUnderWay(h) \in Int
  BY <1>1, <1>2 DEF FirstUnderWay
<1> QED BY <1>1, <1>3 DEF Advances

\* The i-th request of those that are issued together.
NewRequest(f, i, data) ==
  [addr |-> f.nextAddr + Before(i), size |-> ReqSize(f, i), done |-> FALSE,
   data |-> data[i]]

\* Issuing requests appends them to those under way, which stay tiled, and
\* leaves the buffer alone.
LEMMA IssueShape ==
  ASSUME NEW Val, NEW f \in FifoOf(Val), Shape(f), NEW n, CanIssue(f, n),
         NEW data, \A i \in 1..n : data[i] \in Seq(Val)
  PROVE  LET g == Issue(f, n, data)
         IN  /\ g \in FifoOf(Val) /\ Shape(g)
             /\ g.buffer = f.buffer /\ g.endAddr = f.endAddr
             /\ g.nextAddr = NextAfter(f, n)
             /\ Len(g.pending) = Len(f.pending) + n
             /\ \A i \in 1..Len(f.pending) : g.pending[i] = f.pending[i]
             /\ \A i \in 1..n :
                  g.pending[Len(f.pending) + i] = NewRequest(f, i, data)
             /\ SizePending(g) = SizePending(f) + (NextAfter(f, n) - f.nextAddr)
<1> DEFINE g == Issue(f, n, data)
           p == f.pending
           l == Len(p)
           q == [i \in 1..n |-> NewRequest(f, i, data)]
           next == NextAfter(f, n)
<1>1. /\ p \in Seq(RequestOf(Val)) /\ f.nextAddr \in Nat /\ f.endAddr \in Nat
      /\ f.buffer \in Seq(Val) /\ f.nextAddr <= f.endAddr /\ n \in Nat /\ l \in Nat
  BY DEF FifoOf, Shape, CanIssue
<1>2. /\ \A i \in 1..n : /\ Before(i) \in Nat /\ ReqSize(f, i) \in Nat
                         /\ ReqSize(f, i) >= 1
                         /\ f.nextAddr + Before(i) + ReqSize(f, i) <= next
      /\ \A i, j \in 1..n : i < j => Before(i) + ReqSize(f, i) <= Before(j)
      /\ \A i \in 1..n :
           f.nextAddr + Before(i) + ReqSize(f, i) =
             IF i = n THEN next ELSE f.nextAddr + Before(i + 1)
      /\ next \in Nat /\ f.nextAddr <= next /\ next <= f.endAddr
      /\ n = 0 => next = f.nextAddr
  BY <1>1, Grid
<1>3. q \in Seq(RequestOf(Val)) /\ Len(q) = n
      /\ \A i \in 1..n : q[i] = NewRequest(f, i, data)
  <2>1. ASSUME NEW i \in 1..n PROVE NewRequest(f, i, data) \in RequestOf(Val)
    <3> HIDE DEF p, q, l, g, next
    <3>1. Before(i) \in Nat /\ ReqSize(f, i) \in Nat BY <1>2
    <3>2. f.nextAddr \in Nat BY <1>1
    <3>3. f.nextAddr + Before(i) \in Nat BY <3>1, <3>2
    <3>4. data[i] \in Seq(Val) OBVIOUS
    <3> QED BY <3>1, <3>3, <3>4 DEF NewRequest, RequestOf
  <2> HIDE DEF next
  <2> QED BY <1>1, <2>1
<1>4. \A i \in 1..n : /\ q[i].addr = f.nextAddr + Before(i)
                      /\ q[i].size = ReqSize(f, i)
  BY <1>3 DEF NewRequest
<1>5. g = [buffer |-> f.buffer, nextAddr |-> next, endAddr |-> f.endAddr,
           pending |-> p \o q]
  <2>1. g = [f EXCEPT !.nextAddr = next, !.pending = p \o q]
    BY DEF Issue, NextAfter, NewRequest
  <2> HIDE DEF g, q, next
  <2> QED BY <2>1 DEF FifoOf
<1>6. /\ p \o q \in Seq(RequestOf(Val)) /\ Len(p \o q) = l + n
      /\ \A i \in 1..l : (p \o q)[i] = p[i]
      /\ \A i \in 1..n : (p \o q)[l + i] = q[i]
      /\ \A i \in 1..(l + n) : i > l => i - l \in 1..n /\ (p \o q)[i] = q[i - l]
  <2>1. /\ p \o q \in Seq(RequestOf(Val)) /\ Len(p \o q) = Len(p) + Len(q)
        /\ \A i \in 1..Len(p) : (p \o q)[i] = p[i] /\ i \in 1..Len(p \o q)
        /\ \A i \in 1..Len(q) : (p \o q)[Len(p) + i] = q[i]
        /\ \A i \in 1..(Len(p) + Len(q)) :
             i > Len(p) => i - Len(p) \in 1..Len(q) /\ (p \o q)[i] = q[i - Len(p)]
    <3> HIDE DEF q, p
    <3> QED BY <1>1, <1>3, Joined
  <2> HIDE DEF q, p
  <2> QED BY <1>3, <2>1
<1>7. \A i \in 1..l : p[i].addr \in Nat /\ p[i].size \in Nat
  <2>1. \A i \in 1..l : p[i] \in RequestOf(Val) BY <1>1
  <2> HIDE DEF p
  <2> QED BY <2>1 DEF RequestOf
<1>8. Before(1) = 0 BY BeforeSteps
<1>9. Tiled(p \o q, next)
  <2>0. /\ \A i \in 1..l : p[i].size >= 1 /\ p[i].addr + p[i].size <= f.nextAddr
        /\ \A i, j \in 1..l : i < j => p[i].addr + p[i].size <= p[j].addr
        /\ \A i \in 1..l :
             p[i].addr + p[i].size = IF i = l THEN f.nextAddr ELSE p[i + 1].addr
    BY DEF Shape, Tiled
  <2> DEFINE pq == p \o q
             na == f.nextAddr
  <2>1. \A i \in 1..Len(pq) : pq[i].size >= 1 /\ pq[i].addr + pq[i].size <= next
    <3> SUFFICES ASSUME NEW i \in 1..(l + n)
                 PROVE  pq[i].size >= 1 /\ pq[i].addr + pq[i].size <= next
      BY <1>6
    <3>1. CASE i <= l
      <4>1. i \in 1..l /\ pq[i] = p[i] BY <1>1, <1>6, <3>1
      <4>2. p[i].addr \in Nat /\ p[i].size \in Nat /\ p[i].size >= 1
            /\ p[i].addr + p[i].size <= na
        BY <1>7, <2>0, <4>1
      <4>3. f.nextAddr <= next /\ next \in Nat BY <1>2
      <4> HIDE DEF p, q, pq, next, l
      <4> QED BY <1>1, <4>1, <4>2, <4>3
    <3>2. CASE i > l
      <4>1. PICK j \in 1..n : pq[i] = q[j] BY <1>6, <3>2
      <4> HIDE DEF p, q, pq, next, l
      <4> QED BY <1>2, <1>4, <4>1
    <3> QED BY <1>1, <3>1, <3>2
  <2>2. \A i, j \in 1..Len(pq) : i < j => pq[i].addr + pq[i].size <= pq[j].addr
    <3> SUFFICES ASSUME NEW i \in 1..(l + n), NEW j \in 1..(l + n), i < j
                 PROVE  pq[i].addr + pq[i].size <= pq[j].addr
      BY <1>6
    <3>1. CASE j <= l
      <4>1. i \in 1..l /\ pq[i] = p[i] /\ j \in 1..l /\ pq[j] = p[j]
        BY <1>1, <1>6, <3>1
      <4> HIDE DEF p, q, pq, next, l
      <4> QED BY <2>0, <4>1
    <3>2. CASE i <= l /\ j > l
      <4>1. i \in 1..l /\ pq[i] = p[i] BY <1>1, <1>6, <3>2
      <4>2. PICK k \in 1..n : pq[j] = q[k] BY <1>6, <3>2
      <4> HIDE DEF p, q, pq, next, l
      <4>3. p[i].addr \in Nat /\ p[i].size \in Nat /\ p[i].addr + p[i].size <= na
        BY <1>7, <2>0, <4>1
      <4>4. q[k].addr = na + Before(k) /\ Before(k) \in Nat BY <1>2, <1>4
      <4>5. na \in Nat BY <1>1
      <4>6. p[i].addr + p[i].size <= q[k].addr
        <5> HIDE DEF na
        <5> QED BY <4>3, <4>4, <4>5
      <4> QED BY <4>1, <4>2, <4>6
    <3>3. CASE i > l
      <4>1. pq[i] = q[i - l] /\ pq[j] = q[j - l] /\ i - l \in 1..n /\ j - l \in 1..n
            /\ i - l < j - l
        BY <1>1, <1>6, <3>3
      <4> HIDE DEF p, q, pq, next, l
      <4>2. Before(i - l) + ReqSize(f, i - l) <= Before(j - l) BY <1>2, <4>1
      <4>3. Before(i - l) \in Nat /\ Before(j - l) \in Nat /\ ReqSize(f, i - l) \in Nat
        BY <1>2, <4>1
      <4>4. PICK u \in 1..n, w \in 1..n : u = i - l /\ w = j - l BY <4>1
      <4>5. /\ q[u].addr = na + Before(u) /\ q[u].size = ReqSize(f, u)
            /\ q[w].addr = na + Before(w)
        BY <1>4
      <4>6. na \in Nat BY <1>1
      <4>7. q[u].addr + q[u].size <= q[w].addr
        <5> HIDE DEF na
        <5> QED BY <4>2, <4>3, <4>4, <4>5, <4>6
      <4> QED BY <4>1, <4>4, <4>7
    <3> QED BY <1>1, <3>1, <3>2, <3>3
  <2>3. \A i \in 1..Len(pq) :
          pq[i].addr + pq[i].size = IF i = Len(pq) THEN next ELSE pq[i + 1].addr
    <3> SUFFICES ASSUME NEW i \in 1..(l + n)
                 PROVE  pq[i].addr + pq[i].size =
                          IF i = l + n THEN next ELSE pq[i + 1].addr
      BY <1>6
    <3>1. CASE i < l
      <4>1. i \in 1..l /\ pq[i] = p[i] /\ i + 1 \in 1..l /\ pq[i + 1] = p[i + 1]
            /\ i # l + n /\ i # l
        <5> HIDE DEF p, q, pq, next, l
        <5> QED BY <1>1, <1>6, <3>1 DEF pq
      <4> HIDE DEF p, q, pq, next, l
      <4> QED BY <2>0, <4>1
    <3>2. CASE i = l /\ n = 0
      <4>1. i \in 1..l /\ pq[i] = p[i] /\ i = l + n BY <1>1, <1>6, <3>2
      <4>2. p[i].addr + p[i].size = na BY <2>0, <3>2, <4>1
      <4> HIDE DEF p, q, pq, next, l
      <4> QED BY <1>2, <3>2, <4>1, <4>2
    <3>3. CASE i = l /\ n > 0
      <4>1. i \in 1..l /\ pq[i] = p[i] /\ i # l + n /\ pq[i + 1] = q[1] /\ 1 \in 1..n
        BY <1>1, <1>6, <3>3
      <4>2. p[i].addr + p[i].size = na BY <2>0, <3>3, <4>1
      <4> HIDE DEF p, q, pq, next, l
      <4> QED BY <1>1, <1>4, <1>8, <4>1, <4>2
    <3>4. CASE i > l
      <4>1. i - l \in 1..n /\ pq[i] = q[i - l]
            /\ (i = l + n <=> i - l = n)
            /\ (i # l + n => /\ i + 1 \in 1..(l + n) /\ i + 1 > l
                             /\ (i + 1) - l \in 1..n /\ pq[i + 1] = q[(i + 1) - l]
                             /\ (i + 1) - l = (i - l) + 1)
        <5> HIDE DEF p, q, pq, next, l, g
        <5>1. \A k \in 1..(l + n) : k > l => k - l \in 1..n /\ pq[k] = q[k - l]
          BY <1>6 DEF pq
        <5>2. l \in Nat /\ n \in Nat BY <1>1
        <5>3. /\ i = l + n <=> i - l = n
              /\ i # l + n => /\ i + 1 \in 1..(l + n) /\ i + 1 > l
                             /\ (i + 1) - l = (i - l) + 1
          BY <5>2, <3>4
        <5>4. i - l \in 1..n /\ pq[i] = q[i - l] BY <5>1, <3>4
        <5>5. i # l + n => (i + 1) - l \in 1..n /\ pq[i + 1] = q[(i + 1) - l]
          BY <5>1, <5>3
        <5> QED BY <5>3, <5>4, <5>5
      <4> HIDE DEF p, q, pq, next, l
      <4> DEFINE j == i - l
      <4>2. j \in 1..n /\ pq[i] = q[j] /\ (i = l + n <=> j = n)
            /\ (i # l + n => j + 1 \in 1..n /\ pq[i + 1] = q[j + 1])
        BY <4>1
      <4> HIDE DEF j
      <4>3. q[j].addr + q[j].size = IF j = n THEN next ELSE na + Before(j + 1)
        BY <1>2, <1>4, <4>2
      <4>4. j + 1 \in 1..n => q[j + 1].addr = na + Before(j + 1) BY <1>4
      <4> QED BY <4>2, <4>3, <4>4
    <3> HIDE DEF pq, next, p, q
    <3>5. i < l \/ (i = l /\ n = 0) \/ (i = l /\ n > 0) \/ i > l BY <1>1
    <3> QED BY <3>1, <3>2, <3>3, <3>4, <3>5
  <2> HIDE DEF pq, next
  <2> QED BY <2>1, <2>2, <2>3 DEF Tiled, pq
<1>10. g \in FifoOf(Val) /\ Shape(g)
  <2> HIDE DEF p, q, next
  <2> QED BY <1>1, <1>2, <1>5, <1>6, <1>9 DEF FifoOf, Shape
<1>11. SizePending(g) = SizePending(f) + (next - f.nextAddr)
  <2>0. g.pending = p \o q /\ g.nextAddr = next /\ f.nextAddr <= next /\ next \in Nat
    <3> HIDE DEF p, q, next, g
    <3> QED BY <1>2, <1>5
  <2>1. CASE l > 0
    <3>1. p # <<>> BY <1>1, <2>1
    <3>2. (p \o q)[1] = p[1] /\ p[1].addr \in Nat BY <1>1, <1>6, <1>7, <2>1
    <3>3. p \o q # <<>>
      <4> HIDE DEF p, q, next
      <4> QED BY <1>1, <1>6, <2>1
    <3>4. SizePending(g) = next - p[1].addr
      <4> HIDE DEF p, q, next, g
      <4> QED BY <2>0, <3>2, <3>3 DEF SizePending
    <3>5. SizePending(f) = f.nextAddr - p[1].addr BY <3>1 DEF SizePending
    <3> HIDE DEF p, q, next, g
    <3> QED BY <1>1, <2>0, <3>2, <3>4, <3>5
  <2>2. CASE l = 0 /\ n > 0
    <3>1. SizePending(f) = 0 BY <1>1, <2>2 DEF SizePending
    <3>2. 1 \in 1..n /\ (p \o q)[l + 1] = q[1] BY <1>1, <1>6, <2>2
    <3>3. q[1].addr = f.nextAddr BY <1>1, <1>4, <1>8, <3>2
    <3>4. (p \o q)[1].addr = f.nextAddr
      <4>1. l + 1 = 1 BY <2>2
      <4>2. (p \o q)[1] = q[1]
        <5> HIDE DEF p, q, l
        <5> QED BY <3>2, <4>1
      <4> HIDE DEF p, q
      <4> QED BY <4>2, <3>3
    <3>5. p \o q # <<>>
      <4> HIDE DEF p, q, next
      <4> QED BY <1>1, <1>6, <2>2
    <3> HIDE DEF p, q, next, g
    <3> QED BY <1>1, <2>0, <3>1, <3>4, <3>5 DEF SizePending
  <2>3. CASE l = 0 /\ n = 0
    <3>1. SizePending(f) = 0 BY <1>1, <2>3 DEF SizePending
    <3>2. p \o q = <<>>
      <4> HIDE DEF p, q, next
      <4> QED BY <1>1, <1>6, <2>3
    <3>3. next = f.nextAddr BY <1>2, <2>3
    <3> HIDE DEF p, q, next, g
    <3> QED BY <1>1, <2>0, <3>1, <3>2, <3>3 DEF SizePending
  <2> QED BY <1>1, <2>1, <2>2, <2>3
<1> HIDE DEF g, q, next
<1> QED BY <1>3, <1>5, <1>6, <1>10, <1>11 DEF g, next

\* A round that comes before another that goes on asks for no more room, and
\* there is a request for it.
LEMMA EarlierRound ==
  ASSUME NEW Val, NEW f \in FifoOf(Val),
         NEW j \in Nat, HasRequest(f, j), NEW i \in 1..j, i # j
  PROVE  /\ HasRequest(f, i)
         /\ Before(i) \in Nat /\ Before(j) \in Nat
         /\ ReqSize(f, i) \in Nat /\ ReqSize(f, j) \in Nat
         /\ ReqSize(f, j) >= 1
         /\ Before(i) + ReqSize(f, i) <= Before(j)
<1> DEFINE a == f.nextAddr
           e == f.endAddr
<1>1. a \in Nat /\ e \in Nat /\ Len(f.pending) \in Nat BY DEF FifoOf
<1>2. i \in Nat /\ i >= 1 /\ i < j /\ j >= 1 OBVIOUS
<1>3. Before(i) \in Nat /\ Before(j) \in Nat /\ Before(i) + MaxReqSize <= Before(j)
  BY <1>2, BeforeSteps
<1>4. a + Before(j) < e /\ Len(f.pending) + j <= MaxPending BY DEF HasRequest
<1>5. MaxReqSize \in Nat /\ MaxReqSize >= 1 /\ MaxPending \in Nat BY FifoAssumption
<1>6. a + Before(i) < e /\ Len(f.pending) + i <= MaxPending
  <2> HIDE DEF a, e
  <2> QED BY <1>1, <1>2, <1>3, <1>4, <1>5
<1>7. /\ ReqSize(f, i) = IF MaxReqSize < e - a - Before(i) THEN MaxReqSize ELSE e - a - Before(i)
      /\ ReqSize(f, j) = IF MaxReqSize < e - a - Before(j) THEN MaxReqSize ELSE e - a - Before(j)
  BY DEF ReqSize, Least
<1> HIDE DEF a, e
<1>8. /\ ReqSize(f, i) \in Nat /\ ReqSize(f, j) \in Nat /\ ReqSize(f, j) >= 1
      /\ Before(i) + ReqSize(f, i) <= Before(j)
  <2>1. PICK x \in Nat, y \in Nat : x = Before(i) /\ y = Before(j) BY <1>3
  <2>2. ReqSize(f, i) \in Nat /\ ReqSize(f, i) <= MaxReqSize
    <3>1. e - a - x \in Nat BY <1>1, <1>6, <2>1
    <3> QED BY <1>5, <1>7, <2>1, <3>1
  <2>3. ReqSize(f, j) \in Nat /\ ReqSize(f, j) >= 1
    <3>1. e - a - y \in Nat /\ e - a - y >= 1 BY <1>1, <1>4, <2>1
    <3> QED BY <1>5, <1>7, <2>1, <3>1
  <2>4. x + MaxReqSize <= y BY <1>3, <2>1
  <2>5. x + ReqSize(f, i) <= y BY <1>5, <2>2, <2>4
  <2> QED BY <2>1, <2>2, <2>3, <2>5
<1> QED BY <1>3, <1>6, <1>8 DEF HasRequest, a, e

\* The loop of resumeFill() issues requests as long as the answers to all that
\* are under way fit in the buffer.
LEMMA FillRounds ==
  ASSUME NEW Val, NEW f \in FifoOf(Val), Shape(f)
  PROVE  \E n : /\ CanIssue(f, n)
                /\ ResumeFill(f) = Issue(f, n, [i \in 1..n |-> <<>>])
                /\ Len(f.buffer) + SizePending(f) <= FifoSize =>
                     Len(f.buffer) + SizePending(f) + (NextAfter(f, n) - f.nextAddr)
                       <= FifoSize
<1> DEFINE S == {i \in 1..MaxPending : FillGoesOn(f, i)}
           n == Cardinality(S)
<1>0. /\ MaxPending \in Nat /\ FifoSize \in Nat /\ f.nextAddr \in Nat /\ f.endAddr \in Nat
      /\ Len(f.buffer) \in Nat /\ f.nextAddr <= f.endAddr
  BY FifoAssumption DEF FifoOf, Shape
<1>1. SizePending(f) \in Nat BY PendingBytes
<1>2. \A j \in S : \A i \in 1..j : i \in S
  <2> SUFFICES ASSUME NEW j \in S, NEW i \in 1..j, i # j PROVE FillGoesOn(f, i)
    BY <1>0
  <2>1. j \in Nat /\ HasRequest(f, j)
        /\ Len(f.buffer) + SizePending(f) + Before(j) + ReqSize(f, j) <= FifoSize
    BY <1>0 DEF FillGoesOn
  <2>2. /\ HasRequest(f, i)
        /\ Before(i) \in Nat /\ Before(j) \in Nat
        /\ ReqSize(f, i) \in Nat /\ ReqSize(f, j) \in Nat
        /\ Before(i) + ReqSize(f, i) <= Before(j)
    <3> HIDE DEF S
    <3> QED BY <2>1, EarlierRound
  <2>3. Len(f.buffer) + SizePending(f) + Before(i) + ReqSize(f, i) <= FifoSize
    <3>1. PICK x \in Nat, y \in Nat, u \in Nat, v \in Nat :
            x = Before(i) /\ y = Before(j) /\ u = ReqSize(f, i) /\ v = ReqSize(f, j)
      BY <2>2
    <3>2. PICK b \in Nat, s \in Nat : b = Len(f.buffer) /\ s = SizePending(f)
      BY <1>0, <1>1
    <3>3. b + s + y + v <= FifoSize /\ x + u <= y BY <2>1, <2>2, <3>1, <3>2
    <3>4. b + s + x + u <= FifoSize BY <1>0, <3>3
    <3> QED BY <3>1, <3>2, <3>4
  <2> QED BY <2>2, <2>3 DEF FillGoesOn
<1>3. n \in 0..MaxPending /\ S = 1..n
  <2>1. S \in SUBSET (1..MaxPending) OBVIOUS
  <2> HIDE DEF S
  <2> QED BY <1>0, <1>2, <2>1, NoGap
<1>4. \A i \in 1..n : FillGoesOn(f, i)
  <2>1. \A i \in S : FillGoesOn(f, i) OBVIOUS
  <2> HIDE DEF S
  <2> QED BY <1>3, <2>1
<1>5. CanIssue(f, n)
  <2> HIDE DEF S, n
  <2> QED BY <1>0, <1>3, <1>4 DEF CanIssue, FillGoesOn, HasRequest
<1>6. ResumeFill(f) = Issue(f, n, [i \in 1..n |-> <<>>]) BY DEF ResumeFill
<1> HIDE DEF n, S
<1>7. ASSUME Len(f.buffer) + SizePending(f) <= FifoSize
      PROVE  Len(f.buffer) + SizePending(f) + (NextAfter(f, n) - f.nextAddr) <= FifoSize
  <2>1. CASE n = 0
    <3>1. NextAfter(f, n) = f.nextAddr BY <1>0, <1>5, <2>1, Grid
    <3> QED BY <1>0, <1>1, <1>7, <3>1
  <2>2. CASE n > 0
    <3>1. n \in 1..n BY <1>3, <2>2
    <3>2. /\ f.nextAddr + Before(n) + ReqSize(f, n) = NextAfter(f, n)
          /\ Before(n) \in Nat /\ ReqSize(f, n) \in Nat
      BY <1>0, <1>5, <3>1, Grid
    <3>3. Len(f.buffer) + SizePending(f) + Before(n) + ReqSize(f, n) <= FifoSize
      BY <1>4, <3>1 DEF FillGoesOn
    <3> QED BY <1>0, <1>1, <3>2, <3>3
  <2> QED BY <1>3, <2>1, <2>2
<1> QED BY <1>5, <1>6, <1>7

\* The pieces of the buffer that n requests of a write FIFO take with them.
Pieces(f, n) ==
  [i \in 1..n |-> SubSeq(f.buffer, Before(i) + 1, Before(i) + ReqSize(f, i))]

\* The loop of resumeEmpty() issues requests only for bytes that are in the
\* buffer.
LEMMA EmptyRounds ==
  ASSUME NEW Val, NEW f \in FifoOf(Val), Shape(f)
  PROVE  \E n : /\ CanIssue(f, n)
                /\ ResumeEmpty(f) =
                     [Issue(f, n, Pieces(f, n)) EXCEPT
                        !.buffer = SubSeq(@, (NextAfter(f, n) - f.nextAddr) + 1, Len(@))]
                /\ NextAfter(f, n) - f.nextAddr <= Len(f.buffer)
<1> DEFINE S == {i \in 1..MaxPending : EmptyGoesOn(f, i)}
           n == Cardinality(S)
<1>0. /\ MaxPending \in Nat /\ FifoSize \in Nat /\ f.nextAddr \in Nat /\ f.endAddr \in Nat
      /\ Len(f.buffer) \in Nat /\ f.nextAddr <= f.endAddr
  BY FifoAssumption DEF FifoOf, Shape
<1>1. SizePending(f) \in Nat BY PendingBytes
<1>2. \A j \in S : \A i \in 1..j : i \in S
  <2> SUFFICES ASSUME NEW j \in S, NEW i \in 1..j, i # j PROVE EmptyGoesOn(f, i)
    BY <1>0
  <2>1. j \in Nat /\ HasRequest(f, j)
        /\ (Len(f.buffer) - Before(j)) - (SizePending(f) + Before(j)) - ReqSize(f, j) >= 0
    BY <1>0 DEF EmptyGoesOn
  <2>2. /\ HasRequest(f, i)
        /\ Before(i) \in Nat /\ Before(j) \in Nat
        /\ ReqSize(f, i) \in Nat /\ ReqSize(f, j) \in Nat
        /\ Before(i) + ReqSize(f, i) <= Before(j)
    <3> HIDE DEF S
    <3> QED BY <2>1, EarlierRound
  <2>3. (Len(f.buffer) - Before(i)) - (SizePending(f) + Before(i)) - ReqSize(f, i) >= 0
    <3>1. PICK x \in Nat, y \in Nat, u \in Nat, v \in Nat :
            x = Before(i) /\ y = Before(j) /\ u = ReqSize(f, i) /\ v = ReqSize(f, j)
      BY <2>2
    <3>2. PICK b \in Nat, s \in Nat : b = Len(f.buffer) /\ s = SizePending(f)
      BY <1>0, <1>1
    <3>3. (b - y) - (s + y) - v >= 0 /\ x + u <= y BY <2>1, <2>2, <3>1, <3>2
    <3>4. (b - x) - (s + x) - u >= 0 BY <3>3
    <3> QED BY <3>1, <3>2, <3>4
  <2> QED BY <2>2, <2>3 DEF EmptyGoesOn
<1>3. n \in 0..MaxPending /\ S = 1..n
  <2>1. S \in SUBSET (1..MaxPending) OBVIOUS
  <2> HIDE DEF S
  <2> QED BY <1>0, <1>2, <2>1, NoGap
<1>4. \A i \in 1..n : EmptyGoesOn(f, i)
  <2>1. \A i \in S : EmptyGoesOn(f, i) OBVIOUS
  <2> HIDE DEF S
  <2> QED BY <1>3, <2>1
<1>5. CanIssue(f, n)
  <2> HIDE DEF S, n
  <2> QED BY <1>0, <1>3, <1>4 DEF CanIssue, EmptyGoesOn, HasRequest
<1>6. NextAfter(f, n) - f.nextAddr = Least(n * MaxReqSize, f.endAddr - f.nextAddr)
  <2> HIDE DEF n
  <2> QED BY <1>0, <1>5, Grid
<1>7. ResumeEmpty(f) =
        [Issue(f, n, Pieces(f, n)) EXCEPT
           !.buffer = SubSeq(@, (NextAfter(f, n) - f.nextAddr) + 1, Len(@))]
  BY <1>6 DEF ResumeEmpty, Pieces
<1> HIDE DEF n, S
<1>8. NextAfter(f, n) - f.nextAddr <= Len(f.buffer)
  <2>1. CASE n = 0
    <3>1. NextAfter(f, n) = f.nextAddr BY <1>0, <1>5, <2>1, Grid
    <3> QED BY <1>0, <3>1
  <2>2. CASE n > 0
    <3>1. n \in 1..n BY <1>3, <2>2
    <3>2. /\ f.nextAddr + Before(n) + ReqSize(f, n) = NextAfter(f, n)
          /\ Before(n) \in Nat /\ ReqSize(f, n) \in Nat
      BY <1>0, <1>5, <3>1, Grid
    <3>3. (Len(f.buffer) - Before(n)) - (SizePending(f) + Before(n)) - ReqSize(f, n) >= 0
      BY <1>4, <3>1 DEF EmptyGoesOn
    <3> QED BY <1>0, <1>1, <3>2, <3>3
  <2> QED BY <1>3, <2>1, <2>2
<1> QED BY <1>5, <1>7, <1>8

(***************************************************************************)
(* Retiring requests                                                       *)
(***************************************************************************)

\* handlePending() retires requests of the front of the list that are done, and
\* no others.
LEMMA RetiredAreDone ==
  ASSUME NEW Val, NEW f \in FifoOf(Val)
  PROVE  /\ Retired(f) \in 0..Len(f.pending)
         /\ \A i \in 1..Retired(f) : f.pending[i].done
<1> DEFINE S == {n \in 1..Len(f.pending) : \A i \in 1..n : f.pending[i].done}
<1>1. Len(f.pending) \in Nat BY DEF FifoOf
<1>2. S \in SUBSET (1..Len(f.pending)) OBVIOUS
<1>3. \A j \in S : \A i \in 1..j : i \in S BY <1>1
<1>4. Retired(f) = Cardinality(S) BY DEF Retired
<1>5. Retired(f) \in 0..Len(f.pending) /\ S = 1..Retired(f)
  <2> HIDE DEF S
  <2> QED BY <1>1, <1>2, <1>3, <1>4, NoGap
<1>6. \A i \in S : f.pending[i].done BY <1>1
<1> HIDE DEF S
<1> QED BY <1>5, <1>6

\* The requests that stay after n were retired are tiled as before.
LEMMA RetireTiled ==
  ASSUME NEW Val, NEW p \in Seq(RequestOf(Val)), NEW next \in Nat, Tiled(p, next),
         NEW n \in 0..Len(p)
  PROVE  LET q == SubSeq(p, n + 1, Len(p))
         IN  /\ q \in Seq(RequestOf(Val)) /\ Len(q) = Len(p) - n /\ Tiled(q, next)
             /\ \A i \in 1..(Len(p) - n) : n + i \in 1..Len(p) /\ q[i] = p[n + i]
<1> DEFINE q == SubSeq(p, n + 1, Len(p))
           m == Len(p) - n
<1>1. Len(p) \in Nat /\ m \in Nat OBVIOUS
<1>2. q \in Seq(RequestOf(Val)) /\ Len(q) = m
      /\ \A i \in 1..m : n + i \in 1..Len(p) /\ q[i] = p[n + i]
  OBVIOUS
<1>3. \A i \in 1..m : /\ q[i].size >= 1 /\ q[i].addr + q[i].size <= next
  <2> HIDE DEF q
  <2> QED BY <1>2 DEF Tiled
<1>4. \A i, j \in 1..m : i < j => q[i].addr + q[i].size <= q[j].addr
  <2> SUFFICES ASSUME NEW i \in 1..m, NEW j \in 1..m, i < j
               PROVE  q[i].addr + q[i].size <= q[j].addr OBVIOUS
  <2>1. n + i \in 1..Len(p) /\ n + j \in 1..Len(p) /\ n + i < n + j
        /\ q[i] = p[n + i] /\ q[j] = p[n + j]
    BY <1>1, <1>2
  <2> HIDE DEF q
  <2> QED BY <2>1 DEF Tiled
<1>5. \A i \in 1..m : q[i].addr + q[i].size = IF i = m THEN next ELSE q[i + 1].addr
  <2> SUFFICES ASSUME NEW i \in 1..m
               PROVE  q[i].addr + q[i].size = IF i = m THEN next ELSE q[i + 1].addr
    OBVIOUS
  <2>1. n + i \in 1..Len(p) /\ q[i] = p[n + i] BY <1>2
  <2>2. p[n + i].addr + p[n + i].size =
          IF n + i = Len(p) THEN next ELSE p[(n + i) + 1].addr
    BY <2>1 DEF Tiled
  <2>3. n + i = Len(p) <=> i = m BY <1>1
  <2>4. i # m => i + 1 \in 1..m /\ n + (i + 1) = (n + i) + 1 BY <1>1
  <2>5. i # m => q[i + 1] = p[(n + i) + 1] BY <1>2, <2>4
  <2> HIDE DEF q, m
  <2> QED BY <2>1, <2>2, <2>3, <2>5
<1> HIDE DEF q
<1> QED BY <1>2, <1>3, <1>4, <1>5 DEF Tiled, q

\* V holds a block of m values.
IsBlock(Val, V, m) == \A k \in 0..(m - 1) : V[k] \in Val

\* The answer data holds what request q asks for of block V at base.
Answers(data, q, V, base) ==
  /\ Len(data) = q.size
  /\ \A k \in 1..Len(data) : data[k] = V[q.addr - base + k - 1]

\* The data of request q is its part of block V at base.
HoldsBytes(q, V, base) ==
  /\ Len(q.data) = q.size
  /\ \A k \in 1..q.size : q.data[k] = V[q.addr - base + k - 1]

\* The first n requests of f do so, and lie in the block.
FrontHolds(f, n, V, base) ==
  \A i \in 1..n : HoldsBytes(f.pending[i], V, base) /\ base <= f.pending[i].addr

\* The bytes in the first i requests of p.
Past(p, i) == IF i = 0 THEN 0 ELSE p[i].addr + p[i].size - p[1].addr

\* The data of the first n requests together is the part of the block that
\* starts with the first one: the copies of handlePending() put the bytes into
\* the buffer in the order of their addresses.
LEMMA RetiredBytes ==
  ASSUME NEW Val, NEW f \in FifoOf(Val), Shape(f),
         NEW base \in Int, NEW m \in Nat, NEW V, IsBlock(Val, V, m),
         NEW n \in 0..Len(f.pending), f.nextAddr <= base + m,
         FrontHolds(f, n, V, base)
  PROVE  LET d == RetiredData(f, n)
         IN  /\ d \in Seq(Val) /\ Len(d) = Past(f.pending, n)
             /\ \A k \in 1..Len(d) : d[k] = V[f.pending[1].addr - base + k - 1]
<1> DEFINE p == f.pending
           a == p[1].addr - base
           F == [i \in 0..n |-> [k \in 1..Past(p, i) |-> V[a + k - 1]]]
<1>0. f.nextAddr \in Nat /\ p \in Seq(RequestOf(Val)) /\ Len(p) \in Nat /\ n \in Nat
  BY DEF FifoOf
<1>1. \A i \in 1..n : p[i].addr \in Nat /\ p[i].size \in Nat /\ p[i].data \in Seq(Val)
  <2>1. \A i \in 1..n : p[i] \in RequestOf(Val) BY <1>0
  <2> HIDE DEF p
  <2> QED BY <2>1 DEF RequestOf
<1>2. \A i \in 1..n :
        /\ p[i].addr + p[i].size <= base + m /\ base <= p[i].addr
        /\ i > 1 => p[1].addr + p[1].size <= p[i].addr
        /\ i > 1 => p[i - 1].addr + p[i - 1].size = p[i].addr
  <2> SUFFICES ASSUME NEW i \in 1..n
               PROVE  /\ p[i].addr + p[i].size <= base + m /\ base <= p[i].addr
                      /\ i > 1 => p[1].addr + p[1].size <= p[i].addr
                      /\ i > 1 => p[i - 1].addr + p[i - 1].size = p[i].addr
    OBVIOUS
  <2>1. i \in 1..Len(p) /\ 1 \in 1..Len(p) BY <1>0
  <2>2. p[i].addr + p[i].size <= f.nextAddr BY <2>1 DEF Shape, Tiled
  <2>3. i > 1 => p[1].addr + p[1].size <= p[i].addr BY <2>1 DEF Shape, Tiled
  <2>4. i > 1 => i - 1 \in 1..Len(p) /\ i - 1 # Len(p) /\ (i - 1) + 1 = i BY <1>0, <2>1
  <2>5. i > 1 => p[i - 1].addr + p[i - 1].size = p[(i - 1) + 1].addr
    BY <2>4 DEF Shape, Tiled
  <2>6. base <= p[i].addr BY DEF FrontHolds
  <2>7. p[i].addr \in Nat /\ p[i].size \in Nat BY <1>1
  <2> HIDE DEF p
  <2> QED BY <1>0, <2>2, <2>3, <2>4, <2>5, <2>6, <2>7
<1>3. \A i \in 1..n : /\ Past(p, i) \in Nat /\ Past(p, i - 1) \in Nat
                      /\ Past(p, i) = Past(p, i - 1) + p[i].size
                      /\ p[i].addr - base = a + Past(p, i - 1)
                      /\ a \in Nat /\ a + Past(p, i) <= m
  <2> SUFFICES ASSUME NEW i \in 1..n
               PROVE  /\ Past(p, i) \in Nat /\ Past(p, i - 1) \in Nat
                      /\ Past(p, i) = Past(p, i - 1) + p[i].size
                      /\ p[i].addr - base = a + Past(p, i - 1)
                      /\ a \in Nat /\ a + Past(p, i) <= m
    OBVIOUS
  <2>1. 1 \in 1..n /\ i \in Nat /\ (i > 1 => i - 1 \in 1..n) /\ i # 0 BY <1>0
  <2>2. /\ p[i].addr \in Nat /\ p[i].size \in Nat /\ p[1].addr \in Nat /\ p[1].size \in Nat
        /\ i > 1 => p[i - 1].addr \in Nat /\ p[i - 1].size \in Nat
    BY <1>1, <2>1
  <2>3. base <= p[1].addr /\ base <= p[i].addr BY <1>2, <2>1
  <2>4. /\ p[i].addr + p[i].size <= base + m
        /\ i > 1 => p[1].addr + p[1].size <= p[i].addr
        /\ i > 1 => p[i - 1].addr + p[i - 1].size = p[i].addr
    BY <1>2, <2>1
  <2>5. Past(p, i) = p[i].addr + p[i].size - p[1].addr BY <2>1 DEF Past
  <2>6. Past(p, i - 1) = IF i = 1 THEN 0 ELSE p[i - 1].addr + p[i - 1].size - p[1].addr
    BY <2>1 DEF Past
  <2> DEFINE x1 == p[1].addr
             s1 == p[1].size
             xi == p[i].addr
             si == p[i].size
             xj == p[i - 1].addr
             sj == p[i - 1].size
             P == Past(p, i)
             Q == Past(p, i - 1)
  <2>7. i = 1 => xi = x1 /\ si = s1 OBVIOUS
  <2>8. a = x1 - base OBVIOUS
  <2> HIDE DEF a, p, x1, s1, xi, si, xj, sj, P, Q
  <2>9. CASE i = 1
    <3>1. P = xi + si - x1 /\ Q = 0 BY <2>5, <2>6, <2>9 DEF P, Q, xi, si, x1
    <3>2. x1 \in Nat /\ xi = x1 /\ si \in Nat /\ base <= x1 /\ xi + si <= base + m
      BY <2>2, <2>3, <2>4, <2>7, <2>9 DEF xi, si, x1, s1
    <3>3. P \in Nat /\ Q \in Nat /\ P = Q + si /\ xi - base = a + Q
          /\ a \in Nat /\ a + P <= m
      BY <2>8, <3>1, <3>2
    <3> QED BY <3>3 DEF P, Q, xi, si
  <2>10. CASE i > 1
    <3>1. P = xi + si - x1 /\ Q = xj + sj - x1
      BY <2>5, <2>6, <2>10 DEF P, Q, xi, si, x1, xj, sj
    <3>2. /\ x1 \in Nat /\ s1 \in Nat /\ xi \in Nat /\ si \in Nat /\ xj \in Nat /\ sj \in Nat
          /\ base <= x1 /\ xi + si <= base + m /\ x1 + s1 <= xi /\ xj + sj = xi
      BY <2>2, <2>3, <2>4, <2>10 DEF xi, si, x1, s1, xj, sj
    <3>3. P \in Nat /\ Q \in Nat /\ P = Q + si /\ xi - base = a + Q
          /\ a \in Nat /\ a + P <= m
      BY <2>8, <3>1, <3>2
    <3> QED BY <3>3 DEF P, Q, xi, si
  <2> QED BY <2>1, <2>9, <2>10
<1>4. Past(p, 0) = 0 BY DEF Past
<1>5. \A i \in 0..n : F[i] \in Seq(Val) /\ Len(F[i]) = Past(p, i)
                      /\ \A k \in 1..Past(p, i) : F[i][k] = V[a + k - 1]
  <2> SUFFICES ASSUME NEW i \in 0..n
               PROVE  F[i] \in Seq(Val) /\ Len(F[i]) = Past(p, i)
                      /\ \A k \in 1..Past(p, i) : F[i][k] = V[a + k - 1]
    OBVIOUS
  <2>1. F[i] = [k \in 1..Past(p, i) |-> V[a + k - 1]] OBVIOUS
  <2>2. Past(p, i) \in Nat BY <1>0, <1>3, <1>4
  <2>3. \A k \in 1..Past(p, i) : V[a + k - 1] \in Val
    <3>1. CASE i = 0 BY <1>4, <3>1
    <3>2. CASE i # 0
      <4>1. a \in Nat /\ a + Past(p, i) <= m BY <1>0, <1>3, <3>2
      <4> HIDE DEF a, p
      <4>2. \A k \in 1..Past(p, i) : a + k - 1 \in 0..(m - 1) BY <2>2, <4>1
      <4> QED BY <4>2 DEF IsBlock
    <3> QED BY <3>1, <3>2
  <2> HIDE DEF F, a, p
  <2> QED BY <2>1, <2>2, <2>3
<1>6. \A i \in 1..n : F[i] = F[i - 1] \o p[i].data
  <2> SUFFICES ASSUME NEW i \in 1..n PROVE F[i] = F[i - 1] \o p[i].data OBVIOUS
  <2> DEFINE b == Past(p, i - 1)
             d == p[i].data
             sz == p[i].size
  <2>1. i \in 0..n /\ i - 1 \in 0..n BY <1>0
  <2>2. /\ Past(p, i) \in Nat /\ b \in Nat /\ Past(p, i) = b + sz
        /\ p[i].addr - base = a + b /\ a \in Nat /\ sz \in Nat /\ d \in Seq(Val)
    BY <1>1, <1>3
  <2>3. /\ F[i] \in Seq(Val) /\ Len(F[i]) = b + sz
        /\ \A k \in 1..(b + sz) : F[i][k] = V[a + k - 1]
    BY <1>5, <2>1, <2>2
  <2>4. /\ F[i - 1] \in Seq(Val) /\ Len(F[i - 1]) = b
        /\ \A k \in 1..b : F[i - 1][k] = V[a + k - 1]
    BY <1>5, <2>1
  <2>5. Len(d) = sz /\ \A k \in 1..sz : d[k] = V[p[i].addr - base + k - 1]
    BY DEF FrontHolds, HoldsBytes
  <2>6. \A k \in 1..sz : d[k] = V[a + b + k - 1] BY <2>2, <2>5
  <2> DEFINE x == F[i]
             y == F[i - 1]
  <2> HIDE DEF F, a, p, b, d, sz, x, y
  <2>7. /\ y \o d \in Seq(Val) /\ Len(y \o d) = b + sz
        /\ \A k \in 1..b : (y \o d)[k] = y[k]
        /\ \A k \in 1..(b + sz) : k > b => k - b \in 1..sz /\ (y \o d)[k] = d[k - b]
    <3>1. y \in Seq(Val) /\ Len(y) = b /\ d \in Seq(Val) /\ Len(d) = sz
      BY <2>2, <2>4, <2>5 DEF y
    <3>2. /\ y \o d \in Seq(Val) /\ Len(y \o d) = Len(y) + Len(d)
          /\ \A k \in 1..Len(y) : (y \o d)[k] = y[k] /\ k \in 1..Len(y \o d)
          /\ \A k \in 1..(Len(y) + Len(d)) :
               k > Len(y) => k - Len(y) \in 1..Len(d) /\ (y \o d)[k] = d[k - Len(y)]
      BY <3>1, Joined
    <3> QED BY <3>1, <3>2
  <2>8. \A k \in 1..(b + sz) : (y \o d)[k] = x[k]
    <3> SUFFICES ASSUME NEW k \in 1..(b + sz) PROVE (y \o d)[k] = x[k] OBVIOUS
    <3>1. CASE k <= b
      <4>1. k \in 1..b BY <2>2, <3>1
      <4> QED BY <2>3, <2>4, <2>7, <4>1 DEF x, y
    <3>2. CASE k > b
      <4>1. k - b \in 1..sz /\ (y \o d)[k] = d[k - b] BY <2>7, <3>2
      <4>2. d[k - b] = V[a + b + (k - b) - 1] BY <2>6, <4>1
      <4>3. a + b + (k - b) - 1 = a + k - 1 BY <2>2
      <4>4. x[k] = V[a + k - 1] BY <2>3 DEF x
      <4> QED BY <4>1, <4>2, <4>3, <4>4
    <3>3. b \in Nat /\ sz \in Nat BY <2>2
    <3>4. k <= b \/ k > b BY <3>3
    <3> QED BY <3>1, <3>2, <3>4
  <2>9. x \in Seq(Val) /\ Len(x) = b + sz BY <2>3 DEF x
  <2>10. x = y \o d BY <2>7, <2>8, <2>9, SeqEqual
  <2> QED BY <2>10 DEF x, y, d
<1> DEFINE Sums(g) == g = [i \in 0..n |-> IF i = 0 THEN <<>> ELSE g[i - 1] \o p[i].data]
           up == CHOOSE g : Sums(g)
<1>7. RetiredData(f, n) = up[n] BY DEF RetiredData
<1>8. F[0] = <<>>
  <2>1. F[0] \in Seq(Val) /\ Len(F[0]) = 0 BY <1>0, <1>4, <1>5
  <2> HIDE DEF F
  <2> QED BY <2>1
<1>9. Sums(F)
  <2>1. F = [i \in 0..n |-> F[i]] OBVIOUS
  <2>2. \A i \in 0..n : F[i] = IF i = 0 THEN <<>> ELSE F[i - 1] \o p[i].data
    <3> SUFFICES ASSUME NEW i \in 0..n
                 PROVE  F[i] = IF i = 0 THEN <<>> ELSE F[i - 1] \o p[i].data
      OBVIOUS
    <3>1. i # 0 => i \in 1..n BY <1>0
    <3> HIDE DEF F, p
    <3> QED BY <1>6, <1>8, <3>1
  <2> HIDE DEF F
  <2> QED BY <2>1, <2>2
<1>10. Sums(up)
  <2> HIDE DEF Sums, F
  <2> QED BY <1>9 DEF up
<1>11. \A i \in 0..n : up[i] = IF i = 0 THEN <<>> ELSE up[i - 1] \o p[i].data
  <2> HIDE DEF up, p
  <2> QED BY <1>10
<1> DEFINE S == {i \in 1..n : up[i] = F[i]}
<1>12. up[0] = F[0]
  <2> HIDE DEF up, F
  <2> QED BY <1>0, <1>8, <1>11
<1> HIDE DEF F, up, p
<1>13. S = 1..n
  <2>1. S \in SUBSET (1..n) OBVIOUS
  <2>2. \A i \in 1..n : (1..(i - 1)) \subseteq S => i \in S
    <3> SUFFICES ASSUME NEW i \in 1..n, (1..(i - 1)) \subseteq S PROVE up[i] = F[i]
      OBVIOUS
    <3>1. up[i - 1] = F[i - 1]
      <4>1. CASE i = 1
        <5>1. i - 1 = 0 BY <4>1
        <5> QED BY <1>12, <5>1
      <4>2. CASE i # 1
        <5>1. i - 1 \in 1..(i - 1) BY <4>2
        <5> QED BY <5>1
      <4> QED BY <4>1, <4>2
    <3>2. i \in 0..n /\ i # 0 BY <1>0
    <3> QED BY <1>6, <1>11, <3>1, <3>2
  <2> HIDE DEF S
  <2> QED BY <1>0, <2>1, <2>2, GoRound
<1>14. up[n] = F[n]
  <2>1. CASE n = 0 BY <1>12, <2>1
  <2>2. CASE n # 0
    <3>1. n \in 1..n BY <1>0, <2>2
    <3> QED BY <1>13, <3>1
  <2> QED BY <2>1, <2>2
<1> HIDE DEF S, Sums
<1>15. n \in 0..n BY <1>0
<1> QED BY <1>5, <1>7, <1>14, <1>15 DEF p

\* The i-th request of f becomes q.
Updated(f, i, q) == [f EXCEPT !.pending[i] = q]

\* An answer changes neither the place nor the size of a request.
LEMMA AnswerShape ==
  ASSUME NEW Val, NEW f \in FifoOf(Val), Shape(f), NEW i \in 1..Len(f.pending),
         NEW q \in RequestOf(Val), q.addr = f.pending[i].addr, q.size = f.pending[i].size,
         NEW g, g = Updated(f, i, q)
  PROVE  /\ g \in FifoOf(Val) /\ Shape(g)
         /\ g.buffer = f.buffer /\ g.nextAddr = f.nextAddr /\ g.endAddr = f.endAddr
         /\ Len(g.pending) = Len(f.pending)
         /\ g.pending[i] = q
         /\ \A j \in 1..Len(f.pending) : j # i => g.pending[j] = f.pending[j]
         /\ \A j \in 1..Len(f.pending) : /\ g.pending[j].addr = f.pending[j].addr
                                         /\ g.pending[j].size = f.pending[j].size
         /\ SizePending(g) = SizePending(f)
<1> DEFINE p == f.pending
           r == [p EXCEPT ![i] = q]
<1>1. p \in Seq(RequestOf(Val)) /\ f.buffer \in Seq(Val) /\ f.nextAddr \in Nat
      /\ f.endAddr \in Nat /\ Len(p) \in Nat
  BY DEF FifoOf
<1>2. r \in Seq(RequestOf(Val)) /\ Len(r) = Len(p)
      /\ \A j \in 1..Len(p) : r[j] = IF j = i THEN q ELSE p[j]
  <2> HIDE DEF p
  <2> QED BY <1>1 DEF p
<1> HIDE DEF r
<1>3. g = [buffer |-> f.buffer, nextAddr |-> f.nextAddr, endAddr |-> f.endAddr,
           pending |-> r]
  <2>1. g = [f EXCEPT !.pending = r] BY DEF r, Updated
  <2>2. DOMAIN g = {"buffer", "nextAddr", "endAddr", "pending"} BY <2>1 DEF FifoOf
  <2>3. g.buffer = f.buffer /\ g.nextAddr = f.nextAddr /\ g.endAddr = f.endAddr
        /\ g.pending = r
    BY <2>1 DEF FifoOf
  <2>4. g = [s \in {"buffer", "nextAddr", "endAddr", "pending"} |-> g[s]]
    BY <2>1 DEF FifoOf
  <2> QED BY <2>3, <2>4
<1>4. \A j \in 1..Len(p) : r[j].addr = p[j].addr /\ r[j].size = p[j].size BY <1>2
<1>5. Tiled(r, f.nextAddr)
  <2>1. Tiled(p, f.nextAddr) BY DEF Shape
  <2>2. \A j \in 1..Len(p) : j # Len(p) => j + 1 \in 1..Len(p) BY <1>1
  <2> HIDE DEF p
  <2> QED BY <1>2, <1>4, <2>1, <2>2 DEF Tiled
<1>6. g \in FifoOf(Val) /\ Shape(g)
  <2> HIDE DEF p
  <2> QED BY <1>1, <1>2, <1>3, <1>5 DEF FifoOf, Shape
<1>7. SizePending(g) = SizePending(f)
  <2>1. p # <<>> /\ r # <<>> /\ 1 \in 1..Len(p) BY <1>1, <1>2
  <2>2. r[1].addr = p[1].addr BY <1>4, <2>1
  <2>3. g.pending = r /\ g.nextAddr = f.nextAddr BY <1>3
  <2> QED BY <2>1, <2>2, <2>3 DEF SizePending
<1>8. g.buffer = f.buffer /\ g.nextAddr = f.nextAddr /\ g.endAddr = f.endAddr
      /\ g.pending = r
  BY <1>3
<1>9. g.pending[i] = q /\ \A j \in 1..Len(p) : j # i => g.pending[j] = p[j]
  BY <1>2, <1>8
<1> QED BY <1>2, <1>4, <1>6, <1>7, <1>8, <1>9

\* Retiring n requests takes their bytes off those under way.
LEMMA RetireSize ==
  ASSUME NEW Val, NEW f \in FifoOf(Val), Shape(f), NEW n \in 0..Len(f.pending),
         NEW g \in FifoOf(Val), g.nextAddr = f.nextAddr,
         g.pending = SubSeq(f.pending, n + 1, Len(f.pending))
  PROVE  SizePending(f) = SizePending(g) + Past(f.pending, n)
<1> DEFINE p == f.pending
           q == g.pending
<1>1. p \in Seq(RequestOf(Val)) /\ Len(p) \in Nat /\ f.nextAddr \in Nat BY DEF FifoOf
<1>2. /\ q \in Seq(RequestOf(Val)) /\ Len(q) = Len(p) - n
      /\ \A i \in 1..(Len(p) - n) : n + i \in 1..Len(p) /\ q[i] = p[n + i]
  BY <1>1, RetireTiled DEF Shape
<1>3. \A i \in 1..Len(p) : p[i].addr \in Nat /\ p[i].size \in Nat
  <2>1. \A i \in 1..Len(p) : p[i] \in RequestOf(Val) BY <1>1
  <2> HIDE DEF p
  <2> QED BY <2>1 DEF RequestOf
<1>4. \A i \in 1..Len(p) :
        p[i].addr + p[i].size = IF i = Len(p) THEN f.nextAddr ELSE p[i + 1].addr
  BY DEF Shape, Tiled
<1>5. SizePending(f) = IF p = <<>> THEN 0 ELSE f.nextAddr - p[1].addr BY DEF SizePending
<1>6. SizePending(g) = IF q = <<>> THEN 0 ELSE f.nextAddr - q[1].addr BY DEF SizePending
<1> HIDE DEF p, q
<1>7. CASE n = 0
  <2>1. Past(p, n) = 0 BY <1>7 DEF Past
  <2>2. p = <<>> <=> q = <<>> BY <1>1, <1>2, <1>7
  <2>3. p # <<>> => 1 \in 1..Len(p) /\ q[1] = p[1]
    <3> SUFFICES ASSUME p # <<>> PROVE 1 \in 1..Len(p) /\ q[1] = p[1] OBVIOUS
    <3>1. 1 \in 1..(Len(p) - n) /\ n + 1 = 1 /\ 1 \in 1..Len(p) BY <1>1, <1>7
    <3>2. q[1] = p[n + 1] BY <1>2, <3>1
    <3> QED BY <3>1, <3>2
  <2>4. p # <<>> => p[1].addr \in Nat BY <1>3, <2>3
  <2>5. CASE p = <<>> BY <1>5, <1>6, <2>1, <2>2, <2>5 DEF p
  <2>6. CASE p # <<>>
    <3>1. SizePending(f) = f.nextAddr - p[1].addr /\ SizePending(g) = f.nextAddr - p[1].addr
      BY <1>5, <1>6, <2>2, <2>3, <2>6
    <3>2. SizePending(f) = SizePending(g) + Past(p, n)
      BY <1>1, <2>1, <2>4, <2>6, <3>1
    <3> QED BY <3>2 DEF p
  <2> QED BY <2>5, <2>6
<1>8. CASE n # 0
  <2>1. n \in 1..Len(p) /\ 1 \in 1..Len(p) /\ p # <<>> BY <1>1, <1>8 DEF p
  <2>2. Past(p, n) = p[n].addr + p[n].size - p[1].addr BY <1>8 DEF Past
  <2>3. SizePending(f) = f.nextAddr - p[1].addr BY <1>5, <2>1
  <2>4. p[1].addr \in Nat /\ p[n].addr \in Nat /\ p[n].size \in Nat BY <1>3, <2>1
  <2>5. SizePending(g) = f.nextAddr - (p[n].addr + p[n].size)
    <3>1. CASE n = Len(p)
      <4>1. q = <<>> BY <1>1, <1>2, <3>1
      <4>2. p[n].addr + p[n].size = f.nextAddr BY <1>4, <2>1, <3>1
      <4> QED BY <1>1, <1>6, <4>1, <4>2
    <3>2. CASE n # Len(p)
      <4>1. 1 \in 1..(Len(p) - n) BY <1>1, <2>1, <3>2
      <4>2. q # <<>> BY <1>2, <4>1
      <4>3. q[1] = p[n + 1] BY <1>2, <4>1
      <4>4. p[n].addr + p[n].size = p[n + 1].addr BY <1>4, <2>1, <3>2
      <4> QED BY <1>1, <1>6, <4>2, <4>3, <4>4
    <3> QED BY <3>1, <3>2
  <2>6. SizePending(f) = SizePending(g) + Past(p, n) BY <1>1, <2>2, <2>3, <2>4, <2>5
  <2> QED BY <2>6 DEF p
<1> QED BY <1>7, <1>8

(***************************************************************************)
(* The read FIFO                                                           *)
(***************************************************************************)

\* The address of the byte that tryGet() returns next.
ReadPos(f) == f.nextAddr - SizePending(f) - Len(f.buffer)

\* f has prefetched bytes of block V at base, of m bytes: those in the buffer
\* and in the answered requests are in their place, and all fit in the buffer.
GoodRead(Val, V, m, base, f) ==
  /\ f \in FifoOf(Val) /\ Shape(f)
  /\ f.endAddr = base + m /\ base <= ReadPos(f)
  /\ Len(f.buffer) + SizePending(f) <= FifoSize
  /\ \A k \in 1..Len(f.buffer) : f.buffer[k] = V[ReadPos(f) - base + k - 1]
  /\ \A i \in 1..Len(f.pending) :
       f.pending[i].done => HoldsBytes(f.pending[i], V, base)

\* What the arithmetic of the later proofs needs of a read FIFO.
LEMMA ReadNumbers ==
  ASSUME NEW Val, NEW f \in FifoOf(Val), Shape(f)
  PROVE  /\ f.nextAddr \in Nat /\ f.endAddr \in Nat /\ f.nextAddr <= f.endAddr
         /\ Len(f.buffer) \in Nat /\ SizePending(f) \in Nat
         /\ ReadPos(f) \in Int
         /\ ReadPos(f) + Len(f.buffer) + SizePending(f) = f.nextAddr
         /\ f.buffer \in Seq(Val) /\ f.pending \in Seq(RequestOf(Val))
         /\ Len(f.pending) \in Nat
         /\ \A i \in 1..Len(f.pending) :
              /\ f.pending[i] \in RequestOf(Val)
              /\ f.pending[i].addr \in Nat /\ f.pending[i].size \in Nat
              /\ f.pending[i].data \in Seq(Val) /\ f.pending[i].done \in BOOLEAN
              /\ f.pending[1].addr <= f.pending[i].addr
              /\ f.pending[i].addr + f.pending[i].size <= f.nextAddr
              /\ ReadPos(f) <= f.pending[i].addr
<1>1. /\ f.nextAddr \in Nat /\ f.endAddr \in Nat /\ f.nextAddr <= f.endAddr
      /\ f.buffer \in Seq(Val) /\ f.pending \in Seq(RequestOf(Val))
      /\ Len(f.buffer) \in Nat /\ Len(f.pending) \in Nat
  BY DEF FifoOf, Shape
<1>2. SizePending(f) \in Nat BY PendingBytes
<1>3. ReadPos(f) \in Int /\ ReadPos(f) + Len(f.buffer) + SizePending(f) = f.nextAddr
  BY <1>1, <1>2 DEF ReadPos
<1>4. ASSUME NEW i \in 1..Len(f.pending)
      PROVE  /\ f.pending[i] \in RequestOf(Val)
             /\ f.pending[i].addr \in Nat /\ f.pending[i].size \in Nat
             /\ f.pending[i].data \in Seq(Val) /\ f.pending[i].done \in BOOLEAN
             /\ f.pending[1].addr <= f.pending[i].addr
             /\ f.pending[i].addr + f.pending[i].size <= f.nextAddr
             /\ ReadPos(f) <= f.pending[i].addr
  <2>1. f.pending[i] \in RequestOf(Val) /\ f.pending[1] \in RequestOf(Val)
        /\ 1 \in 1..Len(f.pending) /\ f.pending # <<>>
    BY <1>1
  <2>2. /\ f.pending[i].addr \in Nat /\ f.pending[i].size \in Nat
        /\ f.pending[i].data \in Seq(Val) /\ f.pending[i].done \in BOOLEAN
        /\ f.pending[1].addr \in Nat /\ f.pending[1].size \in Nat
    BY <2>1 DEF RequestOf
  <2>3. f.pending[i].addr + f.pending[i].size <= f.nextAddr
    BY DEF Shape, Tiled
  <2>4. 1 < i => f.pending[1].addr + f.pending[1].size <= f.pending[i].addr
    BY <2>1 DEF Shape, Tiled
  <2>5. f.pending[1].addr <= f.pending[i].addr
    <3>1. CASE i = 1 BY <2>2, <3>1
    <3>2. CASE 1 < i BY <2>2, <2>4, <3>2
    <3> QED BY <3>1, <3>2
  <2>6. SizePending(f) = f.nextAddr - f.pending[1].addr BY <2>1, PendingBytes
  <2>7. ReadPos(f) <= f.pending[i].addr
    <3>1. ReadPos(f) = f.pending[1].addr - Len(f.buffer)
      BY <1>1, <2>2, <2>6 DEF ReadPos
    <3> QED BY <1>1, <2>2, <2>5, <3>1
  <2> QED BY <2>1, <2>2, <2>3, <2>5, <2>7
<1> QED BY <1>1, <1>2, <1>3, <1>4

\* resumeFill() reserves room for what it asks for and moves no byte.
LEMMA ReadResume ==
  ASSUME NEW Val, NEW V, NEW m \in Nat, NEW base \in Int, NEW f,
         GoodRead(Val, V, m, base, f)
  PROVE  /\ GoodRead(Val, V, m, base, ResumeFill(f))
         /\ ReadPos(ResumeFill(f)) = ReadPos(f)
         /\ Advances(f, ResumeFill(f))
<1>1. f \in FifoOf(Val) /\ Shape(f) BY DEF GoodRead
<1>2. PICK n : /\ CanIssue(f, n)
               /\ ResumeFill(f) = Issue(f, n, [i \in 1..n |-> <<>>])
               /\ Len(f.buffer) + SizePending(f) <= FifoSize =>
                    Len(f.buffer) + SizePending(f) + (NextAfter(f, n) - f.nextAddr)
                      <= FifoSize
  BY <1>1, FillRounds
<1> DEFINE g == ResumeFill(f)
           data == [i \in 1..n |-> <<>>]
           l == Len(f.pending)
<1>3. \A i \in 1..n : data[i] \in Seq(Val) OBVIOUS
<1>4. /\ g \in FifoOf(Val) /\ Shape(g)
      /\ g.buffer = f.buffer /\ g.endAddr = f.endAddr
      /\ g.nextAddr = NextAfter(f, n)
      /\ Len(g.pending) = l + n
      /\ \A i \in 1..l : g.pending[i] = f.pending[i]
      /\ \A i \in 1..n : g.pending[l + i] = NewRequest(f, i, data)
      /\ SizePending(g) = SizePending(f) + (NextAfter(f, n) - f.nextAddr)
  <2>1. g = Issue(f, n, data) BY <1>2
  <2> HIDE DEF data, g
  <2>2. LET h == Issue(f, n, data)
        IN  /\ h \in FifoOf(Val) /\ Shape(h)
            /\ h.buffer = f.buffer /\ h.endAddr = f.endAddr
            /\ h.nextAddr = NextAfter(f, n)
            /\ Len(h.pending) = l + n
            /\ \A i \in 1..l : h.pending[i] = f.pending[i]
            /\ \A i \in 1..n : h.pending[l + i] = NewRequest(f, i, data)
            /\ SizePending(h) = SizePending(f) + (NextAfter(f, n) - f.nextAddr)
    BY <1>1, <1>2, <1>3, IssueShape
  <2> QED BY <2>1, <2>2
<1> HIDE DEF g, data
<1>5. /\ f.nextAddr \in Nat /\ Len(f.buffer) \in Nat /\ SizePending(f) \in Nat
      /\ g.nextAddr \in Nat /\ SizePending(g) \in Nat /\ l \in Nat /\ n \in Nat
  BY <1>1, <1>2, <1>4, ReadNumbers DEF CanIssue
<1>6. ReadPos(g) = ReadPos(f) BY <1>4, <1>5 DEF ReadPos
<1>7. Len(g.buffer) + SizePending(g) <= FifoSize
  <2>1. Len(f.buffer) + SizePending(f) <= FifoSize BY DEF GoodRead
  <2>2. PICK x \in Nat, y \in Nat, s \in Nat, b \in Nat :
          x = f.nextAddr /\ y = NextAfter(f, n) /\ s = SizePending(f) /\ b = Len(f.buffer)
    BY <1>4, <1>5
  <2>3. Len(g.buffer) = b /\ SizePending(g) = s + (y - x) BY <1>4, <2>2
  <2>4. b + (s + (y - x)) <= FifoSize BY <1>2, <2>1, <2>2, FifoAssumption
  <2> QED BY <2>3, <2>4
<1>8. ASSUME NEW i \in 1..(l + n), g.pending[i].done
      PROVE  HoldsBytes(g.pending[i], V, base)
  <2>1. CASE i <= l
    <3>1. i \in 1..l BY <1>5, <2>1
    <3>2. g.pending[i] = f.pending[i] BY <1>4, <3>1
    <3> QED BY <1>8, <3>1, <3>2 DEF GoodRead
  <2>2. CASE i > l
    <3>1. i - l \in 1..n /\ l + (i - l) = i BY <1>5, <2>2
    <3>2. g.pending[l + (i - l)] = NewRequest(f, i - l, data) BY <1>4, <3>1
    <3>3. ~g.pending[i].done
      <4>1. g.pending[i] = NewRequest(f, i - l, data) BY <3>1, <3>2
      <4> QED BY <4>1 DEF NewRequest
    <3> QED BY <1>8, <3>3
  <2>3. i <= l \/ i > l BY <1>5
  <2> QED BY <2>1, <2>2, <2>3
<1>9. GoodRead(Val, V, m, base, g)
  BY <1>4, <1>6, <1>7, <1>8 DEF GoodRead
<1>10. Advances(f, g)
  <2>1. f.nextAddr <= NextAfter(f, n) /\ NextAfter(f, n) \in Nat
    BY <1>1, <1>2, ReadNumbers, Grid
  <2> QED BY <1>4, <1>5, <2>1 DEF Advances, FirstUnderWay
<1> QED BY <1>6, <1>9, <1>10 DEF g

\* What startFill() and startEmpty() assign.
LEMMA Restarted ==
  ASSUME NEW Val, NEW f \in FifoOf(Val), NEW x, NEW y
  PROVE  [f EXCEPT !.nextAddr = x, !.endAddr = y] =
         [buffer |-> f.buffer, nextAddr |-> x, endAddr |-> y, pending |-> f.pending]
<1> DEFINE g == [f EXCEPT !.nextAddr = x, !.endAddr = y]
           h == [buffer |-> f.buffer, nextAddr |-> x, endAddr |-> y, pending |-> f.pending]
<1>1. DOMAIN g = {"buffer", "nextAddr", "endAddr", "pending"} BY DEF FifoOf
<1>2. /\ g.buffer = f.buffer /\ g.nextAddr = x /\ g.endAddr = y /\ g.pending = f.pending
  BY DEF FifoOf
<1>3. g = [s \in {"buffer", "nextAddr", "endAddr", "pending"} |-> g[s]] BY <1>1
<1>4. h = [s \in {"buffer", "nextAddr", "endAddr", "pending"} |-> h[s]] OBVIOUS
<1>5. h.buffer = f.buffer /\ h.nextAddr = x /\ h.endAddr = y /\ h.pending = f.pending
  OBVIOUS
<1> HIDE DEF g, h
<1>6. g = h BY <1>2, <1>3, <1>4, <1>5
<1> QED BY <1>6 DEF g, h

\* startFill() on a drained FIFO begins the block at its first byte.
LEMMA ReadStart ==
  ASSUME NEW Val, NEW V, NEW m \in Nat, NEW base \in Nat, NEW f \in FifoOf(Val),
         f.buffer = <<>>, f.pending = <<>>
  PROVE  /\ GoodRead(Val, V, m, base, StartFill(f, base, m))
         /\ ReadPos(StartFill(f, base, m)) = base
<1> DEFINE g == [f EXCEPT !.nextAddr = base, !.endAddr = base + m]
<1>1. g = [buffer |-> <<>>, nextAddr |-> base, endAddr |-> base + m, pending |-> <<>>]
  <2>1. g = [buffer |-> f.buffer, nextAddr |-> base, endAddr |-> base + m,
             pending |-> f.pending]
    BY Restarted
  <2> HIDE DEF g
  <2> QED BY <2>1
<1>2. g \in FifoOf(Val) /\ Shape(g) /\ SizePending(g) = 0 /\ ReadPos(g) = base
  BY <1>1 DEF FifoOf, Shape, Tiled, SizePending, ReadPos
<1>3. GoodRead(Val, V, m, base, g)
  BY <1>1, <1>2, FifoAssumption DEF GoodRead
<1>4. StartFill(f, base, m) = ResumeFill(g) BY DEF StartFill
<1> HIDE DEF g
<1> QED BY <1>2, <1>3, <1>4, ReadResume

\* The frame of size s at address a, after which f goes on where it was in a
\* stream of which it has read m bytes: f keeps its bytes.
ReadsOn(Val, V, m, base, f, a, s) ==
  LET g == StartFill(f, a, s)
  IN  /\ GoodRead(Val, V, m + s, a - m, g)
      /\ ReadPos(g) - (a - m) = ReadPos(f) - base
      /\ g.endAddr = a + s /\ a <= g.nextAddr /\ a <= FirstUnderWay(g)

\* startFill() on a FIFO at the end of its block goes on with the stream,
\* whatever is left in its buffer and wherever the next frame lies.
LEMMA ReadRestart ==
  ASSUME NEW Val, NEW V, NEW m \in Nat, NEW base \in Int, NEW f,
         GoodRead(Val, V, m, base, f), f.pending = <<>>, f.nextAddr = f.endAddr,
         NEW a \in Nat, NEW s \in Nat
  PROVE  ReadsOn(Val, V, m, base, f, a, s)
<1> DEFINE h == [f EXCEPT !.nextAddr = a, !.endAddr = a + s]
           g == StartFill(f, a, s)
<1>1. f \in FifoOf(Val) /\ Shape(f) BY DEF GoodRead
<1>2. h = [buffer |-> f.buffer, nextAddr |-> a, endAddr |-> a + s, pending |-> <<>>]
  <2>1. h = [buffer |-> f.buffer, nextAddr |-> a, endAddr |-> a + s,
             pending |-> f.pending]
    BY <1>1, Restarted
  <2> HIDE DEF h
  <2> QED BY <2>1
<1>3. f.buffer \in Seq(Val) /\ Len(f.buffer) \in Nat /\ f.nextAddr \in Nat
      /\ SizePending(f) = 0
  BY <1>1, ReadNumbers, PendingBytes
<1>4. /\ h.buffer = f.buffer /\ h.nextAddr = a /\ h.endAddr = a + s /\ h.pending = <<>>
      /\ h \in FifoOf(Val) /\ Shape(h) /\ SizePending(h) = 0
  <2>1. h.buffer = f.buffer /\ h.nextAddr = a /\ h.endAddr = a + s /\ h.pending = <<>>
    BY <1>2
  <2>2. h \in FifoOf(Val)
    <3>1. <<>> \in Seq(RequestOf(Val)) OBVIOUS
    <3> HIDE DEF h
    <3> QED BY <1>2, <1>3, <3>1 DEF FifoOf
  <2> HIDE DEF h
  <2>3. Shape(h) /\ SizePending(h) = 0 BY <2>1 DEF Shape, Tiled, SizePending
  <2> QED BY <2>1, <2>2, <2>3
<1>5. g = ResumeFill(h) BY DEF StartFill
<1> HIDE DEF h, g
<1>6. ReadPos(h) = a - Len(f.buffer) /\ ReadPos(f) = (base + m) - Len(f.buffer)
  BY <1>3, <1>4 DEF ReadPos, GoodRead
<1>7. ReadPos(h) - (a - m) = ReadPos(f) - base BY <1>3, <1>6
<1>8. ASSUME NEW k \in 1..Len(f.buffer)
      PROVE  f.buffer[k] = V[ReadPos(h) - (a - m) + k - 1]
  BY <1>7 DEF GoodRead
<1>9. GoodRead(Val, V, m + s, a - m, h)
  <2>1. a - m <= ReadPos(h) /\ h.endAddr = (a - m) + (m + s)
    BY <1>3, <1>4, <1>6, <1>7 DEF GoodRead
  <2>2. Len(h.buffer) + SizePending(h) <= FifoSize BY <1>3, <1>4 DEF GoodRead
  <2> QED BY <1>4, <1>8, <2>1, <2>2 DEF GoodRead
<1>10. FirstUnderWay(h) = a BY <1>4 DEF FirstUnderWay
<1>11. GoodRead(Val, V, m + s, a - m, g) /\ ReadPos(g) = ReadPos(h) /\ Advances(h, g)
  <2>1. PICK x \in Nat, y \in Int : x = m + s /\ y = a - m OBVIOUS
  <2>2. GoodRead(Val, V, x, y, h) BY <1>9, <2>1
  <2>3. GoodRead(Val, V, x, y, g) /\ ReadPos(g) = ReadPos(h) /\ Advances(h, g)
    BY <1>5, <2>2, ReadResume
  <2> QED BY <2>1, <2>3
<1>12. g.endAddr = a + s /\ a <= g.nextAddr /\ a <= FirstUnderWay(g)
  BY <1>4, <1>10, <1>11 DEF Advances
<1> QED BY <1>7, <1>11, <1>12 DEF ReadsOn, g

\* tryGet() of n bytes from f returns the next bytes of the block in order and
\* moves past them.
Delivers(Val, V, m, base, f, n) ==
  /\ GoodRead(Val, V, m, base, TryGet(f, n)) /\ Advances(f, TryGet(f, n))
  /\ ReadPos(TryGet(f, n)) = ReadPos(f) + n
  /\ Got(f, n) \in Seq(Val) /\ Len(Got(f, n)) = n
  /\ \A k \in 1..n : Got(f, n)[k] = V[ReadPos(f) - base + k - 1]

\* tryGet() delivers the block in order.
LEMMA ReadGet ==
  ASSUME NEW Val, NEW V, NEW m \in Nat, NEW base \in Int, NEW f,
         GoodRead(Val, V, m, base, f), NEW n \in Nat, CanGet(f, n)
  PROVE  Delivers(Val, V, m, base, f, n)
<1> DEFINE b == SubSeq(f.buffer, n + 1, Len(f.buffer))
           g == [f EXCEPT !.buffer = b]
<1>1. f \in FifoOf(Val) /\ Shape(f) BY DEF GoodRead
<1>2. /\ f.nextAddr \in Nat /\ Len(f.buffer) \in Nat /\ SizePending(f) \in Nat
      /\ ReadPos(f) \in Int /\ f.buffer \in Seq(Val) /\ n <= Len(f.buffer)
  BY <1>1, ReadNumbers DEF CanGet
<1>3. /\ b \in Seq(Val) /\ Len(b) = Len(f.buffer) - n
      /\ \A k \in 1..(Len(f.buffer) - n) : n + k \in 1..Len(f.buffer) /\ b[k] = f.buffer[n + k]
  BY <1>2
<1>4. Got(f, n) \in Seq(Val) /\ Len(Got(f, n)) = n
      /\ \A k \in 1..n : k \in 1..Len(f.buffer) /\ Got(f, n)[k] = f.buffer[k]
  BY <1>2 DEF Got
<1> HIDE DEF b
<1>5. g = [buffer |-> b, nextAddr |-> f.nextAddr, endAddr |-> f.endAddr,
           pending |-> f.pending]
  BY <1>1 DEF FifoOf
<1>6. g \in FifoOf(Val) /\ Shape(g) /\ SizePending(g) = SizePending(f)
  BY <1>1, <1>3, <1>5 DEF FifoOf, Shape, SizePending
<1>7. ReadPos(g) = ReadPos(f) + n
  BY <1>2, <1>3, <1>5, <1>6 DEF ReadPos
<1>8. \A k \in 1..Len(b) : b[k] = V[ReadPos(g) - base + k - 1]
  <2> SUFFICES ASSUME NEW k \in 1..(Len(f.buffer) - n)
               PROVE  b[k] = V[ReadPos(g) - base + k - 1]
    BY <1>3
  <2>1. n + k \in 1..Len(f.buffer) /\ b[k] = f.buffer[n + k] BY <1>3
  <2>2. f.buffer[n + k] = V[ReadPos(f) - base + (n + k) - 1] BY <2>1 DEF GoodRead
  <2>3. ReadPos(f) - base + (n + k) - 1 = ReadPos(g) - base + k - 1 BY <1>2, <1>7
  <2> QED BY <2>1, <2>2, <2>3
<1>9. GoodRead(Val, V, m, base, g)
  <2>1. Len(b) + SizePending(f) <= FifoSize
    BY <1>2, <1>3, FifoAssumption DEF GoodRead
  <2>2. base <= ReadPos(g) BY <1>2, <1>7 DEF GoodRead
  <2>3. g.buffer = b /\ g.endAddr = f.endAddr /\ g.pending = f.pending BY <1>5
  <2> HIDE DEF g
  <2> QED BY <1>6, <1>8, <2>1, <2>2, <2>3 DEF GoodRead
<1>10. TryGet(f, n) = ResumeFill(g) BY DEF TryGet, b
<1>14. g.endAddr = f.endAddr /\ g.nextAddr = f.nextAddr BY <1>5
<1> HIDE DEF g
<1>11. GoodRead(Val, V, m, base, TryGet(f, n)) /\ ReadPos(TryGet(f, n)) = ReadPos(f) + n
       /\ Advances(g, TryGet(f, n))
  BY <1>7, <1>9, <1>10, ReadResume
<1>12. \A k \in 1..n : Got(f, n)[k] = V[ReadPos(f) - base + k - 1]
  BY <1>4 DEF GoodRead
<1>13. Advances(f, g)
  BY <1>2, <1>6, <1>14 DEF Advances, FirstUnderWay
<1>15. Advances(f, TryGet(f, n))
  <2>1. TryGet(f, n) \in FifoOf(Val) /\ Shape(TryGet(f, n)) BY <1>11 DEF GoodRead
  <2> QED BY <1>1, <1>6, <1>11, <1>13, <2>1, AdvancesOn
<1> QED BY <1>4, <1>11, <1>12, <1>15 DEF Delivers

\* What handlePending() leaves of read FIFO f.
ReadRetired(f) ==
  [f EXCEPT !.buffer = @ \o RetiredData(f, Retired(f)),
            !.pending = SubSeq(@, Retired(f) + 1, Len(@))]

\* handlePending() moves the answered requests at the front into the buffer,
\* where their bytes follow those that are there.
LEMMA ReadRetire ==
  ASSUME NEW Val, NEW m \in Nat, NEW V, IsBlock(Val, V, m), NEW base \in Int,
         NEW f, GoodRead(Val, V, m, base, f),
         NEW g, g = ReadRetired(f)
  PROVE  GoodRead(Val, V, m, base, g) /\ ReadPos(g) = ReadPos(f) /\ Advances(f, g)
<1> DEFINE n == Retired(f)
           d == RetiredData(f, n)
           p == f.pending
           b == f.buffer
           q == SubSeq(p, n + 1, Len(p))
<1>0. g = [f EXCEPT !.buffer = b \o d, !.pending = q] BY DEF ReadRetired
<1>1. f \in FifoOf(Val) /\ Shape(f) BY DEF GoodRead
<1>2. /\ f.nextAddr \in Nat /\ f.endAddr \in Nat /\ f.nextAddr <= f.endAddr
      /\ Len(b) \in Nat /\ SizePending(f) \in Nat /\ ReadPos(f) \in Int
      /\ ReadPos(f) + Len(b) + SizePending(f) = f.nextAddr
      /\ b \in Seq(Val) /\ p \in Seq(RequestOf(Val)) /\ Len(p) \in Nat
  BY <1>1, ReadNumbers
<1>3. \A i \in 1..Len(p) : p[i].addr \in Nat /\ p[i].size \in Nat /\ ReadPos(f) <= p[i].addr
  BY <1>1, ReadNumbers
<1>4. n \in 0..Len(p) /\ \A i \in 1..n : p[i].done BY <1>1, RetiredAreDone
<1> HIDE DEF n
<1>5. FrontHolds(f, n, V, base)
  <2> SUFFICES ASSUME NEW i \in 1..n
               PROVE  HoldsBytes(p[i], V, base) /\ base <= p[i].addr
    BY DEF FrontHolds
  <2>1. i \in 1..Len(p) BY <1>2, <1>4
  <2>2. ReadPos(f) <= p[i].addr /\ p[i].addr \in Nat BY <1>3, <2>1
  <2>3. base <= ReadPos(f) BY DEF GoodRead
  <2> QED BY <1>2, <1>4, <2>1, <2>2, <2>3 DEF GoodRead
<1>6. f.nextAddr <= base + m BY <1>2 DEF GoodRead
<1>7. /\ d \in Seq(Val) /\ Len(d) = Past(p, n)
      /\ \A k \in 1..Len(d) : d[k] = V[p[1].addr - base + k - 1]
  <2>1. n \in 0..Len(p) BY <1>4
  <2> QED BY <1>1, <1>5, <1>6, <2>1, RetiredBytes
<1>8. /\ q \in Seq(RequestOf(Val)) /\ Len(q) = Len(p) - n /\ Tiled(q, f.nextAddr)
      /\ \A i \in 1..(Len(p) - n) : n + i \in 1..Len(p) /\ q[i] = p[n + i]
  <2>1. Tiled(p, f.nextAddr) BY <1>1 DEF Shape
  <2> HIDE DEF p
  <2> QED BY <1>2, <1>4, <2>1, RetireTiled
<1> HIDE DEF d
<1>9. /\ b \o d \in Seq(Val) /\ Len(b \o d) = Len(b) + Len(d)
      /\ \A k \in 1..Len(b) : (b \o d)[k] = b[k]
      /\ \A k \in 1..(Len(b) + Len(d)) :
           k > Len(b) => k - Len(b) \in 1..Len(d) /\ (b \o d)[k] = d[k - Len(b)]
  <2>1. b \in Seq(Val) /\ d \in Seq(Val) BY <1>2, <1>7
  <2> HIDE DEF b
  <2> QED BY <2>1, Joined
<1>10. /\ g = [buffer |-> b \o d, nextAddr |-> f.nextAddr, endAddr |-> f.endAddr,
               pending |-> q]
       /\ g.buffer = b \o d /\ g.nextAddr = f.nextAddr /\ g.endAddr = f.endAddr
       /\ g.pending = q
  <2> DEFINE bd == b \o d
  <2> HIDE DEF q, bd
  <2>2. g = [f EXCEPT !.buffer = bd, !.pending = q] BY <1>0 DEF bd
  <2>3. g.buffer = bd /\ g.nextAddr = f.nextAddr /\ g.endAddr = f.endAddr
        /\ g.pending = q
    BY <1>1, <2>2 DEF FifoOf
  <2>4. g = [s \in {"buffer", "nextAddr", "endAddr", "pending"} |-> g[s]]
    BY <1>1, <2>2 DEF FifoOf
  <2> QED BY <2>3, <2>4 DEF bd
<1>11. g.buffer = b \o d /\ g.nextAddr = f.nextAddr /\ g.endAddr = f.endAddr
       /\ g.pending = q
  BY <1>10
<1>12. g \in FifoOf(Val) /\ Shape(g)
  <2> HIDE DEF q, b
  <2> QED BY <1>2, <1>8, <1>9, <1>10 DEF FifoOf, Shape
<1>13. SizePending(f) = SizePending(g) + Len(d)
  BY <1>1, <1>4, <1>7, <1>11, <1>12, RetireSize DEF q
<1>14. Len(d) \in Nat /\ SizePending(g) \in Nat
  BY <1>7, <1>12, PendingBytes
<1>15. Len(g.buffer) = Len(b) + Len(d) BY <1>9, <1>11
<1>16. ReadPos(g) = ReadPos(f)
  <2>1. ReadPos(g) = f.nextAddr - SizePending(g) - (Len(b) + Len(d))
    BY <1>11, <1>15 DEF ReadPos
  <2>2. ReadPos(f) = f.nextAddr - SizePending(f) - Len(b) BY DEF ReadPos
  <2>3. f.nextAddr \in Nat /\ Len(b) \in Nat BY <1>2
  <2> HIDE DEF b
  <2> QED BY <1>13, <1>14, <2>1, <2>2, <2>3
<1>17. Len(g.buffer) + SizePending(g) <= FifoSize
  <2>1. Len(b) + SizePending(f) <= FifoSize BY DEF GoodRead
  <2> HIDE DEF b
  <2> QED BY <1>2, <1>13, <1>14, <1>15, <2>1, FifoAssumption
<1>18. ASSUME NEW k \in 1..Len(g.buffer)
       PROVE  g.buffer[k] = V[ReadPos(g) - base + k - 1]
  <2>0. k \in 1..(Len(b) + Len(d)) BY <1>15
  <2>1. CASE k <= Len(b)
    <3>1. k \in 1..Len(b) BY <1>2, <2>1
    <3>2. g.buffer[k] = b[k] BY <1>9, <1>11, <3>1
    <3> QED BY <1>16, <3>1, <3>2 DEF GoodRead
  <2>2. CASE k > Len(b)
    <3>1. k - Len(b) \in 1..Len(d) /\ g.buffer[k] = d[k - Len(b)]
      BY <1>9, <1>11, <2>0, <2>2
    <3>2. d[k - Len(b)] = V[p[1].addr - base + (k - Len(b)) - 1] BY <1>7, <3>1
    <3>3. n # 0
      <4> SUFFICES ASSUME n = 0 PROVE FALSE OBVIOUS
      <4>1. Len(d) = 0 BY <1>7 DEF Past
      <4> QED BY <3>1, <4>1
    <3>4. 1 \in 1..Len(p) /\ p # <<>> BY <1>2, <1>4, <3>3
    <3>5. p[1].addr \in Nat BY <1>3, <3>4
    <3>6. SizePending(f) = f.nextAddr - p[1].addr BY <1>1, <3>4, PendingBytes
    <3>7. p[1].addr - base + (k - Len(b)) - 1 = ReadPos(g) - base + k - 1
      <4>1. f.nextAddr \in Nat /\ Len(b) \in Nat /\ ReadPos(f) \in Int
            /\ ReadPos(f) + Len(b) + SizePending(f) = f.nextAddr
        BY <1>2
      <4> HIDE DEF b, p
      <4> DEFINE x == p[1].addr
                 lb == Len(b)
      <4>2. x \in Nat /\ SizePending(f) = f.nextAddr - x BY <3>5, <3>6
      <4>3. lb \in Nat /\ ReadPos(f) + lb + SizePending(f) = f.nextAddr BY <4>1
      <4> HIDE DEF x, lb
      <4>4. ReadPos(f) = x - lb
        <5>1. ReadPos(f) = f.nextAddr - SizePending(f) - lb BY DEF ReadPos, lb, b
        <5> QED BY <4>1, <4>2, <4>3, <5>1
      <4>5. x - base + (k - lb) - 1 = ReadPos(g) - base + k - 1
        BY <1>16, <4>2, <4>3, <4>4
      <4> QED BY <4>5 DEF x, lb
    <3> QED BY <3>1, <3>2, <3>7
  <2>3. k <= Len(b) \/ k > Len(b) BY <1>2
  <2> QED BY <2>1, <2>2, <2>3
<1>19. ASSUME NEW i \in 1..Len(g.pending), g.pending[i].done
       PROVE  HoldsBytes(g.pending[i], V, base)
  <2>1. i \in 1..(Len(p) - n) BY <1>8, <1>11
  <2>2. n + i \in 1..Len(p) /\ g.pending[i] = p[n + i] BY <1>8, <1>11, <2>1
  <2> QED BY <1>19, <2>2 DEF GoodRead
<1>20. GoodRead(Val, V, m, base, g)
  BY <1>11, <1>12, <1>16, <1>17, <1>18, <1>19 DEF GoodRead
<1>21. Advances(f, g)
  <2>1. f.nextAddr \in Nat /\ g.nextAddr = f.nextAddr /\ g.endAddr = f.endAddr BY <1>2, <1>11
  <2> QED BY <1>13, <1>14, <2>1 DEF Advances, FirstUnderWay
<1> QED BY <1>16, <1>20, <1>21

\* A request q of a read FIFO is answered with the bytes it asked for: what the
\* rest of dmaDone() makes of the FIFO keeps the bytes in the order of the block.
LEMMA ReadSettles ==
  ASSUME NEW Val, NEW m \in Nat, NEW V, IsBlock(Val, V, m), NEW base \in Int,
         NEW f, GoodRead(Val, V, m, base, f),
         NEW i \in 1..Len(f.pending), NEW q \in RequestOf(Val),
         q.addr = f.pending[i].addr, q.size = f.pending[i].size,
         HoldsBytes(q, V, base),
         NEW r, r = ResumeFill(ReadRetired(Updated(f, i, q)))
  PROVE  GoodRead(Val, V, m, base, r) /\ ReadPos(r) = ReadPos(f) /\ Advances(f, r)
<1>1. f \in FifoOf(Val) /\ Shape(f) BY DEF GoodRead
<1>2. PICK g : g = Updated(f, i, q) OBVIOUS
<1>3. /\ g \in FifoOf(Val) /\ Shape(g)
      /\ g.buffer = f.buffer /\ g.nextAddr = f.nextAddr /\ g.endAddr = f.endAddr
      /\ Len(g.pending) = Len(f.pending)
      /\ g.pending[i] = q
      /\ \A j \in 1..Len(f.pending) : j # i => g.pending[j] = f.pending[j]
      /\ SizePending(g) = SizePending(f)
  BY <1>1, <1>2, AnswerShape
<1>4. ReadPos(g) = ReadPos(f) BY <1>3 DEF ReadPos
<1>5. GoodRead(Val, V, m, base, g) BY <1>3, <1>4 DEF GoodRead
<1>6. PICK h : h = ReadRetired(g) OBVIOUS
<1>7. GoodRead(Val, V, m, base, h) /\ ReadPos(h) = ReadPos(g) /\ Advances(g, h)
  BY <1>5, <1>6, ReadRetire
<1>8. r = ResumeFill(h) BY <1>2, <1>6
<1>9. GoodRead(Val, V, m, base, r) /\ ReadPos(r) = ReadPos(h) /\ Advances(h, r)
  BY <1>7, <1>8, ReadResume
<1>10. Advances(f, r)
  <2>1. h \in FifoOf(Val) /\ Shape(h) /\ r \in FifoOf(Val) /\ Shape(r)
    BY <1>7, <1>9 DEF GoodRead
  <2>2. Advances(f, g)
    <3>1. f.nextAddr \in Nat /\ SizePending(f) \in Nat BY <1>1, ReadNumbers
    <3> QED BY <1>3, <3>1 DEF Advances, FirstUnderWay
  <2>3. Advances(f, h) BY <1>1, <1>3, <1>7, <2>1, <2>2, AdvancesOn
  <2> QED BY <1>1, <1>9, <2>1, <2>3, AdvancesOn
<1> QED BY <1>4, <1>7, <1>9, <1>10

\* dmaDone() of a read FIFO: bytes that arrive in any order leave it in the
\* order of the block.
LEMMA ReadAnswer ==
  ASSUME NEW Val, NEW m \in Nat, NEW V, IsBlock(Val, V, m), NEW base \in Int,
         NEW f, GoodRead(Val, V, m, base, f),
         NEW i \in 1..Len(f.pending), NEW data \in Seq(Val),
         Answers(data, f.pending[i], V, base)
  PROVE  /\ GoodRead(Val, V, m, base, ReadDone(f, i, data))
         /\ ReadPos(ReadDone(f, i, data)) = ReadPos(f)
         /\ Advances(f, ReadDone(f, i, data))
<1>1. f \in FifoOf(Val) /\ Shape(f) BY DEF GoodRead
<1>2. f.pending[i] \in RequestOf(Val) BY <1>1, ReadNumbers
<1>3. PICK p \in RequestOf(Val) : p = f.pending[i] BY <1>2
<1>4. PICK q : q = [p EXCEPT !.done = TRUE, !.data = data] OBVIOUS
<1>5. q \in RequestOf(Val) /\ q.addr = p.addr /\ q.size = p.size /\ q.data = data
  BY <1>4 DEF RequestOf
<1>6. HoldsBytes(q, V, base)
  <2>1. Answers(data, p, V, base) BY <1>3
  <2> QED BY <1>5, <2>1 DEF Answers, HoldsBytes
<1>7. PICK r : r = ReadDone(f, i, data) OBVIOUS
<1>8. r = ResumeFill(ReadRetired(Updated(f, i, q)))
  BY <1>3, <1>4, <1>7 DEF ReadDone, ReadRetired, Updated
<1>9. q.addr = f.pending[i].addr /\ q.size = f.pending[i].size /\ q \in RequestOf(Val)
  BY <1>3, <1>5
<1>10. GoodRead(Val, V, m, base, r) /\ ReadPos(r) = ReadPos(f) /\ Advances(f, r)
  BY <1>6, <1>8, <1>9, ReadSettles
<1> QED BY <1>7, <1>10

(***************************************************************************)
(* The write FIFO                                                          *)
(***************************************************************************)

\* The address of the byte that fill() puts next.
WritePos(f) == f.nextAddr + Len(f.buffer)

\* The addresses whose byte has not yet been written to memory: its request is
\* under way or not issued.
Unwritten(f) ==
  {a \in Nat : \/ f.nextAddr <= a
               \/ \E i \in 1..Len(f.pending) :
                    /\ ~f.pending[i].done
                    /\ f.pending[i].addr <= a
                    /\ a < f.pending[i].addr + f.pending[i].size}

\* f writes block V at base: what is in the buffer and in the requests under way
\* are bytes of the block, in their place.  The buffer may hold bytes that come
\* after the frame which f writes.
Emptying(Val, V, base, f) ==
  /\ f \in FifoOf(Val) /\ Shape(f)
  /\ base <= f.nextAddr /\ Len(f.buffer) <= FifoSize
  /\ \A k \in 1..Len(f.buffer) : f.buffer[k] = V[f.nextAddr - base + k - 1]
  /\ \A i \in 1..Len(f.pending) :
       base <= f.pending[i].addr /\ HoldsBytes(f.pending[i], V, base)

\* f writes block V of m bytes at base, all of it and nothing beyond it.
GoodWrite(Val, V, m, base, f) ==
  Emptying(Val, V, base, f) /\ f.endAddr = base + m /\ WritePos(f) <= f.endAddr

\* Every address between the old and the new nextAddr belongs to one of the
\* requests that were issued together.
LEMMA GridCovers ==
  ASSUME NEW Val, NEW f \in FifoOf(Val), f.nextAddr <= f.endAddr,
         NEW n, CanIssue(f, n),
         NEW a \in Nat, f.nextAddr <= a, a < NextAfter(f, n)
  PROVE  \E i \in 1..n : /\ f.nextAddr + Before(i) <= a
                         /\ a < f.nextAddr + Before(i) + ReqSize(f, i)
<1> DEFINE M == MaxReqSize
           o == a - f.nextAddr
           k == o \div M
           i == k + 1
           N == NextAfter(f, n)
<1>1. M \in Nat /\ M >= 1 BY FifoAssumption
<1>2. f.nextAddr \in Nat /\ f.endAddr \in Nat /\ n \in Nat /\ o \in Nat
  BY DEF FifoOf, CanIssue
<1>3. k \in Nat /\ k * M <= o /\ o < k * M + M
  <2> HIDE DEF M, o
  <2> QED BY <1>1, <1>2, Z3
<1>4. i \in Nat /\ i >= 1 /\ Before(i) = k * M
  <2> HIDE DEF k, M
  <2> QED BY <1>3 DEF Before, M
<1>5. N <= f.nextAddr + n * M /\ N <= f.endAddr /\ N \in Nat /\ n * M \in Nat
  <2>1. N = IF f.endAddr < f.nextAddr + n * M THEN f.endAddr ELSE f.nextAddr + n * M
    BY DEF NextAfter, Least
  <2>2. n * M \in Nat BY <1>1, <1>2, Z3
  <2> DEFINE nM == n * M
  <2> HIDE DEF M, N, nM
  <2> QED BY <1>2, <2>1, <2>2 DEF nM
<1>6. k < n
  <2>1. o < n * M
    <3> HIDE DEF M, N, k
    <3> QED BY <1>2, <1>5 DEF N
  <2>2. k * M < n * M
    <3> DEFINE kM == k * M
               nM == n * M
    <3>1. kM \in Nat
      <4> HIDE DEF k, M
      <4> QED BY <1>1, <1>3, Z3
    <3>2. kM <= o /\ o < nM /\ nM \in Nat BY <1>3, <1>5, <2>1
    <3> HIDE DEF kM, nM, o
    <3>3. kM < nM BY <1>2, <3>1, <3>2
    <3> QED BY <3>3 DEF kM, nM
  <2> HIDE DEF k, M
  <2> QED BY <1>1, <1>2, <1>3, <2>2, Z3
<1>7. i \in 1..n
  <2> HIDE DEF k
  <2> QED BY <1>2, <1>3, <1>6
<1>8. /\ Before(i) \in Nat /\ ReqSize(f, i) \in Nat
      /\ f.nextAddr + Before(i) + ReqSize(f, i) =
           IF i = n THEN N ELSE f.nextAddr + Before(i + 1)
  <2> HIDE DEF i
  <2> QED BY <1>7, Grid
<1>9. Before(i + 1) = Before(i) + M
  <2> HIDE DEF i
  <2> QED BY <1>4, BeforeSteps
<1> DEFINE kM == k * M
<1>10. kM <= o /\ o < kM + M /\ Before(i) = kM BY <1>3, <1>4
<1>11. f.nextAddr + Before(i) <= a
  <2> HIDE DEF kM, i, M
  <2> QED BY <1>2, <1>8, <1>10
<1>12. a < f.nextAddr + Before(i) + ReqSize(f, i)
  <2>1. o = a - f.nextAddr OBVIOUS
  <2> HIDE DEF kM, i, M, N, o, k
  <2>2. CASE i = n BY <1>8, <2>2 DEF N
  <2>3. CASE i # n BY <1>1, <1>2, <1>8, <1>9, <1>10, <2>1, <2>3
  <2> QED BY <2>2, <2>3
<1> QED
  <2> HIDE DEF i
  <2> QED BY <1>7, <1>11, <1>12

\* resumeEmpty() moves bytes from the buffer into requests, each to the address
\* where it belongs, and forgets none.
LEMMA WriteResume ==
  ASSUME NEW Val, NEW V, NEW base \in Int, NEW f,
         Emptying(Val, V, base, f)
  PROVE  /\ Emptying(Val, V, base, ResumeEmpty(f))
         /\ WritePos(ResumeEmpty(f)) = WritePos(f)
         /\ Unwritten(f) \subseteq Unwritten(ResumeEmpty(f))
         /\ Advances(f, ResumeEmpty(f))
<1>1. f \in FifoOf(Val) /\ Shape(f) BY DEF Emptying
<1>2. PICK n : /\ CanIssue(f, n)
               /\ ResumeEmpty(f) =
                    [Issue(f, n, Pieces(f, n)) EXCEPT
                       !.buffer = SubSeq(@, (NextAfter(f, n) - f.nextAddr) + 1, Len(@))]
               /\ NextAfter(f, n) - f.nextAddr <= Len(f.buffer)
  BY <1>1, EmptyRounds
<1> DEFINE g == ResumeEmpty(f)
           h == Issue(f, n, Pieces(f, n))
           D == Pieces(f, n)
           l == Len(f.pending)
           N == NextAfter(f, n)
           t == N - f.nextAddr
           b == f.buffer
           c == SubSeq(b, t + 1, Len(b))
<1>3. /\ f.nextAddr \in Nat /\ f.endAddr \in Nat /\ f.nextAddr <= f.endAddr
      /\ b \in Seq(Val) /\ Len(b) \in Nat /\ l \in Nat /\ n \in Nat
      /\ f.pending \in Seq(RequestOf(Val))
  BY <1>1, <1>2, ReadNumbers DEF CanIssue
<1>4. /\ \A i \in 1..n : /\ Before(i) \in Nat /\ ReqSize(f, i) \in Nat
                         /\ ReqSize(f, i) >= 1
                         /\ f.nextAddr + Before(i) + ReqSize(f, i) <= N
      /\ N \in Nat /\ f.nextAddr <= N /\ N <= f.endAddr
  BY <1>1, <1>2, <1>3, Grid
<1>5. t \in Nat /\ t <= Len(b)
  <2> HIDE DEF N
  <2> QED BY <1>2, <1>3, <1>4 DEF N
<1>6. ASSUME NEW i \in 1..n
      PROVE  /\ D[i] \in Seq(Val) /\ Len(D[i]) = ReqSize(f, i)
             /\ \A k \in 1..ReqSize(f, i) :
                  Before(i) + k \in 1..Len(b) /\ D[i][k] = b[Before(i) + k]
  <2>1. D[i] = SubSeq(b, Before(i) + 1, Before(i) + ReqSize(f, i)) BY DEF Pieces
  <2> DEFINE B == Before(i)
             R == ReqSize(f, i)
  <2>2. B \in Nat /\ R \in Nat /\ R >= 1 /\ f.nextAddr + B + R <= N BY <1>4
  <2> HIDE DEF B, R, N
  <2>3. B + R <= Len(b)
    <3>1. PICK x \in Nat, y \in Nat, z \in Nat : x = f.nextAddr /\ y = N /\ z = Len(b)
      BY <1>3, <1>4
    <3>2. y - x <= z /\ x + B + R <= y BY <1>2, <2>2, <3>1 DEF N
    <3>3. B + R <= z BY <2>2, <3>2
    <3> QED BY <3>1, <3>3
  <2>4. SubSeq(b, B + 1, B + R) \in Seq(Val) /\ Len(SubSeq(b, B + 1, B + R)) = R
        /\ \A k \in 1..R : B + k \in 1..Len(b) /\ SubSeq(b, B + 1, B + R)[k] = b[B + k]
    <3> HIDE DEF b
    <3> QED BY <1>3, <2>2, <2>3
  <2> QED BY <2>1, <2>4 DEF B, R
<1>7. /\ h \in FifoOf(Val) /\ Shape(h)
      /\ h.buffer = f.buffer /\ h.endAddr = f.endAddr /\ h.nextAddr = N
      /\ Len(h.pending) = l + n
      /\ \A i \in 1..l : h.pending[i] = f.pending[i]
      /\ \A i \in 1..n : h.pending[l + i] = NewRequest(f, i, D)
      /\ SizePending(h) = SizePending(f) + (N - f.nextAddr)
  <2>1. \A i \in 1..n : D[i] \in Seq(Val) BY <1>6
  <2> HIDE DEF D
  <2> QED BY <1>1, <1>2, <2>1, IssueShape DEF D
<1>8. /\ c \in Seq(Val) /\ Len(c) = Len(b) - t
      /\ \A k \in 1..(Len(b) - t) : t + k \in 1..Len(b) /\ c[k] = b[t + k]
  <2> HIDE DEF t, b
  <2> QED BY <1>3, <1>5
<1>9. /\ g.buffer = c /\ g.nextAddr = N /\ g.endAddr = f.endAddr /\ g.pending = h.pending
      /\ g \in FifoOf(Val) /\ Shape(g)
  <2> HIDE DEF h
  <2>1. g = [h EXCEPT !.buffer = c] BY <1>2, <1>7 DEF h
  <2> HIDE DEF g, c
  <2>2. /\ g.buffer = c /\ g.nextAddr = h.nextAddr /\ g.endAddr = h.endAddr
        /\ g.pending = h.pending /\ g \in FifoOf(Val)
    BY <1>7, <1>8, <2>1 DEF FifoOf
  <2> QED BY <1>7, <2>2 DEF Shape
<1> HIDE DEF g, h, c
<1>10. WritePos(g) = WritePos(f)
  <2>1. WritePos(g) = N + Len(c) BY <1>9 DEF WritePos
  <2>2. WritePos(f) = f.nextAddr + Len(b) BY DEF WritePos
  <2>3. Len(c) = Len(b) - (N - f.nextAddr) BY <1>8
  <2>4. N \in Nat BY <1>4
  <2> HIDE DEF N, b
  <2> QED BY <1>3, <2>1, <2>2, <2>3, <2>4
<1>11. ASSUME NEW k \in 1..Len(c) PROVE c[k] = V[N - base + k - 1]
  <2>1. t + k \in 1..Len(b) /\ c[k] = b[t + k] BY <1>8
  <2>2. b[t + k] = V[f.nextAddr - base + (t + k) - 1] BY <2>1 DEF Emptying
  <2>3. f.nextAddr - base + (t + k) - 1 = N - base + k - 1
    <3> HIDE DEF N
    <3> QED BY <1>3, <1>4
  <2> QED BY <2>1, <2>2, <2>3
<1>12. ASSUME NEW i \in 1..n
       PROVE  /\ base <= h.pending[l + i].addr
              /\ HoldsBytes(h.pending[l + i], V, base)
  <2> DEFINE q == NewRequest(f, i, D)
  <2>1. h.pending[l + i] = q BY <1>7
  <2>2. q.addr = f.nextAddr + Before(i) /\ q.size = ReqSize(f, i) /\ q.data = D[i]
    BY DEF NewRequest
  <2>3. base <= q.addr
    <3>1. PICK x \in Nat, y \in Nat : x = f.nextAddr /\ y = Before(i) BY <1>3, <1>4
    <3>2. base <= x BY <3>1 DEF Emptying
    <3>3. base <= x + y BY <3>2
    <3> QED BY <2>2, <3>1, <3>3
  <2>4. Len(q.data) = q.size BY <1>6, <2>2
  <2>5. ASSUME NEW k \in 1..q.size PROVE q.data[k] = V[q.addr - base + k - 1]
    <3>1. k \in 1..ReqSize(f, i) BY <2>2
    <3>2. Before(i) + k \in 1..Len(b) /\ q.data[k] = b[Before(i) + k]
      BY <1>6, <2>2, <3>1
    <3>3. b[Before(i) + k] = V[f.nextAddr - base + (Before(i) + k) - 1]
      <4>1. \A t1 \in 1..Len(b) : b[t1] = V[f.nextAddr - base + t1 - 1] BY DEF Emptying
      <4> HIDE DEF b
      <4> QED BY <3>2, <4>1
    <3>4. f.nextAddr - base + (Before(i) + k) - 1 = q.addr - base + k - 1
      <4>1. Before(i) \in Nat /\ k \in Int BY <1>4, <3>1
      <4> QED BY <1>3, <2>2, <4>1
    <3> QED BY <3>2, <3>3, <3>4
  <2> HIDE DEF q
  <2> QED BY <2>1, <2>3, <2>4, <2>5 DEF HoldsBytes
<1>13. ASSUME NEW i \in 1..Len(g.pending)
       PROVE  base <= g.pending[i].addr /\ HoldsBytes(g.pending[i], V, base)
  <2>0. i \in 1..(l + n) /\ g.pending[i] = h.pending[i] BY <1>7, <1>9
  <2>1. CASE i <= l
    <3>1. i \in 1..l BY <1>3, <2>0, <2>1
    <3>2. h.pending[i] = f.pending[i] BY <1>7, <3>1
    <3> QED BY <2>0, <3>1, <3>2 DEF Emptying
  <2>2. CASE i > l
    <3>1. i - l \in 1..n /\ l + (i - l) = i
      <4>1. l \in Nat /\ n \in Nat /\ i \in 1..(l + n) BY <1>3, <2>0
      <4> HIDE DEF l
      <4> QED BY <4>1, <2>2
    <3> DEFINE j == i - l
    <3>2. j \in 1..n /\ l + j = i BY <3>1
    <3> HIDE DEF j
    <3> QED BY <1>12, <2>0, <3>2
  <2>3. i <= l \/ i > l BY <1>3, <2>0
  <2> QED BY <2>1, <2>2, <2>3
<1>14. Emptying(Val, V, base, g)
  <2>1. base <= g.nextAddr BY <1>3, <1>4, <1>9 DEF Emptying
  <2>2. Len(g.buffer) <= FifoSize
    BY <1>3, <1>5, <1>8, <1>9, FifoAssumption DEF Emptying
  <2>3. \A k \in 1..Len(g.buffer) : g.buffer[k] = V[g.nextAddr - base + k - 1]
    BY <1>9, <1>11
  <2> QED BY <1>9, <1>13, <2>1, <2>2, <2>3 DEF Emptying
<1>15. ASSUME NEW a \in Unwritten(f) PROVE a \in Unwritten(g)
  <2>0. a \in Nat /\ Len(g.pending) = l + n BY <1>7, <1>9 DEF Unwritten
  <2>1. CASE f.nextAddr <= a
    <3>1. CASE N <= a BY <1>9, <2>0, <3>1 DEF Unwritten
    <3>2. CASE a < N
      <4>1. PICK i \in 1..n : /\ f.nextAddr + Before(i) <= a
                              /\ a < f.nextAddr + Before(i) + ReqSize(f, i)
        BY <1>1, <1>2, <1>3, <2>0, <2>1, <3>2, GridCovers
      <4>2. l + i \in 1..Len(g.pending) BY <1>3, <2>0
      <4>3. g.pending[l + i] = NewRequest(f, i, D) BY <1>7, <1>9
      <4>4. /\ ~g.pending[l + i].done /\ g.pending[l + i].addr = f.nextAddr + Before(i)
            /\ g.pending[l + i].size = ReqSize(f, i)
        BY <4>3 DEF NewRequest
      <4> QED BY <2>0, <4>1, <4>2, <4>4 DEF Unwritten
    <3>3. N <= a \/ a < N BY <1>4, <2>0
    <3> QED BY <3>1, <3>2, <3>3
  <2>2. CASE ~(f.nextAddr <= a)
    <3>1. PICK i \in 1..l : /\ ~f.pending[i].done
                            /\ f.pending[i].addr <= a
                            /\ a < f.pending[i].addr + f.pending[i].size
      BY <2>2 DEF Unwritten
    <3>2. i \in 1..Len(g.pending) /\ g.pending[i] = f.pending[i]
      BY <1>3, <1>7, <1>9, <2>0
    <3> QED BY <2>0, <3>1, <3>2 DEF Unwritten
  <2> QED BY <2>1, <2>2
<1>16. Advances(f, g)
  <2>1. SizePending(g) = SizePending(f) + (N - f.nextAddr)
    <3>1. SizePending(g) = SizePending(h)
      <4>1. g.nextAddr = h.nextAddr /\ g.pending = h.pending BY <1>7, <1>9
      <4> QED BY <4>1 DEF SizePending
    <3> QED BY <1>7, <3>1
  <2>2. SizePending(f) \in Nat BY <1>1, PendingBytes
  <2>3. N \in Nat /\ f.nextAddr \in Nat /\ f.nextAddr <= N BY <1>3, <1>4
  <2>4. g.nextAddr = N /\ g.endAddr = f.endAddr BY <1>9
  <2> HIDE DEF N
  <2> QED BY <2>1, <2>2, <2>3, <2>4 DEF Advances, FirstUnderWay
<1> QED BY <1>10, <1>14, <1>15, <1>16 DEF g

\* startEmpty() on a drained FIFO begins the block at its first byte, with none
\* of it written.
LEMMA WriteStart ==
  ASSUME NEW Val, NEW V, NEW m \in Nat, NEW base \in Nat, NEW f \in FifoOf(Val),
         f.buffer = <<>>, f.pending = <<>>
  PROVE  /\ GoodWrite(Val, V, m, base, StartEmpty(f, base, m))
         /\ WritePos(StartEmpty(f, base, m)) = base
         /\ \A k \in 0..(m - 1) : base + k \in Unwritten(StartEmpty(f, base, m))
<1> DEFINE g == [f EXCEPT !.nextAddr = base, !.endAddr = base + m]
<1>1. g = [buffer |-> <<>>, nextAddr |-> base, endAddr |-> base + m, pending |-> <<>>]
  <2>1. g = [buffer |-> f.buffer, nextAddr |-> base, endAddr |-> base + m,
             pending |-> f.pending]
    BY Restarted
  <2> HIDE DEF g
  <2> QED BY <2>1
<1>2. g \in FifoOf(Val) /\ Shape(g) /\ WritePos(g) = base
  BY <1>1 DEF FifoOf, Shape, Tiled, WritePos
<1>3. Emptying(Val, V, base, g) /\ g.endAddr = base + m
  BY <1>1, <1>2, FifoAssumption DEF Emptying
<1>4. StartEmpty(f, base, m) = ResumeEmpty(g) BY DEF StartEmpty
<1>5. \A k \in 0..(m - 1) : base + k \in Unwritten(g)
  <2>1. g.nextAddr = base BY <1>1
  <2> HIDE DEF g
  <2> QED BY <2>1 DEF Unwritten
<1> HIDE DEF g
<1>6. /\ Emptying(Val, V, base, ResumeEmpty(g))
      /\ WritePos(ResumeEmpty(g)) = WritePos(g)
      /\ Unwritten(g) \subseteq Unwritten(ResumeEmpty(g))
      /\ Advances(g, ResumeEmpty(g))
  <2>1. base \in Int OBVIOUS
  <2> QED BY <1>3, <2>1, WriteResume
<1>7. ResumeEmpty(g).endAddr = base + m BY <1>3, <1>6 DEF Advances
<1> QED BY <1>2, <1>4, <1>5, <1>6, <1>7 DEF GoodWrite

\* The frame of size s at address a, after which f goes on where it was in its
\* stream; the frame is not yet written.
WritesOn(Val, V, base, f, a, s) ==
  LET g == StartEmpty(f, a, s)
      b == a - (f.nextAddr - base)
  IN  /\ Emptying(Val, V, b, g)
      /\ WritePos(g) - b = WritePos(f) - base
      /\ g.endAddr = a + s /\ a <= g.nextAddr /\ a <= FirstUnderWay(g)
      /\ \A x \in Nat : a <= x => x \in Unwritten(g)

\* startEmpty() on a FIFO at the end of its block goes on with the stream,
\* whatever is in its buffer already and wherever the next frame lies.
LEMMA WriteRestart ==
  ASSUME NEW Val, NEW V, NEW base \in Int, NEW f,
         Emptying(Val, V, base, f), f.pending = <<>>, f.nextAddr = f.endAddr,
         NEW a \in Nat, NEW s \in Nat
  PROVE  WritesOn(Val, V, base, f, a, s)
<1> DEFINE h == [f EXCEPT !.nextAddr = a, !.endAddr = a + s]
           g == StartEmpty(f, a, s)
           b == a - (f.nextAddr - base)
<1>1. f \in FifoOf(Val) /\ Shape(f) BY DEF Emptying
<1>2. h = [buffer |-> f.buffer, nextAddr |-> a, endAddr |-> a + s, pending |-> <<>>]
  <2>1. h = [buffer |-> f.buffer, nextAddr |-> a, endAddr |-> a + s,
             pending |-> f.pending]
    BY <1>1, Restarted
  <2> HIDE DEF h
  <2> QED BY <2>1
<1>3. f.buffer \in Seq(Val) /\ Len(f.buffer) \in Nat /\ f.nextAddr \in Nat
      /\ base <= f.nextAddr
  BY <1>1, ReadNumbers DEF Emptying
<1>4. /\ h.buffer = f.buffer /\ h.nextAddr = a /\ h.endAddr = a + s /\ h.pending = <<>>
      /\ h \in FifoOf(Val) /\ Shape(h) /\ SizePending(h) = 0
  <2>1. h.buffer = f.buffer /\ h.nextAddr = a /\ h.endAddr = a + s /\ h.pending = <<>>
    BY <1>2
  <2>2. h \in FifoOf(Val)
    <3>1. <<>> \in Seq(RequestOf(Val)) OBVIOUS
    <3> HIDE DEF h
    <3> QED BY <1>2, <1>3, <3>1 DEF FifoOf
  <2> HIDE DEF h
  <2>3. Shape(h) /\ SizePending(h) = 0 BY <2>1 DEF Shape, Tiled, SizePending
  <2> QED BY <2>1, <2>2, <2>3
<1>5. g = ResumeEmpty(h) BY DEF StartEmpty
<1> HIDE DEF h, g
<1>6. b \in Int /\ a - b = f.nextAddr - base /\ b <= a BY <1>3
<1>7. WritePos(h) = a + Len(f.buffer) /\ WritePos(f) = f.nextAddr + Len(f.buffer)
  BY <1>4 DEF WritePos
<1>8. WritePos(h) - b = WritePos(f) - base BY <1>3, <1>7
<1> HIDE DEF b
<1>9. Emptying(Val, V, b, h)
  <2>1. ASSUME NEW k \in 1..Len(f.buffer)
        PROVE  f.buffer[k] = V[a - b + k - 1]
    BY <1>6 DEF Emptying
  <2>2. Len(h.buffer) <= FifoSize BY <1>4 DEF Emptying
  <2> QED BY <1>4, <1>6, <2>1, <2>2 DEF Emptying
<1>10. FirstUnderWay(h) = a BY <1>4 DEF FirstUnderWay
<1>11. /\ Emptying(Val, V, b, g) /\ WritePos(g) = WritePos(h) /\ Advances(h, g)
       /\ Unwritten(h) \subseteq Unwritten(g)
  BY <1>5, <1>6, <1>9, WriteResume
<1>12. g.endAddr = a + s /\ a <= g.nextAddr /\ a <= FirstUnderWay(g)
  BY <1>4, <1>10, <1>11 DEF Advances
<1>13. \A x \in Nat : a <= x => x \in Unwritten(h) BY <1>4 DEF Unwritten
<1> QED BY <1>8, <1>11, <1>12, <1>13 DEF WritesOn, g, b

\* fill() with the next bytes of the block appends them.
LEMMA WriteFill ==
  ASSUME NEW Val, NEW V, NEW base \in Int, NEW f,
         Emptying(Val, V, base, f), NEW d \in Seq(Val),
         CanFill(f, Len(d)),
         \A k \in 1..Len(d) : d[k] = V[WritePos(f) - base + k - 1]
  PROVE  /\ Emptying(Val, V, base, Fill(f, d))
         /\ WritePos(Fill(f, d)) = WritePos(f) + Len(d)
         /\ Unwritten(f) \subseteq Unwritten(Fill(f, d))
         /\ Advances(f, Fill(f, d))
<1> DEFINE b == f.buffer
           bd == b \o d
           g == [f EXCEPT !.buffer = bd]
<1>1. f \in FifoOf(Val) /\ Shape(f) BY DEF Emptying
<1>2. /\ f.nextAddr \in Nat /\ Len(b) \in Nat /\ b \in Seq(Val) /\ Len(d) \in Nat
      /\ f.endAddr \in Nat
  BY <1>1, ReadNumbers
<1>3. /\ bd \in Seq(Val) /\ Len(bd) = Len(b) + Len(d)
      /\ \A k \in 1..Len(b) : bd[k] = b[k]
      /\ \A k \in 1..(Len(b) + Len(d)) :
           k > Len(b) => k - Len(b) \in 1..Len(d) /\ bd[k] = d[k - Len(b)]
  <2>1. b \in Seq(Val) BY <1>2
  <2> HIDE DEF b
  <2> QED BY <2>1, Joined
<1>4. Fill(f, d) = ResumeEmpty(g) BY DEF Fill
<1> HIDE DEF bd
<1>5. /\ g.buffer = bd /\ g.nextAddr = f.nextAddr /\ g.endAddr = f.endAddr
      /\ g.pending = f.pending /\ g \in FifoOf(Val)
  BY <1>1, <1>3 DEF FifoOf
<1> HIDE DEF g
<1>6. Shape(g) BY <1>1, <1>5 DEF Shape
<1>7. WritePos(g) = WritePos(f) + Len(d)
  <2>1. WritePos(g) = f.nextAddr + (Len(b) + Len(d)) BY <1>3, <1>5 DEF WritePos
  <2>2. WritePos(f) = f.nextAddr + Len(b) BY DEF WritePos
  <2> HIDE DEF b
  <2> QED BY <1>2, <2>1, <2>2
<1>8. ASSUME NEW k \in 1..Len(bd) PROVE bd[k] = V[f.nextAddr - base + k - 1]
  <2>0. k \in 1..(Len(b) + Len(d)) BY <1>3
  <2>1. CASE k <= Len(b)
    <3>1. k \in 1..Len(b) BY <1>2, <2>1
    <3> QED BY <1>3, <3>1 DEF Emptying
  <2>2. CASE k > Len(b)
    <3>1. k - Len(b) \in 1..Len(d) /\ bd[k] = d[k - Len(b)] BY <1>3, <2>0, <2>2
    <3>2. d[k - Len(b)] = V[WritePos(f) - base + (k - Len(b)) - 1] BY <3>1
    <3>3. WritePos(f) - base + (k - Len(b)) - 1 = f.nextAddr - base + k - 1
      <4>1. WritePos(f) = f.nextAddr + Len(b) BY DEF WritePos
      <4> HIDE DEF b
      <4> QED BY <1>2, <4>1
    <3> QED BY <3>1, <3>2, <3>3
  <2>3. k <= Len(b) \/ k > Len(b) BY <1>2
  <2> QED BY <2>1, <2>2, <2>3
<1>9. Emptying(Val, V, base, g)
  <2>1. Len(bd) <= FifoSize BY <1>3 DEF CanFill
  <2> QED BY <1>5, <1>6, <1>8, <2>1 DEF Emptying
<1>10. Unwritten(g) = Unwritten(f) BY <1>5 DEF Unwritten
<1>11. /\ Emptying(Val, V, base, ResumeEmpty(g))
       /\ WritePos(ResumeEmpty(g)) = WritePos(g)
       /\ Unwritten(g) \subseteq Unwritten(ResumeEmpty(g))
       /\ Advances(g, ResumeEmpty(g))
  BY <1>9, WriteResume
<1>12. Advances(f, ResumeEmpty(g))
  <2>1. SizePending(g) = SizePending(f) BY <1>5 DEF SizePending
  <2>2. FirstUnderWay(g) = FirstUnderWay(f) BY <1>5, <2>1 DEF FirstUnderWay
  <2> QED BY <1>5, <1>11, <2>2 DEF Advances
<1> QED BY <1>4, <1>7, <1>10, <1>11, <1>12

\* What handlePending() leaves of write FIFO f.
WriteRetired(f) == [f EXCEPT !.pending = SubSeq(@, Retired(f) + 1, Len(@))]

\* handlePending() of a write FIFO drops only requests that are done.
LEMMA WriteRetire ==
  ASSUME NEW Val, NEW V, NEW base \in Int, NEW f,
         Emptying(Val, V, base, f), NEW g, g = WriteRetired(f)
  PROVE  /\ Emptying(Val, V, base, g) /\ WritePos(g) = WritePos(f)
         /\ Unwritten(f) \subseteq Unwritten(g) /\ Advances(f, g)
<1> DEFINE n == Retired(f)
           p == f.pending
           q == SubSeq(p, n + 1, Len(p))
<1>1. f \in FifoOf(Val) /\ Shape(f) BY DEF Emptying
<1>2. p \in Seq(RequestOf(Val)) /\ Len(p) \in Nat /\ f.nextAddr \in Nat
  BY <1>1, ReadNumbers
<1>3. n \in 0..Len(p) /\ \A i \in 1..n : p[i].done BY <1>1, RetiredAreDone
<1> HIDE DEF n
<1>4. /\ q \in Seq(RequestOf(Val)) /\ Len(q) = Len(p) - n /\ Tiled(q, f.nextAddr)
      /\ \A i \in 1..(Len(p) - n) : n + i \in 1..Len(p) /\ q[i] = p[n + i]
  <2>1. Tiled(p, f.nextAddr) BY <1>1 DEF Shape
  <2>2. n \in 0..Len(p) BY <1>3
  <2> HIDE DEF p
  <2> QED BY <1>2, <2>1, <2>2, RetireTiled
<1>5. /\ g.buffer = f.buffer /\ g.nextAddr = f.nextAddr /\ g.endAddr = f.endAddr
      /\ g.pending = q /\ g \in FifoOf(Val)
  <2>1. g = [f EXCEPT !.pending = q] BY DEF WriteRetired, n
  <2> HIDE DEF q
  <2> QED BY <1>1, <1>4, <2>1 DEF FifoOf
<1> HIDE DEF q
<1>6. Shape(g) BY <1>1, <1>4, <1>5 DEF Shape
<1>7. WritePos(g) = WritePos(f) BY <1>5 DEF WritePos
<1>8. ASSUME NEW i \in 1..Len(q)
      PROVE  base <= q[i].addr /\ HoldsBytes(q[i], V, base)
  <2>1. n + i \in 1..Len(p) /\ q[i] = p[n + i] BY <1>4
  <2> QED BY <2>1 DEF Emptying
<1>9. Emptying(Val, V, base, g)
  BY <1>5, <1>6, <1>7, <1>8 DEF Emptying
<1>10. ASSUME NEW a \in Unwritten(f) PROVE a \in Unwritten(g)
  <2>0. a \in Nat BY DEF Unwritten
  <2>1. CASE f.nextAddr <= a BY <1>5, <2>0, <2>1 DEF Unwritten
  <2>2. CASE ~(f.nextAddr <= a)
    <3>1. PICK i \in 1..Len(p) : /\ ~p[i].done /\ p[i].addr <= a
                                 /\ a < p[i].addr + p[i].size
      BY <2>2 DEF Unwritten
    <3>2. i > n
      <4>1. ~(i \in 1..n) BY <1>3, <3>1
      <4> QED BY <1>2, <1>3, <4>1
    <3>3. i - n \in 1..(Len(p) - n) /\ n + (i - n) = i BY <1>2, <1>3, <3>2
    <3> DEFINE j == i - n
    <3>4. j \in 1..Len(q) /\ q[j] = p[i]
      <4>1. j \in 1..(Len(p) - n) /\ n + j = i BY <3>3
      <4> HIDE DEF j, p
      <4> QED BY <1>4, <4>1
    <3> HIDE DEF j, p
    <3> QED BY <1>5, <2>0, <3>1, <3>4 DEF Unwritten
  <2> QED BY <2>1, <2>2
<1>11. Advances(f, g)
  <2>1. Past(p, n) \in Nat
    <3>1. CASE n = 0 BY <3>1 DEF Past
    <3>2. CASE n # 0
      <4>1. n \in 1..Len(p) BY <1>2, <1>3, <3>2
      <4>2. /\ p[n].addr \in Nat /\ p[n].size \in Nat /\ p[1].addr \in Nat
            /\ p[1].addr <= p[n].addr
        <5>1. 1 \in 1..Len(p) BY <1>2, <4>1
        <5> QED BY <1>1, <4>1, <5>1, ReadNumbers
      <4> QED BY <3>2, <4>2 DEF Past
    <3> QED BY <3>1, <3>2
  <2>2. SizePending(f) = SizePending(g) + Past(p, n)
    BY <1>1, <1>3, <1>5, RetireSize DEF q
  <2>3. SizePending(g) \in Nat BY <1>5, <1>6, PendingBytes
  <2> HIDE DEF p
  <2> QED BY <1>2, <1>5, <2>1, <2>2, <2>3 DEF Advances, FirstUnderWay
<1> QED BY <1>7, <1>9, <1>10, <1>11

\* The answer to the i-th request of f keeps the block in order, and what leaves
\* the set of unwritten addresses is that request.
Writes(Val, V, base, f, i) ==
  /\ Emptying(Val, V, base, WriteDone(f, i))
  /\ WritePos(WriteDone(f, i)) = WritePos(f) /\ Advances(f, WriteDone(f, i))
  /\ \A a \in Unwritten(f) :
       \/ a \in Unwritten(WriteDone(f, i))
       \/ /\ f.pending[i].addr <= a
          /\ a < f.pending[i].addr + f.pending[i].size

\* dmaDone() of a write FIFO takes the request that was answered, and no other,
\* off the unwritten addresses.
LEMMA WriteAnswer ==
  ASSUME NEW Val, NEW V, NEW base \in Int, NEW f,
         Emptying(Val, V, base, f), NEW i \in 1..Len(f.pending)
  PROVE  Writes(Val, V, base, f, i)
<1> DEFINE q == [f.pending[i] EXCEPT !.done = TRUE]
           g == Updated(f, i, q)
           h == WriteRetired(g)
<1>1. f \in FifoOf(Val) /\ Shape(f) BY DEF Emptying
<1>2. f.pending[i] \in RequestOf(Val) /\ Len(f.pending) \in Nat BY <1>1, ReadNumbers
<1>3. q \in RequestOf(Val) /\ q.addr = f.pending[i].addr /\ q.size = f.pending[i].size
      /\ q.data = f.pending[i].data
  BY <1>2 DEF RequestOf
<1>4. base <= q.addr /\ HoldsBytes(q, V, base)
  BY <1>3 DEF Emptying, HoldsBytes
<1>5. WriteDone(f, i) = ResumeEmpty(h) BY DEF WriteDone, WriteRetired, Updated
<1> HIDE DEF q, g
<1>6. /\ g \in FifoOf(Val) /\ Shape(g)
      /\ g.buffer = f.buffer /\ g.nextAddr = f.nextAddr /\ g.endAddr = f.endAddr
      /\ Len(g.pending) = Len(f.pending)
      /\ g.pending[i] = q
      /\ \A j \in 1..Len(f.pending) : j # i => g.pending[j] = f.pending[j]
      /\ SizePending(g) = SizePending(f)
  <2>1. g = Updated(f, i, q) BY DEF g
  <2> QED BY <1>1, <1>3, <2>1, AnswerShape
<1>7. WritePos(g) = WritePos(f) BY <1>6 DEF WritePos
<1>8. Emptying(Val, V, base, g)
  BY <1>4, <1>6, <1>7 DEF Emptying
<1> HIDE DEF h
<1>9. /\ Emptying(Val, V, base, h) /\ WritePos(h) = WritePos(g)
      /\ Unwritten(g) \subseteq Unwritten(h) /\ Advances(g, h)
  <2>1. h = WriteRetired(g) BY DEF h
  <2> QED BY <1>8, <2>1, WriteRetire
<1>10. /\ Emptying(Val, V, base, ResumeEmpty(h))
       /\ WritePos(ResumeEmpty(h)) = WritePos(h)
       /\ Unwritten(h) \subseteq Unwritten(ResumeEmpty(h))
       /\ Advances(h, ResumeEmpty(h))
  BY <1>9, WriteResume
<1>12. Advances(f, ResumeEmpty(h))
  <2>1. /\ h \in FifoOf(Val) /\ Shape(h)
        /\ ResumeEmpty(h) \in FifoOf(Val) /\ Shape(ResumeEmpty(h))
    BY <1>9, <1>10 DEF Emptying
  <2>2. Advances(f, g)
    <3>1. f.nextAddr \in Nat /\ SizePending(f) \in Nat BY <1>1, ReadNumbers
    <3> QED BY <1>6, <3>1 DEF Advances, FirstUnderWay
  <2>3. Advances(f, h) BY <1>1, <1>6, <1>9, <2>1, <2>2, AdvancesOn
  <2> QED BY <1>1, <1>10, <2>1, <2>3, AdvancesOn
<1>11. ASSUME NEW a \in Unwritten(f),
              ~(f.pending[i].addr <= a /\ a < f.pending[i].addr + f.pending[i].size)
       PROVE  a \in Unwritten(g)
  <2>1. a \in Nat BY DEF Unwritten
  <2>2. CASE f.nextAddr <= a BY <1>6, <2>1, <2>2 DEF Unwritten
  <2>3. CASE ~(f.nextAddr <= a)
    <3>1. PICK j \in 1..Len(f.pending) :
            /\ ~f.pending[j].done /\ f.pending[j].addr <= a
            /\ a < f.pending[j].addr + f.pending[j].size
      BY <2>3 DEF Unwritten
    <3>2. j # i BY <1>11, <3>1
    <3> QED BY <1>6, <2>1, <3>1, <3>2 DEF Unwritten
  <2> QED BY <2>2, <2>3
<1> QED BY <1>5, <1>7, <1>9, <1>10, <1>11, <1>12 DEF Writes
=============================================================================
