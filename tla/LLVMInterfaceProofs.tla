------------------------- MODULE LLVMInterfaceProofs -------------------------
(***************************************************************************)
(* Proofs about the runtime engine, for every program in SSA form, every   *)
(* configuration of the hardware and every order in which the memory       *)
(* serves the requests: the counts of active parents are exact, every node *)
(* but a phi is launched with the operands of sequential execution,        *)
(* registers are written in program order, and the engine finishes with    *)
(* nothing under way.  For executions in which accesses and phis stay in   *)
(* order, phis, loads and the final memory are those of sequential         *)
(* execution, too.                                                         *)
(*                                                                         *)
(* The parts of the invariant are about plain values: N is the sequence of *)
(* nodes, W the set of nodes that wait in the reservation table.           *)
(***************************************************************************)
EXTENDS LLVMInterface, WellFoundedInduction, FiniteSetTheorems, SequenceTheorems, TLAPS

(***************************************************************************)
(* The invariant                                                           *)
(***************************************************************************)

\* The instruction of node n and the registers it depends on.
At(N, n) == Code[N[n].blk][N[n].idx]
DepsAt(N, n) == Dependencies(At(N, n), N[n].prev)

\* The last node before n that returns to register r; 0 if there is none.
WriterBefore(N, r, n) == Latest({m \in 1..(n - 1) : At(N, m).ret = r})

\* The nodes that have not committed.
Open(N) == {m \in 1..Len(N) : ~N[m].committed}

\* The parents that node c was linked to.
Parents(c) ==
  {c.producers[j] : j \in DOMAIN c.producers} \cup {c.others[k] : k \in 1..Len(c.others)}

IsNode(c) ==
  c = [blk |-> c.blk, idx |-> c.idx, prev |-> c.prev, others |-> c.others,
       producers |-> c.producers, active |-> c.active, ops |-> c.ops, base |-> c.base,
       cycle |-> c.cycle, value |-> c.value, committed |-> c.committed]

\* Node n has the fields of a node of some instruction.
Formed(N, n) ==
  /\ IsNode(N[n])
  /\ N[n].blk \in Blocks /\ N[n].prev \in Blocks /\ N[n].idx \in 1..Len(Code[N[n].blk])
  /\ N[n].others \in Seq(Nat) /\ N[n].cycle \in Nat /\ N[n].committed \in BOOLEAN
  /\ DOMAIN N[n].producers \subseteq 1..Len(DepsAt(N, n))
  /\ N[n].ops \in [1..Len(DepsAt(N, n)) -> {Unset} \cup 0..Len(N)]

\* A parent is an earlier store or the last earlier node that returns to its
\* register; the one that was found for an operand returns to the operand's.
Linked(N, n) ==
  /\ \A p \in Parents(N[n]) :
       /\ p \in 1..(n - 1) /\ At(N, p).op \notin {"br", "ret"}
       /\ At(N, p).op # "store" => p = WriterBefore(N, At(N, p).ret, n)
  /\ \A j \in DOMAIN N[n].producers :
       N[n].producers[j] = WriterBefore(N, DepsAt(N, n)[j], n)

\* What active counts.
Counted(N, n) ==
  N[n].active = Links(N[n], Open(N)) + (IF At(N, n).op = "ret" THEN 1 ELSE 0)

\* The instances of an instruction that returns to a register commit in program
\* order: one that does not wait any more has only committed ones before it, and
\* one with others before it under way is linked to the last of them.
Chained(N, W, n) ==
  At(N, n).ret # None =>
    \A m \in 1..(n - 1) : At(N, m).ret = At(N, n).ret =>
      /\ n \notin W => m \notin Open(N)
      /\ m \in Open(N) => WriterBefore(N, At(N, n).ret, n) \in Parents(N[n])

\* An operand whose producer is under way is linked to it, any other is there.
Filled(N, n) ==
  \A j \in 1..Len(DepsAt(N, n)) :
    LET w == WriterBefore(N, DepsAt(N, n)[j], n)
    IN  /\ w \in Open(N) => j \in DOMAIN N[n].producers
        /\ At(N, n).op # "phi" /\ w \notin Open(N) => N[n].ops[j] = w

\* A node does not leave the table before its parents have committed.
Ready(N, W, n) == n \notin W => Parents(N[n]) \cap Open(N) = {}

IsSeq(s) == Len(s) \in Nat /\ s = [i \in 1..Len(s) |-> s[i]]

NodesOK(N, W) ==
  /\ IsSeq(N)
  /\ \A n \in 1..Len(N) :
       /\ Formed(N, n) /\ Linked(N, n) /\ Counted(N, n)
       /\ Chained(N, W, n) /\ Filled(N, n) /\ Ready(N, W, n)

\* A register holds the last value committed to it.
RegistersOK(N, regs) ==
  regs = [r \in Regs |-> Latest({m \in (1..Len(N)) \ Open(N) : At(N, m).ret = r})]

\* The elements of a queue without repetition.
Distinct(q) == \A i, j \in 1..Len(q) : q[i] = q[j] => i = j

\* Every node that has not committed is in one queue, a ret at most in the table;
\* the table is in program order, and stores and loads are in their queues.
QueuesOK(N, res, comp, rd, wr) ==
  /\ res \in Seq(Open(N)) /\ comp \in Seq(Open(N)) /\ rd \in Seq(Open(N)) /\ wr \in Seq(Open(N))
  /\ \A i, j \in 1..Len(res) : i < j => res[i] < res[j]
  /\ Distinct(comp) /\ Distinct(rd) /\ Distinct(wr)
  /\ \A i \in 1..Len(comp) : At(N, comp[i]).op \in {"op", "phi", "gep"}
  /\ \A i \in 1..Len(rd) : At(N, rd[i]).op = "load"
  /\ \A i \in 1..Len(wr) : At(N, wr[i]).op = "store"
  /\ \A n \in Elements(comp) \cup Elements(rd) \cup Elements(wr) : n \notin Elements(res)
  /\ \A n \in Open(N) :
       At(N, n).op # "ret" =>
         n \in Elements(res) \cup Elements(comp) \cup Elements(rd) \cup Elements(wr)

\* The last node is the branch or ret of the current block and waits until the
\* next block comes in or the engine finishes.
LastOK ==
  /\ entered \in Nat /\ (entered = 0 <=> Len(node) = 0)
  /\ currBB \in Blocks /\ prevBB \in Blocks
  /\ Len(node) > 0 =>
       /\ currBB = node[Len(node)].blk /\ node[Len(node)].idx = Len(Code[currBB])
       /\ finished \/ Len(node) \in Elements(reservation)
  /\ \A n \in Nodes : /\ Instr(n).op = "ret" => n = Len(node)
                      /\ Instr(n).op = "br" /\ Waiting(n) => n = Len(node)
  /\ \/ entered <= MaxBlocks
     \/ entered = MaxBlocks + 1 /\ Instr(Len(node)).op = "ret"
  /\ finished => /\ Quiet /\ reservation = <<>> /\ ~running
                 /\ \A n \in Nodes : node[n].committed \/ Instr(n).op = "ret"

\* The nodes, the registers and the queues.
StateOK ==
  /\ NodesOK(node, Elements(reservation))
  /\ RegistersOK(node, register)
  /\ QueuesOK(node, reservation, computeQueue, readQueue, writeQueue)

\* The rest of the state.
RestOK ==
  /\ \A a \in DOMAIN mem : mem[a] \in Nodes
  /\ scan \in Nat
  /\ config \in Configs /\ used \in [Units -> Nat] /\ worked \subseteq Nodes

Inv == StateOK /\ LastOK /\ RestOK

(***************************************************************************)
(* Sequences, greatest elements, links                                     *)
(***************************************************************************)

\* Sequence s is q after p.
Joined(p, q, s) ==
  /\ IsSeq(s) /\ Len(s) = Len(p) + Len(q)
  /\ \A i \in 1..Len(p) : s[i] = p[i]
  /\ \A i \in 1..Len(q) : s[Len(p) + i] = q[i]

\* Two sequences one after the other.
LEMMA Join ==
  ASSUME NEW p, IsSeq(p), NEW q, IsSeq(q)
  PROVE  Joined(p, q, p \o q)
<1> DEFINE T == {p[i] : i \in 1..Len(p)} \cup {q[i] : i \in 1..Len(q)}
<1>1. Len(p) \in Nat /\ Len(q) \in Nat BY DEF IsSeq
<1>2. p \in Seq(T)
  <2>1. \A i \in 1..Len(p) : p[i] \in T OBVIOUS
  <2> HIDE DEF T
  <2>2. [i \in 1..Len(p) |-> p[i]] \in Seq(T) BY <1>1, <2>1
  <2> QED BY <2>2 DEF IsSeq
<1>3. q \in Seq(T)
  <2>1. \A i \in 1..Len(q) : q[i] \in T OBVIOUS
  <2> HIDE DEF T
  <2>2. [i \in 1..Len(q) |-> q[i]] \in Seq(T) BY <1>1, <2>1
  <2> QED BY <2>2 DEF IsSeq
<1> HIDE DEF T
<1>4. /\ p \o q \in Seq(T) /\ Len(p \o q) = Len(p) + Len(q)
      /\ \A i \in 1..Len(p) : (p \o q)[i] = p[i]
      /\ \A i \in 1..Len(q) : (p \o q)[Len(p) + i] = q[i]
  BY <1>2, <1>3
<1>5. IsSeq(p \o q)
  <2> DEFINE s == p \o q
  <2>1. s \in Seq(T) BY <1>4
  <2> HIDE DEF s
  <2>2. Len(s) \in Nat /\ s = [i \in 1..Len(s) |-> s[i]] BY <2>1
  <2> QED BY <2>2 DEF IsSeq, s
<1> QED BY <1>4, <1>5 DEF Joined

\* A set of natural numbers has a least element.
LEMMA Least ==
  ASSUME NEW T \in SUBSET Nat, T # {}
  PROVE  \E t \in T : \A u \in T : t <= u
<1> DEFINE R == OpToRel(<, Nat)
<1>1. IsWellFoundedOn(R, Nat) BY NatLessThanWellFounded
<1>2. \A x, y \in Nat : <<y, x>> \in R <=> y < x BY DEF OpToRel
<1> HIDE DEF R
<1>3. PICK x \in T : \A y \in T : ~(<<y, x>> \in R) BY <1>1, WFMin
<1>4. \A y \in T : ~(y < x) BY <1>2, <1>3
<1> QED BY <1>4

\* Latest is the greatest element of a bounded set.
LEMMA LatestIs ==
  ASSUME NEW k \in Nat, NEW S, S \subseteq 1..k
  PROVE  /\ S = {} => Latest(S) = 0
         /\ S # {} => Latest(S) \in S /\ \A x \in S : x <= Latest(S)
         /\ Latest(S) \in 0..k
         /\ \A x \in S : (\A y \in S : y <= x) => Latest(S) = x
<1>0. \A x \in S : x \in Nat /\ x >= 1 /\ x <= k OBVIOUS
<1>1. ASSUME S # {} PROVE \E x \in S : \A y \in S : y <= x
  <2> DEFINE T == {t \in Nat : \A y \in S : y <= t}
  <2>1. T \in SUBSET Nat /\ k \in T BY <1>0
  <2>2. PICK t \in T : \A u \in T : t <= u
    <3> HIDE DEF T
    <3>1. T # {} BY <2>1
    <3> QED BY <2>1, <3>1, Least
  <2>3. t \in Nat /\ \A y \in S : y <= t OBVIOUS
  <2>4. CASE t \in S BY <2>3, <2>4
  <2>5. CASE t \notin S
    <3>1. PICK y \in S : TRUE BY <1>1
    <3>0. y \in Nat /\ y >= 1 /\ y <= t BY <1>0, <2>3
    <3>5. t > 0 BY <2>3, <3>0
    <3>2. t - 1 \in Nat /\ \A y1 \in S : y1 <= t - 1 BY <1>0, <2>3, <2>5, <3>5
    <3>3. t - 1 \in T BY <3>2
    <3>4. t <= t - 1 BY <2>2, <3>3
    <3> QED BY <2>3, <3>4
  <2> QED BY <2>4, <2>5
<1>2. ASSUME S # {} PROVE Latest(S) \in S /\ \A x \in S : x <= Latest(S)
  BY <1>1, <1>2 DEF Latest
<1>3. S = {} => Latest(S) = 0 BY DEF Latest
<1>4. Latest(S) \in 0..k
  <2>1. CASE S = {} BY <1>3, <2>1
  <2>2. CASE S # {}
    <3>1. Latest(S) \in Nat /\ Latest(S) <= k BY <1>0, <1>2, <2>2
    <3> QED BY <3>1
  <2> QED BY <2>1, <2>2
<1>5. ASSUME NEW x \in S, \A y \in S : y <= x PROVE Latest(S) = x
  <2>1. Latest(S) \in S /\ x <= Latest(S) BY <1>2
  <2>2. Latest(S) <= x BY <1>5, <2>1
  <2>3. x \in Nat /\ Latest(S) \in Nat BY <1>0, <2>1
  <2> HIDE DEF Latest
  <2> QED BY <2>1, <2>2, <2>3
<1> QED BY <1>2, <1>3, <1>4, <1>5

\* Last finds the last element of a queue that is in S.
LEMMA LastIs ==
  ASSUME NEW q, IsSeq(q), NEW S
  PROVE  \/ Last(q, S) = <<>> /\ \A i \in 1..Len(q) : q[i] \notin S
         \/ \E i \in 1..Len(q) :
              /\ Last(q, S) = <<q[i]>> /\ q[i] \in S
              /\ \A j \in 1..Len(q) : q[j] \in S => j <= i
<1> DEFINE I == {i \in 1..Len(q) : q[i] \in S}
<1>1. Last(q, S) = IF I = {} THEN <<>> ELSE <<q[CHOOSE i \in I : \A j \in I : j <= i]>>
  BY DEF Last
<1>2. CASE I = {} BY <1>1, <1>2
<1>3. CASE I # {}
  <2>1. I \subseteq 1..Len(q) /\ Len(q) \in Nat BY DEF IsSeq
  <2> DEFINE x == CHOOSE i \in I : \A j \in I : j <= i
  <2>2. x = Latest(I)
    <3> HIDE DEF I
    <3> QED BY <1>3 DEF Latest
  <2>3. x \in I /\ \A j \in I : j <= x
    <3> HIDE DEF I, x
    <3> QED BY <1>3, <2>1, <2>2, LatestIs
  <2>4. Last(q, S) = <<q[x]>> BY <1>1, <1>3
  <2> HIDE DEF x
  <2> QED BY <2>3, <2>4
<1> QED BY <1>2, <1>3

\* A finite set, counted in two parts.
LEMMA CountParts ==
  ASSUME NEW A, NEW B, IsFiniteSet(A), IsFiniteSet(B), A \cap B = {}
  PROVE  /\ Cardinality(A) \in Nat /\ Cardinality(B) \in Nat
         /\ Cardinality(A) = 0 <=> A = {}
         /\ Cardinality(B) = 0 <=> B = {}
         /\ Cardinality(A \cup B) = Cardinality(A) + Cardinality(B)
<1>1. Cardinality(A) \in Nat /\ Cardinality(B) \in Nat BY FS_CardinalityType
<1>2. (Cardinality(A) = 0 <=> A = {}) /\ (Cardinality(B) = 0 <=> B = {}) BY FS_EmptySet
<1>3. Cardinality(A \cap B) = 0 BY FS_EmptySet
<1>4. Cardinality(A \cup B) = Cardinality(A) + Cardinality(B) - Cardinality(A \cap B)
  BY FS_Union
<1>5. PICK x \in Nat, y \in Nat : x = Cardinality(A) /\ y = Cardinality(B) BY <1>1
<1>6. Cardinality(A \cup B) = x + y BY <1>3, <1>4, <1>5
<1> QED BY <1>1, <1>2, <1>5, <1>6

\* The links of node c to U are those to S and those to the others of U.
Split(c, U, S) == Links(c, U) = Links(c, U \ S) + Links(c, S)

\* The links of a node to a set of nodes, and to two parts of the set.
LEMMA LinkCount ==
  ASSUME NEW c, NEW d \in Nat, DOMAIN c.producers \subseteq 1..d, Len(c.others) \in Nat,
         NEW U, NEW S, S \subseteq U
  PROVE  /\ Links(c, S) \in Nat
         /\ Links(c, S) = 0 <=> Parents(c) \cap S = {}
         /\ Split(c, U, S)
<1> DEFINE P(X) == {j \in DOMAIN c.producers : c.producers[j] \in X}
           Q(X) == {k \in 1..Len(c.others) : c.others[k] \in X}
<1>1. \A X : Links(c, X) = Cardinality(P(X)) + Cardinality(Q(X)) BY DEF Links
<1>2. IsFiniteSet(1..d) /\ IsFiniteSet(1..Len(c.others)) BY FS_Interval
<1>3. \A X : P(X) \subseteq 1..d /\ Q(X) \subseteq 1..Len(c.others) OBVIOUS
<1>4. Parents(c) \cap S = {} <=> P(S) = {} /\ Q(S) = {} BY DEF Parents
<1>5. PICK A1, B1, A2, B2 : A1 = P(U \ S) /\ B1 = P(S) /\ A2 = Q(U \ S) /\ B2 = Q(S)
  OBVIOUS
<1>6. /\ P(U) = A1 \cup B1 /\ A1 \cap B1 = {}
      /\ Q(U) = A2 \cup B2 /\ A2 \cap B2 = {}
  BY <1>5
<1> HIDE DEF P, Q
<1>7. IsFiniteSet(A1) /\ IsFiniteSet(B1) /\ IsFiniteSet(A2) /\ IsFiniteSet(B2)
  BY <1>2, <1>3, <1>5, FS_Subset
<1>8. /\ Cardinality(A1) \in Nat /\ Cardinality(B1) \in Nat
      /\ Cardinality(B1) = 0 <=> B1 = {}
      /\ Cardinality(A1 \cup B1) = Cardinality(A1) + Cardinality(B1)
  BY <1>6, <1>7, CountParts
<1>9. /\ Cardinality(A2) \in Nat /\ Cardinality(B2) \in Nat
      /\ Cardinality(B2) = 0 <=> B2 = {}
      /\ Cardinality(A2 \cup B2) = Cardinality(A2) + Cardinality(B2)
  BY <1>6, <1>7, CountParts
<1>10. /\ Links(c, S) = Cardinality(B1) + Cardinality(B2)
       /\ Links(c, U \ S) = Cardinality(A1) + Cardinality(A2)
       /\ Links(c, U) = Cardinality(A1 \cup B1) + Cardinality(A2 \cup B2)
  BY <1>1, <1>5, <1>6
<1>11. Parents(c) \cap S = {} <=> Cardinality(B1) = 0 /\ Cardinality(B2) = 0
  BY <1>4, <1>5, <1>8, <1>9
<1>12. PICK a1 \in Nat, b1 \in Nat, a2 \in Nat, b2 \in Nat :
         /\ a1 = Cardinality(A1) /\ b1 = Cardinality(B1)
         /\ a2 = Cardinality(A2) /\ b2 = Cardinality(B2)
  BY <1>8, <1>9
<1>13. /\ Links(c, S) = b1 + b2 /\ Links(c, U \ S) = a1 + a2
       /\ Links(c, U) = (a1 + b1) + (a2 + b2)
       /\ Parents(c) \cap S = {} <=> b1 = 0 /\ b2 = 0
  BY <1>8, <1>9, <1>10, <1>11, <1>12
<1> QED BY <1>13 DEF Split

\* Only which parents are in the set matters.
LEMMA LinksSame ==
  ASSUME NEW c, NEW S, NEW T, Parents(c) \cap S = Parents(c) \cap T
  PROVE  Links(c, S) = Links(c, T)
<1>1. /\ {j \in DOMAIN c.producers : c.producers[j] \in S}
          = {j \in DOMAIN c.producers : c.producers[j] \in T}
      /\ {k \in 1..Len(c.others) : c.others[k] \in S}
          = {k \in 1..Len(c.others) : c.others[k] \in T}
  BY DEF Parents
<1> QED BY <1>1 DEF Links

(***************************************************************************)
(* What a node keeps for ever                                              *)
(***************************************************************************)

\* d is node c later on: the same instruction with the same parents.
Same(c, d) ==
  /\ d.blk = c.blk /\ d.idx = c.idx /\ d.prev = c.prev
  /\ d.others = c.others /\ d.producers = c.producers

\* The first k nodes of M are those of N later on.
SameCode(N, M, k) == \A n \in 1..k : Same(N[n], M[n])

\* Then they have the same instructions, parents and writers.
LEMMA Unmoved ==
  ASSUME NEW N, NEW M, NEW k \in Nat, SameCode(N, M, k)
  PROVE  /\ \A n \in 1..k : /\ At(M, n) = At(N, n) /\ DepsAt(M, n) = DepsAt(N, n)
                            /\ Parents(M[n]) = Parents(N[n])
                            /\ \A S : Links(M[n], S) = Links(N[n], S)
         /\ \A n \in 1..(k + 1) : \A r : WriterBefore(M, r, n) = WriterBefore(N, r, n)
<1>1. ASSUME NEW n \in 1..k
      PROVE  /\ At(M, n) = At(N, n) /\ DepsAt(M, n) = DepsAt(N, n)
             /\ Parents(M[n]) = Parents(N[n])
             /\ \A S : Links(M[n], S) = Links(N[n], S)
  <2>1. /\ M[n].blk = N[n].blk /\ M[n].idx = N[n].idx /\ M[n].prev = N[n].prev
        /\ M[n].others = N[n].others /\ M[n].producers = N[n].producers
    BY DEF SameCode, Same
  <2>2. At(M, n) = At(N, n) BY <2>1 DEF At
  <2>3. DepsAt(M, n) = DepsAt(N, n) BY <2>1, <2>2 DEF DepsAt
  <2>4. Parents(M[n]) = Parents(N[n]) BY <2>1 DEF Parents
  <2>5. \A S : Links(M[n], S) = Links(N[n], S) BY <2>1 DEF Links
  <2> QED BY <2>2, <2>3, <2>4, <2>5
<1>2. ASSUME NEW n \in 1..(k + 1), NEW r PROVE WriterBefore(M, r, n) = WriterBefore(N, r, n)
  <2>1. \A m \in 1..(n - 1) : At(M, m).ret = At(N, m).ret BY <1>1
  <2>2. {m \in 1..(n - 1) : At(M, m).ret = r} = {m \in 1..(n - 1) : At(N, m).ret = r}
    BY <2>1
  <2> QED BY <2>2 DEF WriterBefore
<1> QED BY <1>1, <1>2

\* The last node before n that returns to r.
LEMMA WriterIs ==
  ASSUME NEW N, NEW n \in Nat, n >= 1, NEW r
  PROVE  LET w == WriterBefore(N, r, n)
         IN  /\ w \in 0..(n - 1)
             /\ w # 0 => At(N, w).ret = r
             /\ \A m \in 1..(n - 1) : At(N, m).ret = r => m <= w /\ w # 0
             /\ \A x \in 1..(n - 1) :
                  /\ At(N, x).ret = r
                  /\ \A m \in 1..(n - 1) : At(N, m).ret = r => m <= x
                  => w = x
<1> DEFINE S == {m \in 1..(n - 1) : At(N, m).ret = r}
           w == WriterBefore(N, r, n)
<1>1. S \subseteq 1..(n - 1) /\ n - 1 \in Nat OBVIOUS
<1>2. w = Latest(S) BY DEF WriterBefore
<1>3. \A m \in S : m \in 1..(n - 1) /\ At(N, m).ret = r OBVIOUS
<1>4. \A m \in 1..(n - 1) : At(N, m).ret = r => m \in S OBVIOUS
<1> HIDE DEF S, w
<1>5. /\ S = {} => w = 0
      /\ S # {} => w \in S /\ \A x \in S : x <= w
      /\ w \in 0..(n - 1)
      /\ \A x \in S : (\A y \in S : y <= x) => w = x
  BY <1>1, <1>2, LatestIs
<1>6. \A m \in 1..(n - 1) : At(N, m).ret = r => m <= w /\ w # 0
  BY <1>3, <1>4, <1>5
<1>7. \A x \in 1..(n - 1) :
        /\ At(N, x).ret = r
        /\ \A m \in 1..(n - 1) : At(N, m).ret = r => m <= x
        => w = x
  BY <1>3, <1>4, <1>5
<1>8. w # 0 => At(N, w).ret = r BY <1>3, <1>5
<1> QED BY <1>5, <1>6, <1>7, <1>8 DEF w

\* The instruction of a node.
LEMMA NodeInstr ==
  ASSUME NEW N, NEW n, Formed(N, n)
  PROVE  LET i == At(N, n)
         IN  /\ i \in Instruction /\ i.ret \in Regs \cup {None}
             /\ i.op \in Ops /\ i.unit \in Units /\ i.cycles \in Nat /\ i.dests \subseteq Blocks
             /\ i.op \in {"store", "br", "ret"} <=> i.ret = None
             /\ DepsAt(N, n) \in Seq(Regs)
             /\ i.op # "phi" =>
                  \A j \in 1..Len(DepsAt(N, n)) : DepsAt(N, n)[j] # i.ret
<1> DEFINE b == N[n].blk
           k == N[n].idx
           i == Code[b][k]
<1>1. b \in Blocks /\ k \in 1..Len(Code[b]) /\ N[n].prev \in Blocks BY DEF Formed
<1>2. Code[b] \in Seq(Instruction) BY <1>1, CodeAssumption
<1>3. i \in Instruction BY <1>1, <1>2
<1>4. i.op \in {"store", "br", "ret"} <=> i.ret = None BY <1>1, CodeAssumption
<1>5. i.op # "phi" => \A j \in 1..Len(i.deps) : i.deps[j] # i.ret BY <1>1, SSAAssumption
<1>6. At(N, n) = i BY DEF At
<1> HIDE DEF i, b, k
<1>7. /\ i.ret \in Regs \cup {None} /\ i.deps \in Seq(Regs) /\ i.op \in Ops
      /\ i.phi \in [Blocks -> Regs \cup {None}]
      /\ i.unit \in Units /\ i.cycles \in Nat /\ i.dests \subseteq Blocks
  BY <1>3 DEF Instruction
<1>8. i.op # "phi" => DepsAt(N, n) = i.deps BY <1>6 DEF DepsAt, Dependencies
<1>9. DepsAt(N, n) \in Seq(Regs)
  <2>1. CASE i.op # "phi" BY <1>7, <1>8, <2>1
  <2>2. CASE i.op = "phi"
    <3>1. PICK r \in Regs \cup {None} : r = i.phi[N[n].prev] BY <1>1, <1>7
    <3>2. DepsAt(N, n) = IF r = None THEN <<>> ELSE <<r>>
      BY <1>6, <2>2, <3>1 DEF DepsAt, Dependencies
    <3> QED BY <3>2
  <2> QED BY <2>1, <2>2
<1> QED BY <1>3, <1>4, <1>5, <1>6, <1>7, <1>8, <1>9

(***************************************************************************)
(* Nodes commit                                                            *)
(***************************************************************************)

\* N has the instructions of the present nodes.
Present(N) == Len(N) = Len(node) /\ \A p \in 1..Len(N) : Instr(p) = At(N, p)

\* The nodes of S from which node n takes its j-th operand.
Senders(N, S, n, j) ==
  {p \in S : /\ At(N, p).ret = DepsAt(N, n)[j] /\ At(N, p).ret # At(N, n).ret
             /\ Links(N[n], {p}) > 0}

\* The j-th operand of node n when the nodes of S have committed.
Sent(N, S, n, j) ==
  IF Senders(N, S, n, j) = {} THEN N[n].ops[j] ELSE CHOOSE p \in Senders(N, S, n, j) : TRUE

\* M is N after the nodes of S have committed.
After(N, S, M) ==
  /\ IsSeq(M) /\ Len(M) = Len(N) /\ SameCode(N, M, Len(N)) /\ Open(M) = Open(N) \ S
  /\ \A n \in 1..Len(N) :
       /\ IsNode(M[n]) /\ M[n].cycle = N[n].cycle /\ M[n].committed \in BOOLEAN
       /\ M[n].value = N[n].value /\ M[n].active = N[n].active - Links(N[n], S)
       /\ M[n].ops = [j \in 1..Len(DepsAt(N, n)) |-> Sent(N, S, n, j)]

\* What commit() and signalChildren() leave of each node.
LEMMA CommitFields ==
  ASSUME NEW N, IsSeq(N), \A n \in 1..Len(N) : Formed(N, n), Present(N),
         NEW S, S \subseteq Open(N), NEW M, M = Committed(N, S)
  PROVE  After(N, S, M)
<1>1. Len(N) \in Nat BY DEF IsSeq
<1> DEFINE D(n) == Signalled(N[n], S)
<1>2. M = [n \in 1..Len(N) |-> IF n \in S THEN [D(n) EXCEPT !.committed = TRUE] ELSE D(n)]
  BY DEF Committed
<1>3. Len(M) = Len(N) /\ IsSeq(M)
  <2> HIDE DEF D
  <2>1. Len(M) = Len(N) BY <1>1, <1>2
  <2>2. M = [n \in 1..Len(M) |-> M[n]] BY <1>1, <1>2, <2>1
  <2> QED BY <1>1, <2>1, <2>2 DEF IsSeq
<1>4. ASSUME NEW n \in 1..Len(N)
      PROVE  /\ IsNode(D(n)) /\ Same(N[n], D(n)) /\ D(n).cycle = N[n].cycle
             /\ D(n).committed = N[n].committed /\ D(n).value = N[n].value
             /\ D(n).active = N[n].active - Links(N[n], S)
             /\ D(n).ops = [j \in 1..Len(DepsAt(N, n)) |-> Sent(N, S, n, j)]
  <2> DEFINE c == N[n]
             x == c.active - Links(c, S)
             By(j) == {p \in S : /\ Instr(p).ret = DepsAt(N, n)[j]
                                 /\ Instr(p).ret # At(N, n).ret
                                 /\ Links(c, {p}) > 0}
             y == [j \in 1..Len(DepsAt(N, n)) |->
                     IF By(j) = {} THEN c.ops[j] ELSE CHOOSE p \in By(j) : TRUE]
  <2>1. D(n) = [c EXCEPT !.active = x, !.ops = y]
    <3>1. IsNode(c) BY DEF Formed
    <3>2. "active" \in DOMAIN c /\ "ops" \in DOMAIN c BY <3>1 DEF IsNode
    <3> QED BY <3>2 DEF Signalled, At, DepsAt
  <2>2. \A p \in S : Instr(p) = At(N, p) BY DEF Present, Open
  <2>3. \A j : By(j) = Senders(N, S, n, j) BY <2>2 DEF Senders
  <2>4. y = [j \in 1..Len(DepsAt(N, n)) |-> Sent(N, S, n, j)]
    <3> DEFINE V(j) == IF By(j) = {} THEN c.ops[j] ELSE CHOOSE p \in By(j) : TRUE
    <3>1. \A j \in 1..Len(DepsAt(N, n)) : V(j) = Sent(N, S, n, j)
      <4> SUFFICES ASSUME NEW j PROVE V(j) = Sent(N, S, n, j) OBVIOUS
      <4>1. By(j) = Senders(N, S, n, j) BY <2>3
      <4> HIDE DEF By
      <4> QED BY <4>1 DEF Sent
    <3> HIDE DEF V
    <3>2. [j \in 1..Len(DepsAt(N, n)) |-> V(j)]
            = [j \in 1..Len(DepsAt(N, n)) |-> Sent(N, S, n, j)]
      BY <3>1
    <3> QED BY <3>2 DEF V
  <2>5. IsNode(c) BY DEF Formed
  <2> HIDE DEF x, y, c, D
  <2>6. /\ IsNode(D(n)) /\ Same(c, D(n)) /\ D(n).active = x /\ D(n).ops = y
        /\ D(n).cycle = c.cycle /\ D(n).committed = c.committed /\ D(n).value = c.value
    <3>1. PICK d : d = D(n) OBVIOUS
    <3>2. d = [c EXCEPT !.active = x, !.ops = y] BY <2>1, <3>1
    <3>3. /\ IsNode(d) /\ Same(c, d) /\ d.active = x /\ d.ops = y
          /\ d.cycle = c.cycle /\ d.committed = c.committed /\ d.value = c.value
      BY <2>5, <3>2 DEF IsNode, Same
    <3> QED BY <3>1, <3>3
  <2> QED BY <2>4, <2>6 DEF c, x
<1> HIDE DEF D
<1>5. ASSUME NEW n \in 1..Len(N)
      PROVE  /\ IsNode(M[n]) /\ Same(N[n], M[n]) /\ M[n].cycle = N[n].cycle
             /\ M[n].committed = (n \in S \/ N[n].committed)
             /\ M[n].active = D(n).active /\ M[n].ops = D(n).ops /\ M[n].value = N[n].value
  <2>0. N[n].committed \in BOOLEAN BY DEF Formed
  <2>1. CASE n \notin S
    <3>1. M[n] = D(n) BY <1>2, <2>1
    <3> QED BY <1>4, <2>0, <2>1, <3>1
  <2>2. CASE n \in S
    <3>1. M[n] = [D(n) EXCEPT !.committed = TRUE] BY <1>2, <2>2
    <3>2. IsNode(D(n)) BY <1>4
    <3>3. /\ IsNode(M[n]) /\ Same(D(n), M[n]) /\ M[n].active = D(n).active
          /\ M[n].ops = D(n).ops /\ M[n].cycle = D(n).cycle /\ M[n].committed = TRUE
          /\ M[n].value = D(n).value
      <4>1. PICK c, d : c = D(n) /\ d = M[n] OBVIOUS
      <4>2. d = [c EXCEPT !.committed = TRUE] /\ IsNode(c) BY <3>1, <3>2, <4>1
      <4>3. /\ IsNode(d) /\ Same(c, d) /\ d.active = c.active /\ d.ops = c.ops
            /\ d.cycle = c.cycle /\ d.committed = TRUE /\ d.value = c.value
        BY <4>2 DEF IsNode, Same
      <4> QED BY <4>1, <4>3
    <3>4. Same(N[n], M[n]) BY <1>4, <3>3 DEF Same
    <3> QED BY <1>4, <2>2, <3>3, <3>4
  <2> QED BY <2>1, <2>2
<1>6. Open(M) = Open(N) \ S BY <1>3, <1>5 DEF Open
<1>7. SameCode(N, M, Len(N)) BY <1>5 DEF SameCode
<1>8. ASSUME NEW n \in 1..Len(N)
      PROVE  /\ IsNode(M[n]) /\ M[n].cycle = N[n].cycle /\ M[n].committed \in BOOLEAN
              /\ M[n].value = N[n].value /\ M[n].active = N[n].active - Links(N[n], S)
              /\ M[n].ops = [j \in 1..Len(DepsAt(N, n)) |-> Sent(N, S, n, j)]
  <2>1. N[n].committed \in BOOLEAN BY DEF Formed
  <2> QED BY <1>4, <1>5, <2>1
<1> QED BY <1>3, <1>6, <1>7, <1>8 DEF After

\* Of two nodes that return to a register, only the later one can be under way
\* without waiting.
LEMMA OneUnderWay ==
  ASSUME NEW N, NEW W, NodesOK(N, W), NEW p \in Open(N), p \notin W,
         NEW q \in 1..Len(N), q \notin W, At(N, p).ret # None, At(N, q).ret = At(N, p).ret
  PROVE  q <= p /\ (q \in Open(N) => q = p)
<1>1. Len(N) \in Nat /\ p \in 1..Len(N) BY DEF NodesOK, IsSeq, Open
<1>2. Chained(N, W, p) /\ Chained(N, W, q) BY <1>1 DEF NodesOK
<1>3. CASE p < q
  <2>1. p \in 1..(q - 1) BY <1>1, <1>3
  <2> QED BY <1>2, <2>1 DEF Chained
<1>4. CASE q < p
  <2>1. q \in 1..(p - 1) BY <1>1, <1>4
  <2>2. q \notin Open(N) BY <1>2, <2>1 DEF Chained
  <2> QED BY <1>1, <1>4, <2>2
<1> QED BY <1>1, <1>3, <1>4

\* The invariant of the nodes when nodes commit that do not wait.
LEMMA CommitKeeps ==
  ASSUME NEW N, NEW W, NodesOK(N, W), Present(N),
         NEW S, S \subseteq Open(N), S \cap W = {}, NEW M, M = Committed(N, S)
  PROVE  /\ NodesOK(M, W) /\ Len(M) = Len(N) /\ SameCode(N, M, Len(N))
         /\ Open(M) = Open(N) \ S
<1>1. IsSeq(N) /\ Len(N) \in Nat /\ \A n \in 1..Len(N) : Formed(N, n)
  BY DEF NodesOK, IsSeq
<1>2. /\ IsSeq(M) /\ Len(M) = Len(N) /\ SameCode(N, M, Len(N)) /\ Open(M) = Open(N) \ S
      /\ \A n \in 1..Len(N) :
           /\ IsNode(M[n]) /\ M[n].cycle = N[n].cycle /\ M[n].committed \in BOOLEAN
           /\ M[n].active = N[n].active - Links(N[n], S)
           /\ M[n].ops = [j \in 1..Len(DepsAt(N, n)) |-> Sent(N, S, n, j)]
  <2>1. After(N, S, M) BY <1>1, CommitFields
  <2> QED BY <2>1 DEF After
<1>3. ASSUME NEW n \in 1..Len(N)
      PROVE  /\ Formed(M, n) /\ Linked(M, n) /\ Counted(M, n)
             /\ Chained(M, W, n) /\ Filled(M, n) /\ Ready(M, W, n)
  <2>1. /\ Formed(N, n) /\ Linked(N, n) /\ Counted(N, n)
        /\ Chained(N, W, n) /\ Filled(N, n) /\ Ready(N, W, n)
    BY DEF NodesOK
  <2>2. /\ At(M, n) = At(N, n) /\ DepsAt(M, n) = DepsAt(N, n)
        /\ Parents(M[n]) = Parents(N[n])
        /\ \A T : Links(M[n], T) = Links(N[n], T)
        /\ \A m \in 1..(n - 1) : At(M, m) = At(N, m)
        /\ \A r : WriterBefore(M, r, n) = WriterBefore(N, r, n)
    <3>1. n \in 1..(Len(N) + 1) /\ \A m \in 1..(n - 1) : m \in 1..Len(N) BY <1>1
    <3> QED BY <1>1, <1>2, <3>1, Unmoved
  <2>3. Same(N[n], M[n]) BY <1>2 DEF SameCode
  <2> DEFINE d == DepsAt(N, n)
  <2>4. d \in Seq(Regs) /\ Len(d) \in Nat
        /\ (At(N, n).op # "phi" => \A j \in 1..Len(d) : d[j] # At(N, n).ret)
    BY <2>1, NodeInstr
  <2>5. \A j \in 1..Len(d) : \A p \in Senders(N, S, n, j) :
          p \in S /\ p \in Parents(N[n]) /\ p = WriterBefore(N, d[j], n)
    <3> SUFFICES ASSUME NEW j \in 1..Len(d), NEW p \in Senders(N, S, n, j)
                 PROVE  p \in S /\ p \in Parents(N[n]) /\ p = WriterBefore(N, d[j], n)
      OBVIOUS
    <3>1. p \in S /\ At(N, p).ret = d[j] /\ Links(N[n], {p}) > 0 BY DEF Senders
    <3>2. p \in Parents(N[n])
      <4>1. DOMAIN N[n].producers \subseteq 1..Len(d) /\ Len(N[n].others) \in Nat
        BY <2>1 DEF Formed
      <4>2. Links(N[n], {p}) = 0 <=> Parents(N[n]) \cap {p} = {}
        <5>1. {p} \subseteq {p} OBVIOUS
        <5> HIDE DEF d
        <5> QED BY <2>4, <4>1, <5>1, LinkCount
      <4> QED BY <3>1, <4>2
    <3>3. p \in 1..Len(N) BY <3>1 DEF Open
    <3>4. d[j] \in Regs /\ d[j] # None BY <2>4, CodeAssumption
    <3>5. At(N, p).op # "store" BY <1>1, <3>1, <3>3, <3>4, NodeInstr
    <3>6. p = WriterBefore(N, At(N, p).ret, n) BY <2>1, <3>2, <3>5 DEF Linked
    <3> QED BY <3>1, <3>2, <3>6
  <2>6. Formed(M, n)
    <3>1. M[n].ops \in [1..Len(d) -> {Unset} \cup 0..Len(N)]
      <4>1. N[n].ops \in [1..Len(d) -> {Unset} \cup 0..Len(N)] BY <2>1 DEF Formed
      <4>2. \A p \in S : p \in 0..Len(N) BY <1>1 DEF Open
      <4>3. ASSUME NEW j \in 1..Len(d)
            PROVE  Sent(N, S, n, j) \in {Unset} \cup 0..Len(N)
        <5>1. CASE Senders(N, S, n, j) = {} BY <4>1, <5>1 DEF Sent
        <5>2. CASE Senders(N, S, n, j) # {}
          <6> DEFINE x == CHOOSE p \in Senders(N, S, n, j) : TRUE
          <6>1. x \in Senders(N, S, n, j) BY <5>2
          <6>2. x \in S BY <2>5, <6>1
          <6>3. Sent(N, S, n, j) = x BY <5>2 DEF Sent
          <6> QED BY <4>2, <6>2, <6>3
        <5> QED BY <5>1, <5>2
      <4> HIDE DEF d
      <4>4. M[n].ops = [j \in 1..Len(d) |-> Sent(N, S, n, j)] BY <1>2 DEF d
      <4> QED BY <4>3, <4>4
    <3>2. /\ N[n].blk \in Blocks /\ N[n].prev \in Blocks
          /\ N[n].idx \in 1..Len(Code[N[n].blk])
          /\ N[n].others \in Seq(Nat) /\ N[n].cycle \in Nat
          /\ DOMAIN N[n].producers \subseteq 1..Len(d)
      BY <2>1 DEF Formed
    <3> QED BY <1>2, <2>2, <2>3, <3>1, <3>2 DEF Formed, Same
  <2>7. Linked(M, n)
    <3>1. \A p \in Parents(N[n]) : p \in 1..(n - 1) => At(M, p) = At(N, p) BY <2>2
    <3>2. M[n].producers = N[n].producers BY <2>3 DEF Same
    <3> QED BY <2>1, <2>2, <3>1, <3>2 DEF Linked
  <2>8. Counted(M, n)
    <3>1. DOMAIN N[n].producers \subseteq 1..Len(d) /\ Len(N[n].others) \in Nat
      BY <2>1 DEF Formed
    <3>6. PICK U, c : U = Open(N) /\ c = N[n] OBVIOUS
    <3>11. PICK m \in Nat : m = Len(d) BY <2>4
    <3>12. DOMAIN c.producers \subseteq 1..m /\ Len(c.others) \in Nat /\ S \subseteq U
      BY <3>1, <3>6, <3>11
    <3>13. Links(c, S) \in Nat BY <3>12, LinkCount
    <3>2. Links(c, U) = Links(c, U \ S) + Links(c, S)
      <4>1. Split(c, U, S) BY <3>12, LinkCount
      <4> QED BY <4>1 DEF Split
    <3>3. Links(c, U \ S) \in Nat
      <4>1. U \ S \subseteq U OBVIOUS
      <4> QED BY <3>12, <4>1, LinkCount
    <3>7. PICK e \in Nat : e = IF At(N, n).op = "ret" THEN 1 ELSE 0 OBVIOUS
    <3>4. c.active = Links(c, U) + e BY <2>1, <3>6, <3>7 DEF Counted
    <3>8. M[n].active = c.active - Links(c, S) BY <1>2, <3>6
    <3>9. PICK x \in Nat, y \in Nat : x = Links(c, U \ S) /\ y = Links(c, S) BY <3>13, <3>3
    <3>10. M[n].active = x + e BY <3>2, <3>4, <3>8, <3>9
    <3>5. M[n].active = Links(N[n], Open(M)) + (IF At(N, n).op = "ret" THEN 1 ELSE 0)
      BY <1>2, <3>6, <3>7, <3>9, <3>10
    <3> QED BY <2>2, <3>5 DEF Counted
  <2>9. Chained(M, W, n) BY <1>2, <2>1, <2>2 DEF Chained
  <2>10. Filled(M, n)
    <3> SUFFICES ASSUME NEW j \in 1..Len(d), NEW w, w = WriterBefore(N, d[j], n)
                 PROVE  /\ w \in Open(M) => j \in DOMAIN M[n].producers
                        /\ At(N, n).op # "phi" /\ w \notin Open(M) => M[n].ops[j] = w
      BY <2>2 DEF Filled
    <3>1. w \in Open(M) => j \in DOMAIN M[n].producers
      BY <1>2, <2>1, <2>3 DEF Filled, Same
    <3>2. ASSUME At(N, n).op # "phi", w \notin Open(M) PROVE M[n].ops[j] = w
      <4>0. M[n].ops[j] = IF Senders(N, S, n, j) = {} THEN N[n].ops[j]
                          ELSE CHOOSE p \in Senders(N, S, n, j) : TRUE
        BY <1>2 DEF Sent
      <4>1. CASE Senders(N, S, n, j) # {}
        <5> DEFINE x == CHOOSE p \in Senders(N, S, n, j) : TRUE
        <5>1. x \in Senders(N, S, n, j) BY <4>1
        <5>2. x = w BY <2>5, <5>1
        <5> QED BY <4>0, <4>1, <5>2
      <4>2. CASE Senders(N, S, n, j) = {}
        <5>1. w \notin Open(N)
          <6> SUFFICES ASSUME w \in Open(N) PROVE FALSE OBVIOUS
          <6>1. w \in S BY <1>2, <3>2
          <6>2. j \in DOMAIN N[n].producers BY <2>1 DEF Filled
          <6>3. N[n].producers[j] = w BY <2>1, <6>2 DEF Linked
          <6>4. w \in Parents(N[n]) BY <6>2, <6>3 DEF Parents
          <6>5. Links(N[n], {w}) > 0
            <7>1. DOMAIN N[n].producers \subseteq 1..Len(d) /\ Len(N[n].others) \in Nat
              BY <2>1 DEF Formed
            <7>2. /\ Links(N[n], {w}) \in Nat
                  /\ Links(N[n], {w}) = 0 <=> Parents(N[n]) \cap {w} = {}
              <8>1. {w} \subseteq {w} OBVIOUS
              <8> HIDE DEF d
              <8> QED BY <2>4, <7>1, <8>1, LinkCount
            <7> QED BY <6>4, <7>2
          <6>6. w \in 1..Len(N) BY DEF Open
          <6>7. At(N, w).ret = d[j]
            <7>1. n \in Nat /\ n >= 1 /\ w # 0 BY <1>1, <6>6
            <7>2. PICK r : r = d[j] OBVIOUS
            <7>3. WriterBefore(N, r, n) # 0 => At(N, WriterBefore(N, r, n)).ret = r
              <8> HIDE DEF d
              <8> QED BY <7>1, WriterIs
            <7> QED BY <7>1, <7>2, <7>3
          <6>8. d[j] # At(N, n).ret BY <2>4, <3>2
          <6>9. w \in Senders(N, S, n, j) BY <6>1, <6>5, <6>7, <6>8 DEF Senders
          <6> QED BY <4>2, <6>9
        <5> QED BY <2>1, <3>2, <4>0, <4>2, <5>1 DEF Filled
      <4> QED BY <4>1, <4>2
    <3> QED BY <3>1, <3>2
  <2>11. Ready(M, W, n) BY <1>2, <2>1, <2>2 DEF Ready
  <2> QED BY <2>6, <2>7, <2>8, <2>9, <2>10, <2>11
<1>4. NodesOK(M, W) BY <1>2, <1>3 DEF NodesOK
<1> QED BY <1>2, <1>4

(***************************************************************************)
(* Nodes leave the table                                                   *)
(***************************************************************************)

\* M is N except for what nobody waits for: the branches of B have committed, and
\* the operands of a phi, cycles and values may have changed.
Retouched(N, M, B) ==
  /\ IsSeq(M) /\ Len(M) = Len(N) /\ SameCode(N, M, Len(N)) /\ Open(M) = Open(N) \ B
  /\ \A b \in B : b \in 1..Len(N) /\ At(N, b).op = "br"
  /\ \A n \in 1..Len(N) :
       /\ IsNode(M[n]) /\ M[n].cycle \in Nat /\ M[n].committed \in BOOLEAN
       /\ M[n].active = N[n].active
       /\ \/ M[n].ops = N[n].ops
          \/ At(N, n).op = "phi" /\ M[n].ops \in [1..Len(DepsAt(N, n)) -> 0..Len(N)]

\* The nodes of W that are not in V can leave the table.
CanLeave(N, W, V) ==
  V \subseteq W /\ \A n \in W \ V : Parents(N[n]) \cap Open(N) = {}

\* The invariant of the nodes when nodes without active parents leave the table.
LEMMA LeaveKeeps ==
  ASSUME NEW N, NEW W, NodesOK(N, W), W \subseteq Open(N),
         NEW V, CanLeave(N, W, V), NEW M, NEW B, Retouched(N, M, B)
  PROVE  NodesOK(M, V)
<1>1. IsSeq(N) /\ Len(N) \in Nat /\ \A n \in 1..Len(N) : Formed(N, n)
  BY DEF NodesOK, IsSeq
<1>2. IsSeq(M) /\ Len(M) = Len(N) /\ SameCode(N, M, Len(N)) /\ Open(M) = Open(N) \ B
  BY DEF Retouched
<1>3. ASSUME NEW m \in 1..Len(N), At(N, m).op \notin {"br"} PROVE m \in Open(M) <=> m \in Open(N)
  BY <1>2, <1>3 DEF Retouched
<1>4. ASSUME NEW m \in 1..Len(N), At(N, m).ret # None PROVE At(N, m).op # "br"
  BY <1>1, <1>4, NodeInstr
<1>5. ASSUME NEW n \in 1..Len(N)
      PROVE  /\ Formed(M, n) /\ Linked(M, n) /\ Counted(M, n)
             /\ Chained(M, V, n) /\ Filled(M, n) /\ Ready(M, V, n)
  <2>1. /\ Formed(N, n) /\ Linked(N, n) /\ Counted(N, n)
        /\ Chained(N, W, n) /\ Filled(N, n) /\ Ready(N, W, n)
    BY DEF NodesOK
  <2>2. /\ At(M, n) = At(N, n) /\ DepsAt(M, n) = DepsAt(N, n)
        /\ Parents(M[n]) = Parents(N[n])
        /\ \A T : Links(M[n], T) = Links(N[n], T)
        /\ \A m \in 1..(n - 1) : m \in 1..Len(N) /\ At(M, m) = At(N, m)
        /\ \A r : WriterBefore(M, r, n) = WriterBefore(N, r, n)
    <3>1. n \in 1..(Len(N) + 1) /\ \A m \in 1..(n - 1) : m \in 1..Len(N) BY <1>1
    <3> QED BY <1>1, <1>2, <3>1, Unmoved
  <2>3. Same(N[n], M[n]) BY <1>2 DEF SameCode
  <2>4. /\ IsNode(M[n]) /\ M[n].cycle \in Nat /\ M[n].committed \in BOOLEAN
        /\ M[n].active = N[n].active
        /\ \/ M[n].ops = N[n].ops
           \/ At(N, n).op = "phi" /\ M[n].ops \in [1..Len(DepsAt(N, n)) -> 0..Len(N)]
    BY DEF Retouched
  <2>5. Parents(N[n]) \cap Open(M) = Parents(N[n]) \cap Open(N)
    <3>1. ASSUME NEW p \in Parents(N[n]) PROVE p \in Open(M) <=> p \in Open(N)
      <4>1. p \in 1..(n - 1) /\ At(N, p).op \notin {"br"} BY <2>1 DEF Linked
      <4> QED BY <1>3, <2>2, <4>1
    <3> QED BY <3>1
  <2>6. Formed(M, n)
    <3>1. M[n].ops \in [1..Len(DepsAt(N, n)) -> {Unset} \cup 0..Len(N)]
      <4>1. CASE M[n].ops = N[n].ops BY <2>1, <4>1 DEF Formed
      <4>2. CASE M[n].ops \in [1..Len(DepsAt(N, n)) -> 0..Len(N)] BY <4>2
      <4> QED BY <2>4, <4>1, <4>2
    <3>2. /\ N[n].blk \in Blocks /\ N[n].prev \in Blocks
          /\ N[n].idx \in 1..Len(Code[N[n].blk]) /\ N[n].others \in Seq(Nat)
          /\ DOMAIN N[n].producers \subseteq 1..Len(DepsAt(N, n))
      BY <2>1 DEF Formed
    <3> QED BY <1>2, <2>2, <2>3, <2>4, <3>1, <3>2 DEF Formed, Same
  <2>7. Linked(M, n)
    <3>1. \A p \in Parents(N[n]) : p \in 1..(n - 1) => At(M, p) = At(N, p) BY <2>2
    <3>2. M[n].producers = N[n].producers BY <2>3 DEF Same
    <3> QED BY <2>1, <2>2, <3>1, <3>2 DEF Linked
  <2>8. Counted(M, n)
    <3>1. Links(N[n], Open(M)) = Links(N[n], Open(N)) BY <2>5, LinksSame
    <3> QED BY <2>1, <2>2, <2>4, <3>1 DEF Counted
  <2>9. Ready(M, V, n)
    <3>1. n \notin V => Parents(N[n]) \cap Open(N) = {} BY <2>1 DEF Ready, CanLeave
    <3> QED BY <2>2, <2>5, <3>1 DEF Ready
  <2>10. Chained(M, V, n)
    <3> SUFFICES ASSUME At(N, n).ret # None, NEW m \in 1..(n - 1),
                        At(N, m).ret = At(N, n).ret, m \in Open(N)
                 PROVE  /\ n \in V
                        /\ WriterBefore(N, At(N, n).ret, n) \in Parents(N[n])
      BY <1>3, <1>4, <2>2 DEF Chained
    <3>1. WriterBefore(N, At(N, n).ret, n) \in Parents(N[n]) /\ n \in W
      BY <2>1 DEF Chained
    <3>2. ASSUME n \notin V PROVE FALSE
      <4>1. PICK w : w = WriterBefore(N, At(N, n).ret, n) OBVIOUS
      <4>2. w \in Parents(N[n]) /\ w \notin Open(N) BY <3>1, <3>2, <4>1 DEF CanLeave
      <4>3. /\ w \in 0..(n - 1) /\ m <= w /\ w # 0
            /\ At(N, w).ret = At(N, n).ret
        BY <1>1, <4>1, WriterIs
      <4>4. m # w BY <4>2
      <4>5. w \in 1..Len(N) /\ m \in 1..(w - 1) BY <1>1, <4>3, <4>4
      <4>6. w \notin W BY <4>2
      <4>7. Chained(N, W, w) BY <4>5 DEF NodesOK
      <4> QED BY <4>3, <4>5, <4>6, <4>7 DEF Chained
    <3> QED BY <3>1, <3>2
  <2>11. Filled(M, n)
    <3> SUFFICES ASSUME NEW j \in 1..Len(DepsAt(N, n)), NEW w,
                        w = WriterBefore(N, DepsAt(N, n)[j], n)
                 PROVE  /\ w \in Open(M) => j \in DOMAIN M[n].producers
                        /\ At(N, n).op # "phi" /\ w \notin Open(M) => M[n].ops[j] = w
      BY <2>2 DEF Filled
    <3>1. w \in Open(M) <=> w \in Open(N)
      <4>1. CASE w = 0 BY <1>2, <4>1 DEF Open
      <4>2. CASE w # 0
        <5>0. PICK r : r = DepsAt(N, n)[j] OBVIOUS
        <5>4. w = WriterBefore(N, r, n) BY <5>0
        <5>5. n \in Nat /\ n >= 1 BY <1>1
        <5>6. WriterBefore(N, r, n) \in 0..(n - 1) BY <5>5, WriterIs
        <5>7. WriterBefore(N, r, n) # 0 => At(N, WriterBefore(N, r, n)).ret = r
          BY <5>5, WriterIs
        <5>1. w \in 0..(n - 1) /\ At(N, w).ret = r BY <4>2, <5>4, <5>6, <5>7
        <5>2. DepsAt(N, n)[j] \in Regs
          <6>1. DepsAt(N, n) \in Seq(Regs) BY <1>1, NodeInstr
          <6> QED BY <6>1
        <5>3. w \in 1..Len(N) /\ At(N, w).ret # None
          BY <1>1, <4>2, <5>0, <5>1, <5>2, CodeAssumption
        <5> QED BY <1>3, <1>4, <5>3
      <4> QED BY <4>1, <4>2
    <3>2. M[n].producers = N[n].producers BY <2>3 DEF Same
    <3> QED BY <2>1, <2>4, <3>1, <3>2 DEF Filled
  <2> QED BY <2>6, <2>7, <2>8, <2>9, <2>10, <2>11
<1> QED BY <1>2, <1>5 DEF NodesOK

(***************************************************************************)
(* The registers                                                           *)
(***************************************************************************)

\* The nodes that have committed to register r.
Writers(N, r) == {m \in (1..Len(N)) \ Open(N) : At(N, m).ret = r}

\* commit() leaves the last value in a register, and never an earlier one.
LEMMA CommitRegisters ==
  ASSUME NEW N, NEW W, NodesOK(N, W), Present(N), W \subseteq Open(N),
         NEW S, S \subseteq Open(N), S \cap W = {},
         NEW M, Len(M) = Len(N), SameCode(N, M, Len(N)), Open(M) = Open(N) \ S,
         NEW regs, RegistersOK(N, regs), NEW T, T = Written(regs, S)
  PROVE  RegistersOK(M, T) /\ \A r \in Regs : regs[r] \in Nat /\ T[r] \in Nat /\ T[r] >= regs[r]
<1>1. Len(N) \in Nat BY DEF NodesOK, IsSeq
<1>2. \A m \in 1..Len(N) : At(M, m) = At(N, m) BY <1>1, Unmoved
<1>3. regs = [r \in Regs |-> Latest(Writers(N, r))] BY DEF RegistersOK, Writers
<1>4. ASSUME NEW r \in Regs
      PROVE  /\ regs[r] \in Nat /\ T[r] \in Nat /\ T[r] >= regs[r]
             /\ T[r] = Latest(Writers(M, r))
  <2>1. PICK A, B : A = Writers(N, r) /\ B = Writers(M, r) OBVIOUS
  <2>2. A \subseteq 1..Len(N) /\ B \subseteq 1..Len(N) /\ A \subseteq B
    BY <1>2, <2>1 DEF Writers
  <2>3. regs[r] = Latest(A) BY <1>3, <2>1
  <2>4. Latest(A) \in 0..Len(N) BY <1>1, <2>2, LatestIs
  <2>5. CASE \E p \in S : Instr(p).ret = r
    <3>1. PICK x : x = CHOOSE p \in S : Instr(p).ret = r OBVIOUS
    <3>2. x \in S /\ Instr(x).ret = r BY <2>5, <3>1
    <3>3. T[r] = x BY <2>5, <3>1 DEF Written
    <3>4. x \in Open(N) /\ x \notin W /\ x \in 1..Len(N) /\ At(N, x).ret = r /\ r # None
      BY <3>2, CodeAssumption DEF Present, Open
    <3>5. x \in B BY <1>2, <2>1, <3>2, <3>4 DEF Writers
    <3>6. ASSUME NEW q \in B PROVE q <= x
      <4>1. q \in 1..Len(N) /\ q \notin Open(M) /\ At(N, q).ret = r
        BY <1>2, <2>1 DEF Writers
      <4>2. q \notin W BY <4>1
      <4> QED BY <3>4, <4>1, <4>2, OneUnderWay
    <3>7. Latest(B) = x BY <1>1, <2>2, <3>5, <3>6, LatestIs
    <3>8. x >= Latest(A)
      <4>1. CASE A = {} BY <1>1, <2>2, <3>4, <4>1, LatestIs
      <4>2. CASE A # {}
        <5>1. Latest(A) \in A BY <1>1, <2>2, <4>2, LatestIs
        <5> QED BY <1>1, <2>2, <2>4, <3>4, <3>6, <5>1
      <4> QED BY <4>1, <4>2
    <3> QED BY <1>1, <2>1, <2>3, <2>4, <3>3, <3>4, <3>7, <3>8
  <2>6. CASE ~\E p \in S : Instr(p).ret = r
    <3>1. T[r] = regs[r] BY <2>6 DEF Written
    <3>2. A = B
      <4>1. ASSUME NEW q \in B PROVE q \in A
        <5>1. q \in 1..Len(N) /\ q \notin Open(M) /\ At(N, q).ret = r
          BY <1>2, <2>1 DEF Writers
        <5>2. q \notin S BY <2>6, <5>1 DEF Present
        <5> QED BY <2>1, <5>1, <5>2 DEF Writers
      <4> QED BY <2>2, <4>1
    <3> QED BY <1>1, <2>1, <2>3, <2>4, <3>1, <3>2
  <2> QED BY <2>5, <2>6
<1>5. T = [r \in Regs |-> Latest(Writers(M, r))]
  <2>1. T = [r \in Regs |-> T[r]] BY DEF Written
  <2>2. \A r \in Regs : T[r] = Latest(Writers(M, r)) BY <1>4
  <2> QED BY <2>1, <2>2
<1> QED BY <1>4, <1>5 DEF RegistersOK, Writers

\* The registers do not depend on what Retouched leaves open.
LEMMA LeaveRegisters ==
  ASSUME NEW N, IsSeq(N), \A n \in 1..Len(N) : Formed(N, n),
         NEW M, NEW B, Retouched(N, M, B), NEW regs, RegistersOK(N, regs)
  PROVE  RegistersOK(M, regs)
<1>1. Len(N) \in Nat /\ Len(M) = Len(N) /\ SameCode(N, M, Len(N)) BY DEF Retouched, IsSeq
<1>2. \A m \in 1..Len(N) : At(M, m) = At(N, m) BY <1>1, Unmoved
<1>3. ASSUME NEW r \in Regs PROVE Writers(M, r) = Writers(N, r)
  <2>1. ASSUME NEW m \in 1..Len(N), At(N, m).ret = r
        PROVE  m \in Open(M) <=> m \in Open(N)
    <3>1. At(N, m).op # "br" BY <2>1, NodeInstr, CodeAssumption
    <3> QED BY <3>1 DEF Retouched
  <2> QED BY <1>1, <1>2, <2>1 DEF Writers
<1>4. regs = [r \in Regs |-> Latest(Writers(N, r))] BY DEF RegistersOK, Writers
<1>5. regs = [r \in Regs |-> Latest(Writers(M, r))] BY <1>3, <1>4
<1> QED BY <1>5 DEF RegistersOK, Writers

(***************************************************************************)
(* A block comes in                                                        *)
(***************************************************************************)

\* K is the sequence of nodes with those of block b after the present ones.
WithBlock(K, b) ==
  /\ IsSeq(K) /\ Len(K) = Len(node) + Len(Code[b])
  /\ \A n \in 1..Len(node) : K[n] = node[n]
  /\ \A i \in 1..Len(Code[b]) :
       LET c == K[Len(node) + i] IN c.blk = b /\ c.idx = i /\ ~c.committed

\* Table q is table p, of numbers up to m, with the z numbers after m at its end.
Grown(p, m, z, q) ==
  /\ IsSeq(q) /\ \A j, k \in 1..Len(q) : j < k => q[j] < q[k]
  /\ Elements(q) = Elements(p) \cup (m + 1)..(m + z)

\* The nodes of a block are put behind a table of older nodes.
LEMMA TableGrows ==
  ASSUME NEW p, IsSeq(p), NEW m \in Nat, Elements(p) \subseteq 1..m, NEW z \in Nat,
         \A j, k \in 1..Len(p) : j < k => p[j] < p[k],
         NEW s, Len(s) = z, \A j \in 1..z : s[j] = m + j, NEW q, Joined(p, s, q)
  PROVE  Grown(p, m, z, q)
<1>4. PICK a \in Nat : a = Len(p) BY DEF IsSeq
<1>5. \A j \in 1..a : p[j] \in 1..m BY <1>4 DEF Elements
<1>7. IsSeq(q) /\ Len(q) = a + z /\ \A j \in 1..a : q[j] = p[j]
  BY <1>4 DEF Joined
<1>8. \A j \in 1..z : q[a + j] = m + j BY <1>4 DEF Joined
<1>9. ASSUME NEW j \in 1..(a + z)
      PROVE  \/ j <= a /\ j \in 1..a /\ q[j] = p[j] /\ q[j] \in 1..m
             \/ j > a /\ \E k \in 1..z : j = a + k /\ q[j] = m + k
  <2>1. CASE j <= a BY <1>5, <1>7, <2>1
  <2>2. CASE j > a
    <3>1. PICK k \in 1..z : j = a + k
      <4>1. j - a \in 1..z /\ j = a + (j - a) BY <2>2
      <4> QED BY <4>1
    <3>2. q[j] = m + k BY <1>8, <3>1
    <3> QED BY <2>2, <3>1, <3>2
  <2> QED BY <2>1, <2>2
<1>10. ASSUME NEW j \in 1..(a + z), NEW k \in 1..(a + z), j < k PROVE q[j] < q[k]
  <2>1. CASE k <= a
    <3>1. j \in 1..a /\ k \in 1..a BY <1>10, <2>1
    <3> QED BY <1>4, <1>7, <1>10, <3>1
  <2>2. CASE k > a
    <3>1. PICK x \in 1..z : k = a + x /\ q[k] = m + x BY <1>9, <2>2
    <3>2. CASE j <= a
      <4>1. q[j] \in 1..m BY <1>9, <3>2
      <4> QED BY <3>1, <4>1
    <3>3. CASE j > a
      <4>1. PICK y \in 1..z : j = a + y /\ q[j] = m + y BY <1>9, <3>3
      <4> QED BY <1>10, <3>1, <4>1
    <3> QED BY <3>2, <3>3
  <2> QED BY <2>1, <2>2
<1>11. ASSUME NEW n PROVE n \in Elements(q) <=> n \in Elements(p) \/ n \in (m + 1)..(m + z)
  <2>1. ASSUME n \in Elements(q) PROVE n \in Elements(p) \/ n \in (m + 1)..(m + z)
    <3>1. PICK j \in 1..(a + z) : n = q[j] BY <1>7, <2>1 DEF Elements
    <3>2. CASE j <= a
      <4>1. j \in 1..a /\ q[j] = p[j] BY <1>9, <3>2
      <4> QED BY <1>4, <3>1, <4>1 DEF Elements
    <3>3. CASE j > a
      <4>1. PICK k \in 1..z : j = a + k /\ q[j] = m + k BY <1>9, <3>3
      <4> QED BY <3>1, <4>1
    <3> QED BY <3>2, <3>3
  <2>2. ASSUME n \in Elements(p) PROVE n \in Elements(q)
    <3>1. PICK j \in 1..a : n = p[j] BY <1>4, <2>2 DEF Elements
    <3>2. j \in 1..(a + z) /\ q[j] = n BY <1>7, <3>1
    <3> QED BY <1>7, <3>2 DEF Elements
  <2>3. ASSUME n \in (m + 1)..(m + z) PROVE n \in Elements(q)
    <3>1. PICK k \in 1..z : n = m + k
      <4>1. n - m \in 1..z /\ n = m + (n - m) BY <2>3
      <4> QED BY <4>1
    <3>2. a + k \in 1..(a + z) OBVIOUS
    <3>3. q[a + k] = n BY <1>8, <3>1
    <3> QED BY <1>7, <3>2, <3>3 DEF Elements
  <2> QED BY <2>1, <2>2, <2>3
<1> QED BY <1>7, <1>10, <1>11 DEF Grown

\* The table when the i-th node of a block is linked.
Table(i) == reservation \o [k \in 1..(i - 1) |-> Len(node) + k]

\* The instructions and the nodes under way once block b is there.
LEMMA BlockCode ==
  ASSUME StateOK, NEW b \in Blocks, NEW K, WithBlock(K, b)
  PROVE  /\ Len(node) \in Nat /\ Len(Code[b]) \in Nat
         /\ \A n \in 1..Len(node) : At(K, n) = Instr(n) /\ At(node, n) = Instr(n)
         /\ \A n \in 1..Len(node) : n \in Open(K) <=> n \in Open(node)
         /\ \A i \in 1..Len(Code[b]) :
              At(K, Len(node) + i) = Code[b][i] /\ Len(node) + i \in Open(K)
<1>1. Len(node) \in Nat BY DEF StateOK, NodesOK, IsSeq
<1>2. Code[b] \in Seq(Instruction) BY CodeAssumption
<1>3. Len(Code[b]) \in Nat BY <1>2
<1>4. ASSUME NEW n \in 1..Len(node)
      PROVE  /\ At(K, n) = Instr(n) /\ At(node, n) = Instr(n)
             /\ n \in Open(K) <=> n \in Open(node)
  BY <1>1, <1>3 DEF WithBlock, At, Instr, Open
<1>5. ASSUME NEW i \in 1..Len(Code[b])
      PROVE  At(K, Len(node) + i) = Code[b][i] /\ Len(node) + i \in Open(K)
  <2>1. PICK k \in Nat : k = Len(node) + i BY <1>1
  <2>2. k \in 1..Len(K) BY <1>1, <1>3, <2>1 DEF WithBlock
  <2>3. K[k].blk = b /\ K[k].idx = i /\ ~K[k].committed BY <2>1 DEF WithBlock
  <2> QED BY <2>1, <2>2, <2>3 DEF At, Open
<1> QED BY <1>1, <1>3, <1>4, <1>5

\* The table is in program order: the nodes that wait, then those of the block.
LEMMA TableIs ==
  ASSUME StateOK, NEW i \in Nat, i >= 1, NEW q, q = Table(i)
  PROVE  /\ IsSeq(q)
         /\ \A j, k \in 1..Len(q) : j <= k => q[j] \in Nat /\ q[k] \in Nat /\ q[j] <= q[k]
         /\ \A n : n \in Elements(q) <=>
                     n \in Elements(reservation) \/ n \in (Len(node) + 1)..(Len(node) + i - 1)
<1>1. PICK m \in Nat, z \in Nat : m = Len(node) /\ z = i - 1
  BY DEF StateOK, NodesOK, IsSeq
<1>2. PICK p : p = reservation OBVIOUS
<1>3. PICK s : s = [k \in 1..z |-> m + k] OBVIOUS
<1>4. p \in Seq(Open(node)) /\ \A j, k \in 1..Len(p) : j < k => p[j] < p[k]
  BY <1>2 DEF StateOK, QueuesOK
<1>5. IsSeq(p) BY <1>4 DEF IsSeq
<1>6. Elements(p) \subseteq 1..m BY <1>1, <1>4 DEF Elements, Open
<1>7. Len(s) = z /\ IsSeq(s) /\ \A j \in 1..z : s[j] = m + j BY <1>3 DEF IsSeq
<1>8. q = p \o s BY <1>1, <1>2, <1>3 DEF Table
<1>9. Joined(p, s, q) BY <1>5, <1>7, <1>8, Join
<1>10. Grown(p, m, z, q) BY <1>4, <1>5, <1>6, <1>7, <1>9, TableGrows
<1>11. /\ IsSeq(q) /\ \A j, k \in 1..Len(q) : j < k => q[j] < q[k]
       /\ Elements(q) = Elements(p) \cup (m + 1)..(m + z)
  BY <1>10 DEF Grown
<1>12. \A j \in 1..Len(q) : q[j] \in Nat
  <2>1. \A x \in Elements(q) : x \in Nat BY <1>6, <1>11
  <2> QED BY <2>1 DEF Elements
<1>13. \A j, k \in 1..Len(q) : j <= k => q[j] \in Nat /\ q[k] \in Nat /\ q[j] <= q[k]
  BY <1>11, <1>12
<1>14. (m + 1)..(m + z) = (Len(node) + 1)..(Len(node) + i - 1) BY <1>1
<1> QED BY <1>2, <1>11, <1>13, <1>14

\* A node under way that returns to a register is found in a queue, alone.
LEMMA InQueue ==
  ASSUME StateOK, NEW r \in Regs, NEW w \in 1..Len(node), Instr(w).ret = r,
         w \notin Elements(reservation), NEW S, S \subseteq Nat, w \in S,
         \A x \in S : x \in 1..Len(node) => Instr(x).ret = r /\ x <= w
  PROVE  /\ w \in Open(node) =>
              FirstFound(<<>>, Last(computeQueue, S), Last(readQueue, S)) = <<w>>
         /\ w \notin Open(node) =>
              FirstFound(<<>>, Last(computeQueue, S), Last(readQueue, S)) = <<>>
<1>1. /\ computeQueue \in Seq(Open(node)) /\ readQueue \in Seq(Open(node))
      /\ Open(node) \subseteq 1..Len(node) /\ Len(node) \in Nat
  BY DEF StateOK, QueuesOK, Open, NodesOK, IsSeq
<1>2. IsSeq(computeQueue) /\ IsSeq(readQueue) BY <1>1 DEF IsSeq
<1>3. \A n \in 1..Len(node) : At(node, n) = Instr(n) BY DEF At, Instr
<1>4. \A x \in Elements(computeQueue) \cup Elements(readQueue) :
        x \in Open(node) /\ x \notin Elements(reservation)
  <2>1. \A x \in Elements(computeQueue) \cup Elements(readQueue) : x \in Open(node)
    BY <1>1 DEF Elements
  <2>2. \A x \in Elements(computeQueue) \cup Elements(readQueue) :
          x \notin Elements(reservation)
    BY DEF StateOK, QueuesOK
  <2> QED BY <2>1, <2>2
<1>5. r # None BY CodeAssumption
<1>6. NodesOK(node, Elements(reservation)) BY DEF StateOK
<1>7. ASSUME NEW x \in Elements(computeQueue) \cup Elements(readQueue), x \in S
      PROVE  x = w /\ w \in Open(node)
  <2>1. x \in Open(node) /\ x \notin Elements(reservation) /\ x \in 1..Len(node)
    BY <1>1, <1>4
  <2>2. At(node, x).ret = r /\ x <= w BY <1>3, <1>7, <2>1
  <2>3. At(node, w).ret = r BY <1>3
  <2>4. w <= x BY <1>5, <1>6, <2>1, <2>2, <2>3, OneUnderWay
  <2>5. x = w BY <1>1, <2>1, <2>2, <2>4
  <2> QED BY <2>1, <2>5
<1>8. ASSUME NEW q, q = computeQueue \/ q = readQueue
      PROVE  /\ Last(q, S) = <<>> \/ Last(q, S) = <<w>>
             /\ w \in Elements(q) <=> Last(q, S) = <<w>>
             /\ Last(q, S) = <<w>> => w \in Open(node)
  <2>1. IsSeq(q) BY <1>2, <1>8
  <2>2. \A j \in 1..Len(q) : q[j] \in S => q[j] = w /\ w \in Open(node)
    BY <1>7, <1>8 DEF Elements
  <2>3. CASE Last(q, S) = <<>> /\ \A j \in 1..Len(q) : q[j] \notin S
    <3>1. w \notin Elements(q) BY <2>3 DEF Elements
    <3> QED BY <2>3, <3>1
  <2>4. CASE \E j \in 1..Len(q) : Last(q, S) = <<q[j]>> /\ q[j] \in S
    BY <2>2, <2>4 DEF Elements
  <2> QED BY <2>1, <2>3, <2>4, LastIs
<1>9. PICK s2, s3 : s2 = Last(computeQueue, S) /\ s3 = Last(readQueue, S) OBVIOUS
<1>10. /\ s2 = <<>> \/ s2 = <<w>>
       /\ s3 = <<>> \/ s3 = <<w>>
       /\ w \in Elements(computeQueue) <=> s2 = <<w>>
       /\ w \in Elements(readQueue) <=> s3 = <<w>>
       /\ s2 = <<w>> \/ s3 = <<w>> => w \in Open(node)
  BY <1>8, <1>9
<1>11. ASSUME w \in Open(node) PROVE w \in Elements(computeQueue) \cup Elements(readQueue)
  <2>1. At(node, w).ret # None BY <1>3, <1>5
  <2>2. Formed(node, w) BY <1>6 DEF NodesOK
  <2>3. At(node, w).op \notin {"store", "br", "ret"} BY <2>1, <2>2, NodeInstr
  <2>4. w \notin Elements(writeQueue) BY <2>3 DEF StateOK, QueuesOK, Elements
  <2> QED BY <1>11, <2>3, <2>4 DEF StateOK, QueuesOK
<1> QED BY <1>9, <1>10, <1>11 DEF FirstFound

\* findParent() finds the last earlier node that returns to the register if it is
\* under way, and nothing otherwise.
LEMMA FoundIs ==
  ASSUME StateOK, NEW b \in Blocks, NEW K, WithBlock(K, b), NEW i \in 1..Len(Code[b]),
         NEW r \in Regs, NEW S, S = {n \in 1..(Len(node) + i - 1) : At(K, n).ret = r},
         NEW w, w = WriterBefore(K, r, Len(node) + i), NEW f, f = FindParent(Table(i), S)
  PROVE  f = IF w \in Open(K) THEN <<w>> ELSE <<>>
<1>1. /\ Len(node) \in Nat /\ Len(Code[b]) \in Nat
      /\ \A n \in 1..Len(node) : At(K, n) = Instr(n) /\ At(node, n) = Instr(n)
      /\ \A n \in 1..Len(node) : n \in Open(K) <=> n \in Open(node)
      /\ \A k \in 1..Len(Code[b]) : Len(node) + k \in Open(K)
  BY BlockCode
<1>2. PICK m \in Nat : m = Len(node) BY <1>1
<1>3. w = Latest(S) BY DEF WriterBefore
<1>4. S \subseteq 1..(m + i - 1) /\ m + i - 1 \in Nat BY <1>1, <1>2
<1>5. /\ S = {} => w = 0
      /\ S # {} => w \in S /\ \A x \in S : x <= w
  <2>1. PICK k \in Nat : k = m + i - 1 BY <1>4
  <2>2. S \subseteq 1..k BY <1>4, <2>1
  <2>3. /\ S = {} => Latest(S) = 0
        /\ S # {} => Latest(S) \in S /\ \A x \in S : x <= Latest(S)
    BY <2>2, LatestIs
  <2> QED BY <1>3, <2>3
<1>6. PICK q : q = Table(i) OBVIOUS
<1>7. /\ IsSeq(q)
      /\ \A j, k \in 1..Len(q) : j <= k => q[j] \in Nat /\ q[k] \in Nat /\ q[j] <= q[k]
      /\ \A n : n \in Elements(q) <=>
                  n \in Elements(reservation) \/ n \in (m + 1)..(m + i - 1)
  BY <1>1, <1>2, <1>6, TableIs
<1>8. f = FirstFound(Last(q, S), Last(computeQueue, S), Last(readQueue, S))
  BY <1>6 DEF FindParent
<1>9. \A n \in Elements(reservation) : n \in Open(node) /\ n \in 1..m
  BY <1>2 DEF StateOK, QueuesOK, Elements, Open
<1>10. CASE S = {}
  <2>1. w = 0 BY <1>5, <1>10
  <2>2. w \notin Open(K) BY <2>1 DEF Open
  <2>3. \A p : Last(p, S) = <<>> BY <1>10 DEF Last
  <2> QED BY <1>8, <2>2, <2>3 DEF FirstFound
<1>11. CASE S # {} /\ w \in Elements(q)
  <2>1. PICK j \in 1..Len(q) : w = q[j] BY <1>11 DEF Elements
  <2>2. PICK k \in 1..Len(q) :
          Last(q, S) = <<q[k]>> /\ q[k] \in S /\ \A l \in 1..Len(q) : q[l] \in S => l <= k
    <3>1. q[j] \in S BY <1>5, <1>11, <2>1
    <3> QED BY <1>7, <3>1, LastIs
  <2>3. j <= k /\ q[k] <= w BY <1>5, <1>11, <2>1, <2>2
  <2>4. q[k] = w BY <1>7, <2>1, <2>3
  <2>5. w \in Open(K)
    <3>1. CASE w \in Elements(reservation) BY <1>1, <1>2, <1>9, <3>1
    <3>2. CASE w \in (m + 1)..(m + i - 1)
      <4>1. PICK k1 \in 1..Len(Code[b]) : w = m + k1
        <5>1. w - m \in 1..Len(Code[b]) /\ w = m + (w - m) BY <1>1, <3>2
        <5> QED BY <5>1
      <4> QED BY <1>1, <1>2, <4>1
    <3> QED BY <1>7, <1>11, <3>1, <3>2
  <2>6. Last(q, S) = <<w>> BY <2>2, <2>4
  <2>7. FirstFound(<<w>>, Last(computeQueue, S), Last(readQueue, S)) = <<w>>
    BY DEF FirstFound
  <2> QED BY <1>8, <2>5, <2>6, <2>7
<1>12. CASE S # {} /\ w \notin Elements(q)
  <2>1. w \in S /\ \A x \in S : x <= w BY <1>5, <1>12
  <2>2. w \in 1..m /\ w \notin Elements(reservation) BY <1>4, <1>7, <1>12, <2>1
  <2>3. At(K, w).ret = r BY <2>1
  <2>4. Instr(w).ret = r /\ At(node, w).ret = r BY <1>1, <1>2, <2>2, <2>3
  <2>5. \A x \in S : x \in 1..Len(node) => Instr(x).ret = r /\ x <= w BY <1>1, <2>1
  <2>6. S \subseteq Nat BY <1>4
  <2>7. Last(q, S) = <<>>
    <3>1. ASSUME NEW x \in S, x \in Elements(q) PROVE FALSE
      <4>1. x <= w /\ x # w BY <1>12, <2>1, <3>1
      <4>2. x \in 1..(w - 1) /\ x \in 1..m BY <1>4, <2>2, <4>1
      <4>3. x \in Elements(reservation) BY <1>7, <3>1, <4>2
      <4>4. x \in Open(node) BY <1>9, <4>3
      <4>5. At(node, x).ret = r BY <1>1, <1>2, <2>5, <4>2
      <4>6. Chained(node, Elements(reservation), w) BY <1>2, <2>2 DEF StateOK, NodesOK
      <4> QED BY <2>2, <2>4, <4>2, <4>4, <4>5, <4>6, CodeAssumption DEF Chained
    <3>2. \A j \in 1..Len(q) : q[j] \notin S BY <3>1 DEF Elements
    <3> QED BY <3>2 DEF Last
  <2>8. /\ w \in Open(node) => f = <<w>>
        /\ w \notin Open(node) => f = <<>>
    BY <1>2, <1>8, <2>1, <2>2, <2>4, <2>5, <2>6, <2>7, InQueue
  <2>9. w \in Open(K) <=> w \in Open(node) BY <1>1, <1>2, <2>2
  <2> QED BY <2>8, <2>9
<1> QED BY <1>10, <1>11, <1>12

\* Search result f is at most one node, of S and under way.
OneOf(K, S, f) == f = <<>> \/ \E p \in S : f = <<p>> /\ p \in Open(K)

\* detectRAW() finds at most one store, which is under way.
LEMMA RawIs ==
  ASSUME StateOK, NEW b \in Blocks, NEW K, WithBlock(K, b), NEW i \in 1..Len(Code[b]),
         NEW S, S \subseteq 1..(Len(node) + i - 1), NEW f, f = DetectRAW(Table(i), S)
  PROVE  OneOf(K, S, f)
<1>1. /\ Len(node) \in Nat /\ Len(Code[b]) \in Nat
      /\ \A n \in 1..Len(node) : n \in Open(K) <=> n \in Open(node)
      /\ \A k \in 1..Len(Code[b]) : Len(node) + k \in Open(K)
  BY BlockCode
<1>2. PICK m \in Nat : m = Len(node) BY <1>1
<1>3. PICK q : q = Table(i) OBVIOUS
<1>4. /\ IsSeq(q)
      /\ \A n : n \in Elements(q) <=>
                  n \in Elements(reservation) \/ n \in (m + 1)..(m + i - 1)
  BY <1>1, <1>2, <1>3, TableIs
<1>5. /\ reservation \in Seq(Open(node)) /\ writeQueue \in Seq(Open(node))
      /\ Open(node) \subseteq 1..Len(node)
  BY DEF StateOK, QueuesOK, Open
<1>6. IsSeq(writeQueue) BY <1>5 DEF IsSeq
<1>7. \A n \in Elements(reservation) \cup Elements(writeQueue) : n \in Open(K)
  BY <1>1, <1>5 DEF Elements
<1>8. \A n \in Elements(q) : n \in Open(K)
  <2> SUFFICES ASSUME NEW n \in Elements(q) PROVE n \in Open(K) OBVIOUS
  <2>1. CASE n \in Elements(reservation) BY <1>7, <2>1
  <2>2. CASE n \in (m + 1)..(m + i - 1)
    <3>1. n - m \in 1..Len(Code[b]) /\ n = m + (n - m) BY <1>1, <2>2
    <3>2. PICK k \in 1..Len(Code[b]) : n = m + k BY <3>1
    <3> QED BY <1>1, <1>2, <3>2
  <2> QED BY <1>4, <2>1, <2>2
<1>9. ASSUME NEW p, p = q \/ p = writeQueue
      PROVE  Last(p, S) = <<>> \/ \E x \in S : Last(p, S) = <<x>> /\ x \in Open(K)
  <2>1. IsSeq(p) /\ \A x \in Elements(p) : x \in Open(K) BY <1>4, <1>6, <1>7, <1>8, <1>9
  <2>2. \A j \in 1..Len(p) : p[j] \in Open(K) BY <2>1 DEF Elements
  <2> QED BY <2>1, <2>2, LastIs
<1>10. PICK s1, s2 : s1 = Last(q, S) /\ s2 = Last(writeQueue, S) OBVIOUS
<1>11. /\ s1 = <<>> \/ \E x \in S : s1 = <<x>> /\ x \in Open(K)
       /\ s2 = <<>> \/ \E x \in S : s2 = <<x>> /\ x \in Open(K)
  BY <1>9, <1>10
<1>12. f = FirstFound(s1, s2, <<>>) BY <1>3, <1>10 DEF DetectRAW
<1>13. f = s1 \/ f = s2 \/ f = <<>> BY <1>12 DEF FirstFound
<1> QED BY <1>11, <1>13 DEF OneOf

\* The parent that is found for register r of node n.
Found(K, r, n) ==
  IF WriterBefore(K, r, n) \in Open(K) THEN <<WriterBefore(K, r, n)>> ELSE <<>>

\* The nodes before n that store through register r.
StoresVia(K, r, n) == {k \in 1..(n - 1) : At(K, k).op = "store" /\ At(K, k).ptr = r}

\* c is what scheduleBB() makes of node n, the i-th of block b: others are the
\* previous instance, the store before a load and the base of a getelementptr.
Made(K, b, prev, i, n, c, line, raw, base) ==
  LET ins == Code[b][i]
      d == Dependencies(ins, prev)
  IN  /\ IsNode(c) /\ c.blk = b /\ c.idx = i /\ c.prev = prev
      /\ c.cycle = 0 /\ c.value = Unset /\ c.committed = FALSE
      /\ c.others = line \o raw \o base
      /\ line = IF ins.ret = None THEN <<>> ELSE Found(K, ins.ret, n)
      /\ raw = <<>> \/ \E p \in 1..(n - 1) :
                         raw = <<p>> /\ p \in Open(K) /\ At(K, p).op = "store"
      /\ ins.op = "load" => raw = DetectRAW(Table(i), StoresVia(K, ins.ptr, n))
      /\ base = <<>> \/ \E r \in Regs : base = Found(K, r, n)
      /\ c.producers = [j \in {j \in 1..Len(d) : Found(K, d[j], n) # <<>>} |->
                          Found(K, d[j], n)[1]]
      /\ c.active = Len(line \o raw \o base) + Cardinality(DOMAIN c.producers)
                    + (IF ins.op = "ret" THEN 1 ELSE 0)
      /\ c.ops = [j \in 1..Len(d) |-> IF Found(K, d[j], n) = <<>> THEN register[d[j]] ELSE Unset]

\* A new node.
LEMMA NewIs ==
  ASSUME StateOK, NEW b \in Blocks, NEW prev \in Blocks, NEW K, WithBlock(K, b),
         NEW i \in 1..Len(Code[b]), NEW n, n = Len(node) + i,
         NEW c, c = NewNode(b, prev, Len(node), i)
  PROVE  \E line, raw, base : Made(K, b, prev, i, n, c, line, raw, base)
<1>1. /\ Len(node) \in Nat /\ Len(Code[b]) \in Nat
      /\ \A k \in 1..Len(node) : At(K, k) = Instr(k)
      /\ \A k \in 1..Len(Code[b]) : At(K, Len(node) + k) = Code[b][k]
  BY BlockCode
<1> DEFINE m == Len(node)
           ins == Code[b][i]
           In(k) == IF k > m THEN Code[b][k - m] ELSE Instr(k)
           LineOf(k) == IF k > m THEN <<b, k - m>> ELSE Line(k)
           known == 1..(m + i - 1)
           Returns(r) == FindParent(Table(i), {k \in known : In(k).ret = r})
           d == Dependencies(ins, prev)
           line == IF ins.ret = None THEN <<>>
                   ELSE PreviousInstance(Table(i), {k \in known : LineOf(k) = <<b, i>>})
           raw == IF ins.op # "load" THEN <<>>
                  ELSE DetectRAW(Table(i), {k \in known : In(k).op = "store" /\ In(k).ptr = ins.ptr})
           base == IF ins.op # "gep" THEN <<>> ELSE Returns(ins.base)
           found == [j \in 1..Len(d) |-> Returns(d[j])]
           fromDeps == LET T == {j \in 1..Len(d) : found[j] # <<>>}
                       IN  [j \in T |-> found[j][1]]
<1>2. c = [blk |-> b, idx |-> i, prev |-> prev,
           others |-> line \o raw \o base,
           producers |-> fromDeps,
           active |-> Len(line \o raw \o base) + Cardinality(DOMAIN fromDeps)
                      + (IF ins.op = "ret" THEN 1 ELSE 0),
           ops |-> [j \in 1..Len(d) |-> IF found[j] = <<>> THEN register[d[j]] ELSE Unset],
           base |-> IF ins.op = "gep" /\ base = <<>> THEN register[ins.base] ELSE Unset,
           cycle |-> 0, value |-> Unset, committed |-> FALSE]
  BY DEF NewNode, Table
<1>3. \A k \in known : In(k) = At(K, k)
  <2> SUFFICES ASSUME NEW k \in known PROVE In(k) = At(K, k) OBVIOUS
  <2>1. CASE k > m
    <3>1. k - m \in 1..Len(Code[b]) /\ k = m + (k - m) BY <1>1, <2>1
    <3>2. PICK x \in 1..Len(Code[b]) : k = m + x /\ x = k - m BY <3>1
    <3> QED BY <1>1, <2>1, <3>2
  <2>2. CASE ~(k > m) BY <1>1, <2>2
  <2> QED BY <2>1, <2>2
<1> HIDE DEF In
<1>4. known = 1..(Len(node) + i - 1) /\ known = 1..(n - 1) BY <1>1
<1>5. ASSUME NEW r \in Regs PROVE Returns(r) = Found(K, r, n)
  <2>1. PICK S, w, f : /\ S = {k \in known : In(k).ret = r}
                       /\ w = WriterBefore(K, r, n) /\ f = Returns(r)
    OBVIOUS
  <2>2. S = {k \in 1..(Len(node) + i - 1) : At(K, k).ret = r} BY <1>3, <1>4, <2>1
  <2>3. f = FindParent(Table(i), S) /\ w = WriterBefore(K, r, Len(node) + i) BY <2>1
  <2> HIDE DEF Returns, known
  <2>4. f = IF w \in Open(K) THEN <<w>> ELSE <<>> BY <2>2, <2>3, FoundIs
  <2> QED BY <2>1, <2>4 DEF Found
<1>6. ins \in Instruction /\ ins.ret \in Regs \cup {None} /\ d \in Seq(Regs)
      /\ (ins.op = "gep" => ins.base \in Regs)
  <2>1. Code[b] \in Seq(Instruction) BY CodeAssumption
  <2>2. ins \in Instruction BY <2>1
  <2>3. ins.op = "gep" => ins.base \in Regs BY CodeAssumption
  <2> HIDE DEF ins
  <2>4. ins.ret \in Regs \cup {None} /\ ins.deps \in Seq(Regs)
        /\ ins.phi \in [Blocks -> Regs \cup {None}]
    BY <2>2 DEF Instruction
  <2>5. d \in Seq(Regs)
    <3>1. PICK r \in Regs \cup {None} : r = ins.phi[prev] BY <2>4
    <3>2. d = IF ins.op # "phi" THEN ins.deps ELSE IF r = None THEN <<>> ELSE <<r>>
      BY <3>1 DEF Dependencies
    <3> QED BY <2>4, <3>2
  <2> QED BY <2>2, <2>3, <2>4, <2>5
<1>7. ins.ret # None => line = Found(K, ins.ret, n)
  <2> SUFFICES ASSUME ins.ret # None PROVE line = Found(K, ins.ret, n) OBVIOUS
  <2>1. ASSUME NEW k \in known PROVE LineOf(k) = <<b, i>> <=> In(k).ret = ins.ret
    <3>1. CASE k > m
      <4>1. k - m \in 1..Len(Code[b]) /\ In(k) = Code[b][k - m] /\ LineOf(k) = <<b, k - m>>
        BY <1>1, <3>1 DEF In
      <4>2. PICK x \in 1..Len(Code[b]) : x = k - m BY <4>1
      <4>3. In(k) = Code[b][x] /\ LineOf(k) = <<b, x>> BY <4>1, <4>2
      <4>4. Code[b][x].ret = ins.ret => x = i BY SSAAssumption
      <4> HIDE DEF LineOf
      <4> QED BY <4>3, <4>4
    <3>2. CASE ~(k > m)
      <4>1. In(k) = Instr(k) /\ LineOf(k) = Line(k) BY <3>2 DEF In
      <4>2. k \in 1..Len(node) BY <1>1, <3>2
      <4>3. Formed(node, k) BY <4>2 DEF StateOK, NodesOK
      <4>4. PICK b1, x : b1 = node[k].blk /\ x = node[k].idx OBVIOUS
      <4>5. b1 \in Blocks /\ x \in 1..Len(Code[b1]) BY <4>3, <4>4 DEF Formed
      <4>6. Instr(k) = Code[b1][x] /\ Line(k) = <<b1, x>> BY <4>4 DEF Instr, Line
      <4>7. Code[b1][x].ret = ins.ret => b1 = b /\ x = i BY <4>5, SSAAssumption
      <4> HIDE DEF LineOf
      <4> QED BY <4>1, <4>6, <4>7
    <3> QED BY <3>1, <3>2
  <2>2. {k \in known : LineOf(k) = <<b, i>>} = {k \in known : In(k).ret = ins.ret} BY <2>1
  <2>3. line = Returns(ins.ret) BY <2>2 DEF PreviousInstance
  <2> QED BY <1>5, <1>6, <2>3
<1>8. raw = <<>> \/ \E p \in 1..(n - 1) :
                      raw = <<p>> /\ p \in Open(K) /\ At(K, p).op = "store"
  <2>1. CASE ins.op # "load" BY <2>1
  <2>2. CASE ins.op = "load"
    <3>1. PICK S : S = {k \in known : In(k).op = "store" /\ In(k).ptr = ins.ptr} OBVIOUS
    <3>2. S \subseteq 1..(Len(node) + i - 1) /\ raw = DetectRAW(Table(i), S)
      BY <2>2, <3>1
    <3>3. \A k \in S : k \in 1..(n - 1) /\ At(K, k).op = "store" BY <1>3, <1>4, <3>1
    <3> HIDE DEF raw, known
    <3>4. PICK f : f = raw OBVIOUS
    <3>6. f = DetectRAW(Table(i), S) BY <3>2, <3>4
    <3>5. OneOf(K, S, f) BY <3>2, <3>6, RawIs
    <3> QED BY <3>3, <3>4, <3>5 DEF OneOf
  <2> QED BY <2>1, <2>2
<1>8a. ins.op = "load" => raw = DetectRAW(Table(i), StoresVia(K, ins.ptr, n))
  <2> SUFFICES ASSUME ins.op = "load"
               PROVE  raw = DetectRAW(Table(i), StoresVia(K, ins.ptr, n))
    OBVIOUS
  <2>1. {k \in known : In(k).op = "store" /\ In(k).ptr = ins.ptr} = StoresVia(K, ins.ptr, n)
    <3> HIDE DEF ins
    <3> QED BY <1>3, <1>4 DEF StoresVia
  <2> QED BY <2>1
<1>9. base = <<>> \/ \E r \in Regs : base = Found(K, r, n)
  <2>1. CASE ins.op # "gep" BY <2>1
  <2>2. CASE ins.op = "gep"
    <3>1. base = Returns(ins.base) BY <2>2
    <3> QED BY <1>5, <1>6, <2>2, <3>1
  <2> QED BY <2>1, <2>2
<1>10. \A j \in 1..Len(d) : found[j] = Found(K, d[j], n)
  <2> SUFFICES ASSUME NEW j \in 1..Len(d) PROVE found[j] = Found(K, d[j], n) OBVIOUS
  <2>1. d[j] \in Regs BY <1>6
  <2>2. found[j] = Returns(d[j]) OBVIOUS
  <2> HIDE DEF Returns, found
  <2> QED BY <1>5, <2>1, <2>2
<1> HIDE DEF Returns, found, line, raw, base, d, ins
<1>11. fromDeps = [j \in {j \in 1..Len(d) : Found(K, d[j], n) # <<>>} |-> Found(K, d[j], n)[1]]
  <2>1. {j \in 1..Len(d) : found[j] # <<>>} = {j \in 1..Len(d) : Found(K, d[j], n) # <<>>}
    BY <1>10
  <2> QED BY <1>10, <2>1
<1>12. [j \in 1..Len(d) |-> IF found[j] = <<>> THEN register[d[j]] ELSE Unset]
        = [j \in 1..Len(d) |-> IF Found(K, d[j], n) = <<>> THEN register[d[j]] ELSE Unset]
  BY <1>10
<1> HIDE DEF fromDeps
<1>13. /\ IsNode(c) /\ c.blk = b /\ c.idx = i /\ c.prev = prev
       /\ c.cycle = 0 /\ c.value = Unset /\ c.committed = FALSE
       /\ c.others = line \o raw \o base /\ c.producers = fromDeps
       /\ c.active = Len(line \o raw \o base) + Cardinality(DOMAIN fromDeps)
                    + (IF ins.op = "ret" THEN 1 ELSE 0)
       /\ c.ops = [j \in 1..Len(d) |-> IF found[j] = <<>> THEN register[d[j]] ELSE Unset]
  BY <1>2 DEF IsNode
<1>14. line = IF ins.ret = None THEN <<>> ELSE Found(K, ins.ret, n)
  BY <1>7 DEF line
<1>15. Made(K, b, prev, i, n, c, line, raw, base)
  BY <1>8, <1>8a, <1>9, <1>11, <1>12, <1>13, <1>14 DEF Made, d, ins
<1> QED BY <1>15

\* Search result f is at most one element of S.
AtMostOne(S, f) == f = <<>> \/ \E p \in S : f = <<p>>

\* Sequence s has elements of S, and those of x and y if they have one.
FromThree(S, x, y, s) ==
  /\ s \in Seq(S) /\ s \in Seq(Nat)
  /\ \A p \in S : x = <<p>> \/ y = <<p>> => \E k \in 1..Len(s) : s[k] = p

\* Three search results one after the other.
LEMMA Three ==
  ASSUME NEW S, S \subseteq Nat, NEW x, NEW y, NEW z, NEW s, s = x \o y \o z,
         AtMostOne(S, x), AtMostOne(S, y), AtMostOne(S, z)
  PROVE  FromThree(S, x, y, s)
<1>1. ASSUME NEW f, AtMostOne(S, f) PROVE f \in Seq(S) /\ IsSeq(f)
  <2>1. f \in Seq(S)
    <3>1. CASE f = <<>> BY <3>1
    <3>2. CASE f # <<>>
      <4>1. PICK p \in S : f = <<p>> BY <1>1, <3>2 DEF AtMostOne
      <4> QED BY <4>1
    <3> QED BY <3>1, <3>2
  <2> QED BY <2>1 DEF IsSeq
<1>2. x \in Seq(S) /\ y \in Seq(S) /\ z \in Seq(S) BY <1>1
<1>3. PICK u : u = x \o y OBVIOUS
<1>4. u \in Seq(S) /\ s = u \o z BY <1>2, <1>3
<1>7. s \in Seq(S) BY <1>2, <1>4
<1>5. s \in Seq(S) /\ s \in Seq(Nat)
  <2> SUFFICES ASSUME NEW t \in Seq(S) PROVE t \in Seq(Nat) BY <1>7
  <2>1. Len(t) \in Nat /\ t = [k \in 1..Len(t) |-> t[k]] OBVIOUS
  <2>4. \A k \in 1..Len(t) : t[k] \in S OBVIOUS
  <2>2. \A k \in 1..Len(t) : t[k] \in Nat BY <2>4
  <2>3. [k \in 1..Len(t) |-> t[k]] \in Seq(Nat) BY <2>1, <2>2
  <2> QED BY <2>1, <2>3
<1>6. ASSUME NEW p \in S, x = <<p>> PROVE \E k \in 1..Len(s) : s[k] = p
  <2>1. Len(x) = 1 /\ x[1] = p BY <1>6
  <2>2. Joined(x, y, u) BY <1>1, <1>3, Join
  <2>7. IsSeq(u) /\ IsSeq(z) BY <1>1, <2>2 DEF Joined
  <2>8. Joined(u, z, u \o z) BY <2>7, Join
  <2>3. IsSeq(u) /\ Joined(u, z, s) BY <1>4, <2>7, <2>8
  <2>4. Len(y) \in Nat /\ Len(z) \in Nat BY <1>2
  <2>5. Len(u) \in Nat /\ Len(u) >= 1 /\ u[1] = p BY <2>1, <2>2, <2>4 DEF Joined
  <2>6. 1 \in 1..Len(s) /\ s[1] = p BY <2>3, <2>4, <2>5 DEF Joined
  <2> QED BY <2>6
<1>8. ASSUME NEW p \in S, y = <<p>> PROVE \E k \in 1..Len(s) : s[k] = p
  <2>1. Len(y) = 1 /\ y[1] = p /\ 1 \in 1..Len(y) BY <1>8
  <2>2. Joined(x, y, u) BY <1>1, <1>3, Join
  <2>3. IsSeq(u) /\ IsSeq(z) BY <1>1, <2>2 DEF Joined
  <2>4. Joined(u, z, s) BY <1>4, <2>3, Join
  <2>5. PICK m \in Nat, l \in Nat : m = Len(x) /\ l = Len(z) BY <1>2
  <2>6. Len(u) = m + 1 /\ u[m + 1] = p BY <2>1, <2>2, <2>5 DEF Joined
  <2>7. Len(s) = m + 1 + l /\ m + 1 \in 1..Len(u) BY <2>4, <2>5, <2>6 DEF Joined
  <2>8. s[m + 1] = p BY <2>4, <2>6, <2>7 DEF Joined
  <2>9. m + 1 \in 1..Len(s) BY <2>5, <2>7
  <2> QED BY <2>8, <2>9
<1> QED BY <1>5, <1>6, <1>8 DEF FromThree

\* A parent of node n as scheduleBB() links it.
GoodParent(K, n, p) ==
  /\ p \in 1..(n - 1) /\ p \in Open(K) /\ At(K, p).op \notin {"br", "ret"}
  /\ At(K, p).op # "store" => p = WriterBefore(K, At(K, p).ret, n)

\* Every node returns to a register or is a store, a branch or a ret.
LEMMA BlockOps ==
  ASSUME StateOK, NEW b \in Blocks, NEW K, WithBlock(K, b), NEW n \in 1..Len(K)
  PROVE  At(K, n).op \in {"store", "br", "ret"} <=> At(K, n).ret = None
<1>1. /\ Len(node) \in Nat /\ Len(Code[b]) \in Nat
      /\ \A k \in 1..Len(node) : At(K, k) = Instr(k) /\ At(node, k) = Instr(k)
      /\ \A k \in 1..Len(Code[b]) : At(K, Len(node) + k) = Code[b][k]
  BY BlockCode
<1>2. CASE n <= Len(node)
  <2>1. n \in 1..Len(node) BY <1>1, <1>2
  <2>2. Formed(node, n) BY <2>1 DEF StateOK, NodesOK
  <2>3. At(node, n).op \in {"store", "br", "ret"} <=> At(node, n).ret = None
    BY <2>2, NodeInstr
  <2> QED BY <1>1, <2>1, <2>3
<1>3. CASE n > Len(node)
  <2>1. PICK k \in 1..Len(Code[b]) : n = Len(node) + k
    <3>1. n - Len(node) \in 1..Len(Code[b]) /\ n = Len(node) + (n - Len(node))
      BY <1>1, <1>3 DEF WithBlock
    <3> QED BY <3>1
  <2>2. At(K, n) = Code[b][k] BY <1>1, <2>1
  <2> QED BY <2>2, CodeAssumption
<1>4. Len(K) \in Nat BY DEF WithBlock, IsSeq
<1> QED BY <1>1, <1>2, <1>3, <1>4

\* What is found for a register is a good parent.
LEMMA FoundGood ==
  ASSUME StateOK, NEW b \in Blocks, NEW K, WithBlock(K, b),
         NEW i \in 1..Len(Code[b]), NEW n, n = Len(node) + i, NEW r \in Regs,
         NEW w, w = WriterBefore(K, r, n), w \in Open(K)
  PROVE  GoodParent(K, n, w) /\ At(K, w).ret = r
<1>1. Len(node) \in Nat /\ Len(Code[b]) \in Nat BY BlockCode
<1>2. n \in Nat /\ n >= 1 /\ n - 1 < Len(K) BY <1>1 DEF WithBlock
<1>3. w \in 1..Len(K) BY DEF Open
<1>4. Len(K) \in Nat BY DEF WithBlock, IsSeq
<1>5. w # 0 BY <1>3, <1>4
<1>6. w \in 0..(n - 1) BY <1>2, WriterIs
<1>7. At(K, w).ret = r BY <1>2, <1>5, WriterIs
<1>8. w \in 1..(n - 1) BY <1>2, <1>5, <1>6
<1>9. At(K, w).op \notin {"br", "ret"} BY <1>3, <1>7, BlockOps, CodeAssumption
<1> QED BY <1>7, <1>8, <1>9 DEF GoodParent

\* The parents of a new node, and how many there are.
LEMMA NewLinks ==
  ASSUME StateOK, NEW b \in Blocks, NEW prev \in Blocks, NEW K, WithBlock(K, b),
         NEW i \in 1..Len(Code[b]), NEW n, n = Len(node) + i,
         NEW c, NEW line, NEW raw, NEW base, Made(K, b, prev, i, n, c, line, raw, base)
  PROVE  /\ \A p \in Parents(c) : GoodParent(K, n, p)
         /\ c.others \in Seq(Nat)
         /\ c.active = Links(c, Open(K)) + (IF Code[b][i].op = "ret" THEN 1 ELSE 0)
         /\ Code[b][i].ret # None /\ WriterBefore(K, Code[b][i].ret, n) \in Open(K)
              => WriterBefore(K, Code[b][i].ret, n) \in Parents(c)
         /\ \A p : raw = <<p>> => \E k \in 1..Len(c.others) : c.others[k] = p
<1> DEFINE ins == Code[b][i]
           d == Dependencies(ins, prev)
           G == {p \in 1..(n - 1) : GoodParent(K, n, p)}
<1>1. Len(node) \in Nat /\ Len(Code[b]) \in Nat BY BlockCode
<1>2. n \in Nat /\ n >= 1 /\ n - 1 < Len(K) /\ n - 1 \in Nat /\ Len(K) \in Nat
  BY <1>1 DEF WithBlock, IsSeq
<1>3. G \subseteq Nat /\ \A p : p \in G <=> GoodParent(K, n, p)
  BY <1>2 DEF GoodParent
<1>4. ins.ret \in Regs \cup {None} /\ d \in Seq(Regs)
  <2>1. Code[b] \in Seq(Instruction) BY CodeAssumption
  <2>2. ins \in Instruction BY <2>1
  <2> HIDE DEF ins
  <2>3. ins.ret \in Regs \cup {None} /\ ins.deps \in Seq(Regs)
        /\ ins.phi \in [Blocks -> Regs \cup {None}]
    BY <2>2 DEF Instruction
  <2>4. PICK r \in Regs \cup {None} : r = ins.phi[prev] BY <2>3
  <2>5. d = IF ins.op # "phi" THEN ins.deps ELSE IF r = None THEN <<>> ELSE <<r>>
    BY <2>4 DEF Dependencies
  <2> QED BY <2>3, <2>5
<1>5. /\ c.others = line \o raw \o base
      /\ line = IF ins.ret = None THEN <<>> ELSE Found(K, ins.ret, n)
      /\ raw = <<>> \/ \E p \in 1..(n - 1) :
                         raw = <<p>> /\ p \in Open(K) /\ At(K, p).op = "store"
      /\ base = <<>> \/ \E r \in Regs : base = Found(K, r, n)
      /\ c.producers = [j \in {j \in 1..Len(d) : Found(K, d[j], n) # <<>>} |->
                          Found(K, d[j], n)[1]]
      /\ c.active = Len(line \o raw \o base) + Cardinality(DOMAIN c.producers)
                    + (IF ins.op = "ret" THEN 1 ELSE 0)
  BY DEF Made
<1> HIDE DEF ins, d, G
<1>6. ASSUME NEW r \in Regs
      PROVE  \/ Found(K, r, n) = <<>>
             \/ /\ Found(K, r, n) = <<WriterBefore(K, r, n)>>
                /\ WriterBefore(K, r, n) \in G /\ WriterBefore(K, r, n) \in Open(K)
  <2>1. PICK w : w = WriterBefore(K, r, n) OBVIOUS
  <2>2. CASE w \in Open(K)
    <3>1. GoodParent(K, n, w) BY <2>1, <2>2, FoundGood
    <3> QED BY <1>3, <2>1, <2>2, <3>1 DEF Found
  <2>3. CASE w \notin Open(K) BY <2>1, <2>3 DEF Found
  <2> QED BY <2>2, <2>3
<1>7. AtMostOne(G, line) BY <1>4, <1>5, <1>6 DEF AtMostOne
<1>8. AtMostOne(G, base) BY <1>5, <1>6 DEF AtMostOne
<1>9. AtMostOne(G, raw)
  <2>1. CASE raw = <<>> BY <2>1 DEF AtMostOne
  <2>2. CASE raw # <<>>
    <3>1. PICK p \in 1..(n - 1) : raw = <<p>> /\ p \in Open(K) /\ At(K, p).op = "store"
      BY <1>5, <2>2
    <3>2. GoodParent(K, n, p) BY <3>1 DEF GoodParent
    <3> QED BY <1>3, <3>1, <3>2 DEF AtMostOne
  <2> QED BY <2>1, <2>2
<1>10. PICK s : s = line \o raw \o base OBVIOUS
<1>11. /\ s \in Seq(G) /\ s \in Seq(Nat)
       /\ \A p \in G : line = <<p>> \/ raw = <<p>> => \E k \in 1..Len(s) : s[k] = p
  <2>1. G \subseteq Nat BY <1>3
  <2>2. FromThree(G, line, raw, s) BY <1>7, <1>8, <1>9, <1>10, <2>1, Three
  <2> QED BY <2>2 DEF FromThree
<1>12. c.others = s BY <1>5, <1>10
<1>13. PICK D : D = DOMAIN c.producers OBVIOUS
<1>14. D \subseteq 1..Len(d) /\ \A j \in D : c.producers[j] \in G
  <2>1. D = {j \in 1..Len(d) : Found(K, d[j], n) # <<>>} BY <1>5, <1>13
  <2>2. ASSUME NEW j \in D PROVE c.producers[j] \in G
    <3>1. j \in 1..Len(d) /\ Found(K, d[j], n) # <<>> BY <2>1
    <3>2. d[j] \in Regs BY <1>4, <3>1
    <3>3. PICK w : w \in G /\ Found(K, d[j], n) = <<w>> BY <1>6, <3>1, <3>2
    <3>4. c.producers[j] = Found(K, d[j], n)[1] BY <1>5, <2>1
    <3> QED BY <3>3, <3>4
  <2> QED BY <2>1, <2>2
<1>15. \A p \in Parents(c) : p \in G BY <1>11, <1>12, <1>13, <1>14 DEF Parents
<1>16. c.active = Links(c, Open(K)) + (IF ins.op = "ret" THEN 1 ELSE 0)
  <2>1. \A p \in G : p \in Open(K) BY <1>3 DEF GoodParent
  <2>2. {j \in DOMAIN c.producers : c.producers[j] \in Open(K)} = D BY <1>13, <1>14, <2>1
  <2>3. {k \in 1..Len(c.others) : c.others[k] \in Open(K)} = 1..Len(s)
    BY <1>11, <1>12, <2>1
  <2>4. Links(c, Open(K)) = Cardinality(D) + Cardinality(1..Len(s))
    BY <2>2, <2>3 DEF Links
  <2>5. PICK l \in Nat : l = Len(s) BY <1>11
  <2>6. Cardinality(1..l) = l
    <3>1. Cardinality(1..l) = IF 1 > l THEN 0 ELSE l - 1 + 1 BY FS_Interval
    <3> QED BY <3>1
  <2>7. Cardinality(D) \in Nat
    <3>1. PICK e \in Nat : e = Len(d) BY <1>4
    <3>2. IsFiniteSet(1..e) BY FS_Interval
    <3>3. IsFiniteSet(D) BY <1>14, <3>1, <3>2, FS_Subset
    <3> QED BY <3>3, FS_CardinalityType
  <2>8. PICK x \in Nat : x = Cardinality(D) BY <2>7
  <2>9. PICK e \in Nat : e = IF ins.op = "ret" THEN 1 ELSE 0 OBVIOUS
  <2>10. Links(c, Open(K)) = x + l BY <2>4, <2>5, <2>6, <2>8
  <2>11. c.active = l + x + e BY <1>5, <1>10, <1>13, <2>5, <2>8, <2>9
  <2>12. c.active = (x + l) + e BY <2>11
  <2> QED BY <2>9, <2>10, <2>12
<1>17. ASSUME ins.ret # None, WriterBefore(K, ins.ret, n) \in Open(K)
       PROVE  WriterBefore(K, ins.ret, n) \in Parents(c)
  <2>1. ins.ret \in Regs BY <1>4, <1>17
  <2>2. PICK w : w = WriterBefore(K, ins.ret, n) OBVIOUS
  <2>3. line = <<w>> BY <1>5, <1>17, <2>2 DEF Found
  <2>4. w \in G BY <1>3, <1>17, <2>1, <2>2, FoundGood
  <2>5. PICK k \in 1..Len(s) : s[k] = w BY <1>11, <2>3, <2>4
  <2> QED BY <1>12, <2>2, <2>5 DEF Parents
<1>18. ASSUME NEW p, raw = <<p>> PROVE \E k \in 1..Len(c.others) : c.others[k] = p
  <2>1. p \in G BY <1>9, <1>18 DEF AtMostOne
  <2> QED BY <1>11, <1>12, <1>18, <2>1
<1> QED BY <1>3, <1>11, <1>12, <1>15, <1>16, <1>17, <1>18 DEF ins

\* The numbers of the nodes of a block that comes in now.
Fresh(b) == (Len(node) + 1)..(Len(node) + Len(Code[b]))

\* The nodes that wait then.
Table2(b) == Elements(reservation) \cup Fresh(b)

\* The nodes that were there are left alone.
LEMMA BlockOld ==
  ASSUME StateOK, NEW b \in Blocks, NEW K, WithBlock(K, b), NEW n \in 1..Len(node)
  PROVE  /\ Formed(K, n) /\ Linked(K, n) /\ Counted(K, n)
         /\ Chained(K, Table2(b), n) /\ Filled(K, n) /\ Ready(K, Table2(b), n)
<1>1. /\ Len(node) \in Nat /\ Len(Code[b]) \in Nat
      /\ \A k \in 1..Len(node) : k \in Open(K) <=> k \in Open(node)
  BY BlockCode
<1>2. SameCode(node, K, Len(node)) /\ K[n] = node[n] BY DEF SameCode, Same, WithBlock
<1>3. PICK W : W = Elements(reservation) OBVIOUS
<1>4. /\ Formed(node, n) /\ Linked(node, n) /\ Counted(node, n)
      /\ Chained(node, W, n) /\ Filled(node, n) /\ Ready(node, W, n)
  BY <1>3 DEF StateOK, NodesOK
<1>5. /\ At(K, n) = At(node, n) /\ DepsAt(K, n) = DepsAt(node, n)
      /\ \A m \in 1..(n - 1) : m \in 1..Len(node) /\ At(K, m) = At(node, m)
      /\ \A r : WriterBefore(K, r, n) = WriterBefore(node, r, n)
  <2>1. n \in 1..(Len(node) + 1) /\ \A m \in 1..(n - 1) : m \in 1..Len(node) BY <1>1
  <2> QED BY <1>1, <1>2, <2>1, Unmoved
<1>6. Parents(K[n]) = Parents(node[n]) /\ n \notin Fresh(b) BY <1>1, <1>2 DEF Fresh
<1>7. Parents(node[n]) \cap Open(K) = Parents(node[n]) \cap Open(node)
  <2>1. \A p \in Parents(node[n]) : p \in 1..(n - 1) BY <1>4 DEF Linked
  <2> QED BY <1>1, <1>5, <2>1
<1>8. Formed(K, n)
  <2>1. Len(K) \in Nat /\ Len(K) >= Len(node) BY <1>1 DEF WithBlock
  <2>2. PICK D : D = 1..Len(DepsAt(node, n)) OBVIOUS
  <2>3. node[n].ops \in [D -> {Unset} \cup 0..Len(node)] BY <1>4, <2>2 DEF Formed
  <2>4. {Unset} \cup 0..Len(node) \subseteq {Unset} \cup 0..Len(K) BY <1>1, <2>1
  <2>5. node[n].ops \in [D -> {Unset} \cup 0..Len(K)] BY <2>3, <2>4
  <2> QED BY <1>2, <1>4, <1>5, <2>2, <2>5 DEF Formed
<1>9. Linked(K, n)
  <2>1. \A p \in Parents(node[n]) : p \in 1..(n - 1) => At(K, p) = At(node, p) BY <1>5
  <2> QED BY <1>2, <1>4, <1>5, <2>1 DEF Linked
<1>10. Counted(K, n)
  <2>1. Links(node[n], Open(K)) = Links(node[n], Open(node)) BY <1>7, LinksSame
  <2> QED BY <1>2, <1>4, <1>5, <2>1 DEF Counted
<1>11. Chained(K, Table2(b), n)
  <2>1. n \notin Table2(b) => n \notin W BY <1>3 DEF Table2
  <2>2. \A m \in 1..(n - 1) : m \in Open(K) <=> m \in Open(node) BY <1>1, <1>5
  <2> QED BY <1>4, <1>5, <1>6, <2>1, <2>2 DEF Chained
<1>12. Filled(K, n)
  <2> SUFFICES ASSUME NEW j \in 1..Len(DepsAt(node, n)), NEW w,
                      w = WriterBefore(node, DepsAt(node, n)[j], n)
               PROVE  /\ w \in Open(K) => j \in DOMAIN node[n].producers
                      /\ At(node, n).op # "phi" /\ w \notin Open(K) => node[n].ops[j] = w
    BY <1>2, <1>5 DEF Filled
  <2>1. w \in Open(K) <=> w \in Open(node)
    <3>1. PICK r : r = DepsAt(node, n)[j] OBVIOUS
    <3>2. w = WriterBefore(node, r, n) /\ n \in Nat /\ n >= 1 BY <1>1, <3>1
    <3>6. WriterBefore(node, r, n) \in 0..(n - 1) BY <3>2, WriterIs
    <3>3. w \in 0..(n - 1) BY <3>2, <3>6
    <3>4. CASE w = 0
      <4>1. 0 \notin Open(K) /\ 0 \notin Open(node) BY DEF Open
      <4> QED BY <3>4, <4>1
    <3>5. CASE w # 0
      <4>1. w \in 1..Len(node) BY <1>1, <3>3, <3>5
      <4> QED BY <1>1, <4>1
    <3> QED BY <3>4, <3>5
  <2> QED BY <1>4, <2>1 DEF Filled
<1>13. Ready(K, Table2(b), n)
  <2>1. n \notin Table2(b) => n \notin W BY <1>3 DEF Table2
  <2> QED BY <1>4, <1>6, <1>7, <2>1 DEF Ready
<1> QED BY <1>8, <1>9, <1>10, <1>11, <1>12, <1>13

\* A committed writer that no later one follows is what the register holds.
LEMMA Held ==
  ASSUME StateOK, NEW b \in Blocks, NEW K, WithBlock(K, b), NEW i \in 1..Len(Code[b]),
         NEW n, n = Len(node) + i, NEW r \in Regs, NEW w, w = WriterBefore(K, r, n),
         w \notin Open(K)
  PROVE  register[r] = w /\ w \in 0..Len(node)
<1>1. /\ Len(node) \in Nat /\ Len(Code[b]) \in Nat
      /\ \A k \in 1..Len(node) : At(K, k) = Instr(k) /\ At(node, k) = Instr(k)
      /\ \A k \in 1..Len(node) : k \in Open(K) <=> k \in Open(node)
      /\ \A k \in 1..Len(Code[b]) : Len(node) + k \in Open(K)
  BY BlockCode
<1>2. PICK A : A = Writers(node, r) OBVIOUS
<1>3. register[r] = Latest(A) BY <1>2 DEF StateOK, RegistersOK, Writers
<1>4. A \subseteq 1..Len(node) BY <1>2 DEF Writers
<1>5. n \in Nat /\ n >= 1 BY <1>1
<1>6. w \in 0..(n - 1) BY <1>5, WriterIs
<1>7. \A m \in 1..(n - 1) : At(K, m).ret = r => m <= w /\ w # 0 BY <1>5, WriterIs
<1>8. \A m \in A : m <= w /\ w # 0
  <2> SUFFICES ASSUME NEW m \in A PROVE m <= w /\ w # 0 OBVIOUS
  <2>1. m \in 1..Len(node) /\ At(K, m).ret = r BY <1>1, <1>2 DEF Writers
  <2>2. m \in 1..(n - 1) BY <1>1, <2>1
  <2> QED BY <1>7, <2>1, <2>2
<1>9. CASE w = 0
  <2>1. A = {} BY <1>8, <1>9
  <2> QED BY <1>1, <1>3, <1>9, <2>1 DEF Latest
<1>10. CASE w # 0
  <2>1. At(K, w).ret = r BY <1>5, <1>10, WriterIs
  <2>2. w \in 1..Len(node)
    <3>1. ASSUME w > Len(node) PROVE FALSE
      <4>1. w - Len(node) \in 1..Len(Code[b]) /\ w = Len(node) + (w - Len(node))
        BY <1>1, <1>6, <3>1
      <4>2. PICK k \in 1..Len(Code[b]) : w = Len(node) + k BY <4>1
      <4> QED BY <1>1, <4>2
    <3> QED BY <1>1, <1>5, <1>6, <1>10, <3>1
  <2>3. w \in A BY <1>1, <1>2, <2>1, <2>2 DEF Writers
  <2>4. Latest(A) = w BY <1>1, <1>4, <1>8, <2>3, LatestIs
  <2> QED BY <1>1, <1>3, <2>2, <2>4
<1> QED BY <1>9, <1>10

\* A new node has the invariant.
LEMMA BlockNew ==
  ASSUME StateOK, NEW b \in Blocks, NEW prev \in Blocks, NEW K, WithBlock(K, b),
         NEW i \in 1..Len(Code[b]), NEW n, n = Len(node) + i,
         K[n] = NewNode(b, prev, Len(node), i)
  PROVE  /\ Formed(K, n) /\ Linked(K, n) /\ Counted(K, n)
         /\ Chained(K, Table2(b), n) /\ Filled(K, n) /\ Ready(K, Table2(b), n)
<1>1. /\ Len(node) \in Nat /\ Len(Code[b]) \in Nat
      /\ \A k \in 1..Len(node) : At(K, k) = Instr(k) /\ At(node, k) = Instr(k)
      /\ \A k \in 1..Len(node) : k \in Open(K) <=> k \in Open(node)
      /\ \A k \in 1..Len(Code[b]) : Len(node) + k \in Open(K)
      /\ At(K, n) = Code[b][i]
  BY BlockCode
<1>2. PICK c : c = K[n] OBVIOUS
<1>3. PICK line, raw, base : Made(K, b, prev, i, n, c, line, raw, base)
  BY <1>2, NewIs
<1>4. /\ \A p \in Parents(c) : GoodParent(K, n, p)
      /\ c.others \in Seq(Nat)
      /\ c.active = Links(c, Open(K)) + (IF Code[b][i].op = "ret" THEN 1 ELSE 0)
      /\ Code[b][i].ret # None /\ WriterBefore(K, Code[b][i].ret, n) \in Open(K)
           => WriterBefore(K, Code[b][i].ret, n) \in Parents(c)
  BY <1>3, NewLinks
<1> DEFINE ins == Code[b][i]
           d == Dependencies(ins, prev)
<1>5. /\ IsNode(c) /\ c.blk = b /\ c.idx = i /\ c.prev = prev
      /\ c.cycle = 0 /\ c.committed = FALSE
      /\ c.producers = [j \in {j \in 1..Len(d) : Found(K, d[j], n) # <<>>} |->
                          Found(K, d[j], n)[1]]
      /\ c.ops = [j \in 1..Len(d) |-> IF Found(K, d[j], n) = <<>> THEN register[d[j]] ELSE Unset]
  BY <1>3 DEF Made
<1>6. d \in Seq(Regs)
  <2>1. Code[b] \in Seq(Instruction) BY CodeAssumption
  <2>2. ins \in Instruction BY <2>1
  <2> HIDE DEF ins
  <2>3. ins.deps \in Seq(Regs) /\ ins.phi \in [Blocks -> Regs \cup {None}]
    BY <2>2 DEF Instruction
  <2>4. PICK r \in Regs \cup {None} : r = ins.phi[prev] BY <2>3
  <2>5. d = IF ins.op # "phi" THEN ins.deps ELSE IF r = None THEN <<>> ELSE <<r>>
    BY <2>4 DEF Dependencies
  <2> QED BY <2>3, <2>5
<1>7. DepsAt(K, n) = d BY <1>1, <1>2, <1>5 DEF DepsAt
<1>8. n \in Fresh(b) /\ n \in Table2(b) /\ n \in Nat /\ n >= 1 BY <1>1 DEF Fresh, Table2
<1>9. Len(K) \in Nat /\ Len(K) >= Len(node) BY <1>1 DEF WithBlock
<1>10. \A j \in 1..Len(d) : d[j] \in Regs BY <1>6
<1> HIDE DEF d, ins
<1>11. ASSUME NEW j \in 1..Len(d), NEW w, w = WriterBefore(K, d[j], n)
       PROVE  /\ w \in Open(K) => j \in DOMAIN c.producers /\ c.producers[j] = w /\ c.ops[j] = Unset
              /\ w \notin Open(K) =>
                   j \notin DOMAIN c.producers /\ c.ops[j] = w /\ w \in 0..Len(node)
  <2>1. CASE w \in Open(K)
    <3>1. Found(K, d[j], n) = <<w>> BY <1>11, <2>1 DEF Found
    <3> QED BY <1>5, <2>1, <3>1
  <2>2. CASE w \notin Open(K)
    <3>1. Found(K, d[j], n) = <<>> BY <1>11, <2>2 DEF Found
    <3>2. PICK r \in Regs : r = d[j] BY <1>10
    <3>3. register[r] = w /\ w \in 0..Len(node) BY <1>11, <2>2, <3>2, Held
    <3> QED BY <1>5, <2>2, <3>1, <3>2, <3>3
  <2> QED BY <2>1, <2>2
<1>12. DOMAIN c.producers \subseteq 1..Len(d) BY <1>5
<1>13. Formed(K, n)
  <2>1. c.ops \in [1..Len(d) -> {Unset} \cup 0..Len(K)]
    <3>1. \A j \in 1..Len(d) : c.ops[j] \in {Unset} \cup 0..Len(node) BY <1>11
    <3>2. \A j \in 1..Len(d) : c.ops[j] \in {Unset} \cup 0..Len(K) BY <1>1, <1>9, <3>1
    <3>3. c.ops = [j \in 1..Len(d) |-> c.ops[j]] BY <1>5
    <3> QED BY <3>2, <3>3
  <2>2. /\ IsNode(c) /\ c.blk \in Blocks /\ c.prev \in Blocks
        /\ c.idx \in 1..Len(Code[c.blk]) /\ c.others \in Seq(Nat)
    BY <1>4, <1>5
  <2>4. c.cycle = 0 /\ c.committed = FALSE BY <1>5
  <2>5. c.cycle \in Nat BY <2>4
  <2>6. c.committed \in BOOLEAN BY <2>4
  <2>3. c.cycle \in Nat /\ c.committed \in BOOLEAN BY <2>5, <2>6
  <2> QED BY <1>2, <1>7, <1>12, <2>1, <2>2, <2>3 DEF Formed
<1>14. Linked(K, n)
  <2>1. \A j \in DOMAIN c.producers : c.producers[j] = WriterBefore(K, d[j], n)
    BY <1>11, <1>12
  <2> QED BY <1>2, <1>4, <1>7, <2>1 DEF Linked, GoodParent
<1>15. Counted(K, n) BY <1>1, <1>2, <1>4 DEF Counted
<1>16. Chained(K, Table2(b), n)
  <2> SUFFICES ASSUME ins.ret # None, NEW m \in 1..(n - 1), At(K, m).ret = ins.ret,
                      m \in Open(K)
               PROVE  WriterBefore(K, ins.ret, n) \in Parents(c)
    BY <1>1, <1>2, <1>8 DEF Chained, ins
  <2>1. PICK w : w = WriterBefore(K, ins.ret, n) OBVIOUS
  <2>2. w \in 0..(n - 1) BY <1>8, <2>1, WriterIs
  <2>3. m <= w /\ w # 0 BY <1>8, <2>1, WriterIs
  <2>4. At(K, w).ret = ins.ret BY <1>8, <2>1, <2>3, WriterIs
  <2>5. w \in Open(K)
    <3>1. CASE w > Len(node)
      <4>1. w - Len(node) \in 1..Len(Code[b]) /\ w = Len(node) + (w - Len(node))
        BY <1>1, <2>2, <3>1
      <4>2. PICK k \in 1..Len(Code[b]) : w = Len(node) + k BY <4>1
      <4> QED BY <1>1, <4>2
    <3>2. CASE m = w BY <3>2
    <3>3. CASE w <= Len(node) /\ m # w
      <4>1. w \in 1..Len(node) /\ m \in 1..(w - 1) /\ m \in 1..Len(node)
        BY <1>1, <1>8, <2>2, <2>3, <3>3
      <4>2. m \in Open(node) /\ At(node, m).ret = At(node, w).ret /\ At(node, w).ret # None
        BY <1>1, <2>4, <4>1
      <4>3. Chained(node, Elements(reservation), w) BY <4>1 DEF StateOK, NodesOK
      <4>4. w \in Elements(reservation) BY <4>1, <4>2, <4>3 DEF Chained
      <4>5. w \in Open(node) BY <4>4 DEF StateOK, QueuesOK, Elements
      <4> QED BY <1>1, <4>1, <4>5
    <3> QED BY <1>1, <1>8, <2>2, <3>1, <3>2, <3>3
  <2> QED BY <1>4, <2>1, <2>5 DEF ins
<1>17. Filled(K, n) BY <1>2, <1>7, <1>11 DEF Filled
<1>18. Ready(K, Table2(b), n) BY <1>8 DEF Ready
<1> QED BY <1>13, <1>14, <1>15, <1>16, <1>17, <1>18

\* K is N with the nodes of block b, and has the invariant.
Extended(K, b) ==
  /\ WithBlock(K, b) /\ NodesOK(K, Table2(b)) /\ RegistersOK(K, register)
  /\ Open(K) = Open(node) \cup Fresh(b)

\* scheduleBB() keeps the invariant of the nodes.
LEMMA ScheduleKeeps ==
  ASSUME StateOK, NEW b \in Blocks, NEW prev \in Blocks,
         NEW K, K = ScheduleBB(b, prev, node)
  PROVE  Extended(K, b)
<1>1. IsSeq(node) /\ Len(node) \in Nat BY DEF StateOK, NodesOK, IsSeq
<1>2. Code[b] \in Seq(Instruction) BY CodeAssumption
<1>3. PICK l \in Nat : l = Len(Code[b]) BY <1>2
<1>4. PICK m \in Nat : m = Len(node) BY <1>1
<1> DEFINE V(i) == NewNode(b, prev, Len(node), i)
<1>5. PICK q : q = [i \in 1..l |-> V(i)] OBVIOUS
<1>6. K = node \o q BY <1>3, <1>5 DEF ScheduleBB
<1>7. \A i \in 1..l : V(i).blk = b /\ V(i).idx = i /\ V(i).committed = FALSE
  BY DEF NewNode
<1> HIDE DEF V
<1>8. Len(q) = l /\ IsSeq(q) BY <1>5 DEF IsSeq
<1>9. Joined(node, q, K) BY <1>1, <1>6, <1>8, Join
<1>10. /\ IsSeq(K) /\ Len(K) = m + l
       /\ \A n \in 1..m : K[n] = node[n]
       /\ \A i \in 1..l : K[m + i] = V(i)
  BY <1>4, <1>5, <1>8, <1>9 DEF Joined
<1>11. \A i \in 1..l : K[m + i].blk = b /\ K[m + i].idx = i /\ K[m + i].committed = FALSE
  BY <1>7, <1>10
<1>12. WithBlock(K, b) BY <1>3, <1>4, <1>10, <1>11 DEF WithBlock
<1>13. ASSUME NEW n \in 1..Len(K)
       PROVE  n \in 1..m \/ \E i \in 1..l : n = m + i
  <2>1. CASE n <= m BY <1>10, <2>1
  <2>2. CASE n > m
    <3>1. n - m \in 1..l /\ n = m + (n - m) BY <1>10, <2>2
    <3> QED BY <3>1
  <2> QED BY <1>10, <2>1, <2>2
<1>14. ASSUME NEW n \in 1..Len(K)
       PROVE  /\ Formed(K, n) /\ Linked(K, n) /\ Counted(K, n)
              /\ Chained(K, Table2(b), n) /\ Filled(K, n) /\ Ready(K, Table2(b), n)
  <2>1. CASE n \in 1..m
    <3>1. n \in 1..Len(node) BY <1>4, <2>1
    <3> QED BY <1>12, <3>1, BlockOld
  <2>2. CASE \E i \in 1..l : n = m + i
    <3>1. PICK i \in 1..l : n = m + i BY <2>2
    <3>2. i \in 1..Len(Code[b]) /\ n = Len(node) + i BY <1>3, <1>4, <3>1
    <3>3. K[n] = NewNode(b, prev, Len(node), i) BY <1>10, <3>1 DEF V
    <3> QED BY <1>12, <3>2, <3>3, BlockNew
  <2> QED BY <1>13, <2>1, <2>2
<1>15. NodesOK(K, Table2(b)) BY <1>10, <1>14 DEF NodesOK
<1>16. /\ \A n \in 1..Len(node) : At(K, n) = Instr(n) /\ At(node, n) = Instr(n)
       /\ \A n \in 1..Len(node) : n \in Open(K) <=> n \in Open(node)
       /\ \A i \in 1..Len(Code[b]) : Len(node) + i \in Open(K)
  BY <1>12, BlockCode
<1>17. ASSUME NEW n PROVE n \in Open(K) <=> n \in Open(node) \/ n \in Fresh(b)
  <2>1. Open(K) \subseteq 1..Len(K) /\ Open(node) \subseteq 1..m BY <1>4 DEF Open
  <2>2. Fresh(b) = (m + 1)..(m + l) BY <1>3, <1>4 DEF Fresh
  <2>3. ASSUME n \in Open(K) PROVE n \in Open(node) \/ n \in Fresh(b)
    <3>1. n \in 1..m \/ \E i \in 1..l : n = m + i BY <1>13, <2>1, <2>3
    <3>2. CASE n \in 1..m BY <1>4, <1>16, <2>3, <3>2
    <3>3. CASE \E i \in 1..l : n = m + i BY <2>2, <3>3
    <3> QED BY <3>1, <3>2, <3>3
  <2>4. ASSUME n \in Open(node) PROVE n \in Open(K) BY <1>4, <1>16, <2>1, <2>4
  <2>5. ASSUME n \in Fresh(b) PROVE n \in Open(K)
    <3>1. n - m \in 1..l /\ n = m + (n - m) BY <2>2, <2>5
    <3>2. PICK i \in 1..l : n = m + i BY <3>1
    <3> QED BY <1>3, <1>4, <1>16, <3>2
  <2> QED BY <2>3, <2>4, <2>5
<1>18. RegistersOK(K, register)
  <2>1. ASSUME NEW r \in Regs PROVE Writers(K, r) = Writers(node, r)
    <3>1. ASSUME NEW n \in (1..Len(K)) \ Open(K) PROVE n \in (1..Len(node)) \ Open(node)
      <4>1. CASE n \in 1..m BY <1>4, <1>16, <3>1, <4>1
      <4>2. CASE \E i \in 1..l : n = m + i BY <1>3, <1>4, <1>16, <4>2
      <4> QED BY <1>13, <4>1, <4>2
    <3>2. ASSUME NEW n \in (1..Len(node)) \ Open(node) PROVE n \in (1..Len(K)) \ Open(K)
      BY <1>4, <1>10, <1>16
    <3> QED BY <1>16, <3>1, <3>2 DEF Writers
  <2>2. register = [r \in Regs |-> Latest(Writers(node, r))]
    BY DEF StateOK, RegistersOK, Writers
  <2>3. register = [r \in Regs |-> Latest(Writers(K, r))] BY <2>1, <2>2
  <2> QED BY <2>3 DEF RegistersOK, Writers
<1> QED BY <1>12, <1>15, <1>17, <1>18 DEF Extended

(***************************************************************************)
(* Queues                                                                  *)
(***************************************************************************)

\* Queue p is queue q with n at its end.
LEMMA AppendIs ==
  ASSUME NEW q, IsSeq(q), NEW n, NEW p, p = Append(q, n)
  PROVE  /\ IsSeq(p) /\ Len(p) = Len(q) + 1 /\ p[Len(q) + 1] = n
         /\ \A k \in 1..Len(q) : p[k] = q[k]
         /\ Elements(p) = Elements(q) \cup {n}
         /\ Distinct(q) /\ n \notin Elements(q) => Distinct(p)
<1> DEFINE T == Elements(q) \cup {n}
<1>1. PICK l \in Nat : l = Len(q) BY DEF IsSeq
<1>2. q \in Seq(T)
  <2>1. \A k \in 1..l : q[k] \in T BY <1>1 DEF Elements
  <2> HIDE DEF T
  <2>2. [k \in 1..l |-> q[k]] \in Seq(T) BY <2>1
  <2> QED BY <1>1, <2>2 DEF IsSeq
<1>3. n \in T OBVIOUS
<1> HIDE DEF T
<1>4. p \in Seq(T) /\ Len(p) = l + 1 /\ p[l + 1] = n /\ \A k \in 1..l : p[k] = q[k]
  BY <1>1, <1>2, <1>3
<1>5. IsSeq(p)
  <2>1. \A t \in Seq(T) : Len(t) \in Nat /\ t = [k \in 1..Len(t) |-> t[k]] OBVIOUS
  <2> QED BY <1>4, <2>1 DEF IsSeq
<1>6. Elements(p) = Elements(q) \cup {n}
  <2>1. \A k \in 1..(l + 1) : k \in 1..l \/ k = l + 1 OBVIOUS
  <2>2. \A k \in 1..l : k \in 1..(l + 1) OBVIOUS
  <2>3. l + 1 \in 1..(l + 1) OBVIOUS
  <2>4. Elements(p) \subseteq T
    <3>1. \A k \in 1..(l + 1) : p[k] \in T BY <1>4
    <3> QED BY <1>4, <3>1 DEF Elements
  <2>5. ASSUME NEW x \in Elements(q) PROVE x \in Elements(p)
    <3>1. PICK k \in 1..l : x = q[k] BY <1>1 DEF Elements
    <3>2. k \in 1..(l + 1) /\ p[k] = x BY <1>4, <2>2, <3>1
    <3> QED BY <1>4, <3>2 DEF Elements
  <2>6. n \in Elements(p) BY <1>4, <2>3 DEF Elements
  <2> QED BY <2>4, <2>5, <2>6 DEF T
<1>7. ASSUME Distinct(q), n \notin Elements(q) PROVE Distinct(p)
  <2> SUFFICES ASSUME NEW j \in 1..(l + 1), NEW k \in 1..(l + 1), p[j] = p[k] PROVE j = k
    BY <1>4 DEF Distinct
  <2>1. \A x \in 1..l : p[x] # n BY <1>1, <1>4, <1>7 DEF Elements
  <2>2. j \in 1..l \/ j = l + 1 OBVIOUS
  <2>3. k \in 1..l \/ k = l + 1 OBVIOUS
  <2>4. CASE j \in 1..l /\ k \in 1..l BY <1>1, <1>4, <1>7, <2>4 DEF Distinct
  <2> QED BY <1>4, <2>1, <2>2, <2>3, <2>4
<1> QED BY <1>1, <1>4, <1>5, <1>6, <1>7

\* Queue q without its i-th element.
LEMMA WithoutIs ==
  ASSUME NEW q, IsSeq(q), NEW i \in 1..Len(q), NEW p, p = Without(q, i)
  PROVE  /\ IsSeq(p) /\ Len(p) = Len(q) - 1
         /\ \A k \in 1..Len(p) : p[k] = IF k < i THEN q[k] ELSE q[k + 1]
<1> DEFINE T == Elements(q)
<1>1. PICK l \in Nat : l = Len(q) BY DEF IsSeq
<1>2. q \in Seq(T)
  <2>1. \A k \in 1..l : q[k] \in T BY <1>1 DEF Elements
  <2> HIDE DEF T
  <2>2. [k \in 1..l |-> q[k]] \in Seq(T) BY <2>1
  <2> QED BY <1>1, <2>2 DEF IsSeq
<1> HIDE DEF T
<1>3. i \in 1..l BY <1>1
<1>4. PICK a, z : a = SubSeq(q, 1, i - 1) /\ z = SubSeq(q, i + 1, Len(q)) OBVIOUS
<1>5. a \in Seq(T) /\ Len(a) = i - 1 /\ \A k \in 1..(i - 1) : a[k] = q[k]
  BY <1>1, <1>2, <1>3, <1>4
<1>6. z \in Seq(T) /\ Len(z) = l - i /\ \A k \in 1..(l - i) : z[k] = q[i + k]
  BY <1>1, <1>2, <1>3, <1>4
<1>7. IsSeq(a) BY <1>5 DEF IsSeq
<1>8. IsSeq(z) BY <1>6 DEF IsSeq
<1>9. Joined(a, z, p) BY <1>4, <1>7, <1>8, Join DEF Without
<1>10. /\ IsSeq(p) /\ Len(p) = l - 1
       /\ \A k \in 1..(i - 1) : p[k] = q[k]
       /\ \A k \in 1..(l - i) : p[(i - 1) + k] = q[i + k]
  <2>1. PICK x \in Nat, y \in Nat : x = i - 1 /\ y = l - i BY <1>3
  <2>2. x + y = l - 1 BY <1>3, <2>1
  <2>3. /\ IsSeq(p) /\ Len(p) = x + y
        /\ \A k \in 1..x : p[k] = a[k]
        /\ \A k \in 1..y : p[x + k] = z[k]
    BY <1>5, <1>6, <1>9, <2>1 DEF Joined
  <2>4. /\ \A k \in 1..(i - 1) : p[k] = q[k]
        /\ \A k \in 1..(l - i) : p[(i - 1) + k] = q[i + k]
    BY <1>5, <1>6, <2>1, <2>3
  <2> QED BY <2>2, <2>3, <2>4
<1>11. ASSUME NEW k \in 1..(l - 1) PROVE p[k] = IF k < i THEN q[k] ELSE q[k + 1]
  <2>1. CASE k < i BY <1>3, <1>10, <2>1
  <2>2. CASE k >= i
    <3>1. k - i + 1 \in 1..(l - i) /\ (i - 1) + (k - i + 1) = k /\ i + (k - i + 1) = k + 1
      BY <1>3, <2>2
    <3>2. PICK x \in 1..(l - i) : x = k - i + 1 BY <3>1
    <3>3. p[(i - 1) + x] = q[i + x] BY <1>10
    <3> QED BY <1>3, <2>2, <3>1, <3>2, <3>3
  <2> QED BY <1>3, <2>1, <2>2
<1> QED BY <1>1, <1>10, <1>11

\* A queue without repetition keeps its other elements.
LEMMA WithoutElements ==
  ASSUME NEW q, IsSeq(q), Distinct(q), NEW i \in 1..Len(q), NEW p, p = Without(q, i)
  PROVE  Distinct(p) /\ Elements(p) = Elements(q) \ {q[i]}
<1>1. PICK l \in Nat : l = Len(q) BY DEF IsSeq
<1>2. /\ IsSeq(p) /\ Len(p) = l - 1
      /\ \A k \in 1..(l - 1) : p[k] = IF k < i THEN q[k] ELSE q[k + 1]
  <2>1. /\ IsSeq(p) /\ Len(p) = Len(q) - 1
        /\ \A k \in 1..Len(p) : p[k] = IF k < i THEN q[k] ELSE q[k + 1]
    BY WithoutIs
  <2> QED BY <1>1, <2>1
<1>3. i \in 1..l BY <1>1
<1>4. \A j, k \in 1..l : q[j] = q[k] => j = k BY <1>1 DEF Distinct
<1>5. Distinct(p)
  <2> SUFFICES ASSUME NEW j \in 1..(l - 1), NEW k \in 1..(l - 1), p[j] = p[k] PROVE j = k
    BY <1>2 DEF Distinct
  <2>1. j \in 1..l /\ j + 1 \in 1..l /\ k \in 1..l /\ k + 1 \in 1..l OBVIOUS
  <2> QED BY <1>2, <1>3, <1>4, <2>1
<1>6. ASSUME NEW x \in Elements(p) PROVE x \in Elements(q) /\ x # q[i]
  <2>1. PICK k \in 1..(l - 1) : x = p[k] BY <1>2 DEF Elements
  <2>3. CASE k < i
    <3>1. x = q[k] /\ k \in 1..l /\ k # i BY <1>2, <1>3, <2>1, <2>3
    <3> QED BY <1>1, <1>3, <1>4, <3>1 DEF Elements
  <2>4. CASE ~(k < i)
    <3>1. x = q[k + 1] /\ k + 1 \in 1..l /\ k + 1 # i BY <1>2, <1>3, <2>1, <2>4
    <3> QED BY <1>1, <1>3, <1>4, <3>1 DEF Elements
  <2> QED BY <2>3, <2>4
<1>7. ASSUME NEW x \in Elements(q), x # q[i] PROVE x \in Elements(p)
  <2>1. PICK k \in 1..l : x = q[k] BY <1>1 DEF Elements
  <2>2. k # i BY <1>7, <2>1
  <2>3. CASE k < i
    <3>1. k \in 1..(l - 1) BY <1>3, <2>3
    <3>2. p[k] = x BY <1>2, <2>1, <2>3, <3>1
    <3> QED BY <1>2, <3>1, <3>2 DEF Elements
  <2>4. CASE k > i
    <3>1. PICK j \in 1..(l - 1) : j = k - 1 BY <1>3, <2>4
    <3>2. p[j] = x BY <1>2, <1>3, <2>1, <2>4, <3>1
    <3> QED BY <1>2, <3>2 DEF Elements
  <2> QED BY <1>3, <2>2, <2>3, <2>4
<1> QED BY <1>5, <1>6, <1>7

(***************************************************************************)
(* The loop over the compute queue                                         *)
(***************************************************************************)

\* What the loop has made of the nodes of E.
Checked(s, E) ==
  /\ s = [i |-> s.i, count |-> s.count, commit |-> s.commit, age |-> s.age,
          rest |-> s.rest, out |-> s.out]
  /\ s.i \in Nat /\ s.count \in [Units -> Nat] /\ s.out \in BOOLEAN
  /\ s.commit \subseteq E /\ s.age \subseteq E
  /\ ~s.out => IsSeq(s.rest) /\ Distinct(s.rest) /\ Elements(s.rest) = E \ s.commit

\* A round.
LEMMA CheckNodeKeeps ==
  ASSUME StateOK, NEW s, NEW E, Checked(s, E), NEW n, n \notin E,
         NEW t, t = CheckNode(s, n)
  PROVE  Checked(t, E \cup {n})
<1> DEFINE u == Instr(reservation[s.i + 1]).unit
           more == [s.count EXCEPT ![u] = @ + 1]
<1>1. /\ s = [i |-> s.i, count |-> s.count, commit |-> s.commit, age |-> s.age,
              rest |-> s.rest, out |-> s.out]
      /\ s.i \in Nat /\ s.count \in [Units -> Nat] /\ s.out \in BOOLEAN
      /\ s.commit \subseteq E /\ s.age \subseteq E
      /\ ~s.out => IsSeq(s.rest) /\ Distinct(s.rest) /\ Elements(s.rest) = E \ s.commit
  BY DEF Checked
<1>2. ASSUME ~(s.out \/ s.i >= Len(reservation)) PROVE more \in [Units -> Nat]
  <2>1. reservation \in Seq(Open(node)) /\ Open(node) \subseteq 1..Len(node)
    BY DEF StateOK, QueuesOK, Open
  <2>2. s.i + 1 \in 1..Len(reservation) BY <1>1, <1>2, <2>1
  <2>3. PICK m : m = reservation[s.i + 1] OBVIOUS
  <2>4. m \in 1..Len(node) BY <2>1, <2>2, <2>3
  <2>5. Formed(node, m) BY <2>4 DEF StateOK, NodesOK
  <2>6. At(node, m).unit \in Units BY <2>5, NodeInstr
  <2>7. u \in Units BY <2>3, <2>6 DEF At, Instr
  <2> HIDE DEF u
  <2> QED BY <1>1, <2>7
<1>3. ASSUME ~s.out
      PROVE  LET p == Append(s.rest, n)
             IN  IsSeq(p) /\ Distinct(p) /\ Elements(p) = (E \cup {n}) \ s.commit
  <2>1. PICK q, p : q = s.rest /\ p = Append(q, n) OBVIOUS
  <2>2. IsSeq(q) /\ Distinct(q) /\ n \notin Elements(q) /\ Elements(q) = E \ s.commit
    BY <1>1, <1>3, <2>1
  <2>3. IsSeq(p) /\ Distinct(p) /\ Elements(p) = Elements(q) \cup {n}
    BY <2>1, <2>2, AppendIs
  <2>4. n \notin s.commit BY <1>1
  <2> QED BY <2>1, <2>2, <2>3, <2>4
<1>4. t = IF s.out \/ s.i >= Len(reservation) THEN [s EXCEPT !.out = TRUE]
          ELSE IF ~LimitedFU(s.count, u)
            THEN [s EXCEPT !.i = @ + 1, !.rest = Append(@, n)]
          ELSE IF node[n].cycle >= Instr(n).cycles
            THEN [s EXCEPT !.count = more, !.commit = @ \cup {n}]
            ELSE [s EXCEPT !.count = more, !.age = @ \cup {n}, !.i = @ + 1,
                           !.rest = Append(@, n)]
  BY DEF CheckNode
<1> HIDE DEF u, more
<1>5. PICK z : z = Append(s.rest, n) OBVIOUS
<1>6. CASE s.out \/ s.i >= Len(reservation)
  <2>1. t = [s EXCEPT !.out = TRUE] BY <1>4, <1>6
  <2>2. /\ t = [i |-> s.i, count |-> s.count, commit |-> s.commit, age |-> s.age,
                rest |-> s.rest, out |-> TRUE]
    BY <1>1, <2>1
  <2> QED BY <1>1, <2>2 DEF Checked
<1>7. CASE ~(s.out \/ s.i >= Len(reservation)) /\ ~LimitedFU(s.count, u)
  <2>1. t = [s EXCEPT !.i = @ + 1, !.rest = Append(@, n)] BY <1>4, <1>7
  <2>2. t = [i |-> s.i + 1, count |-> s.count, commit |-> s.commit, age |-> s.age,
             rest |-> z, out |-> s.out]
    BY <1>1, <1>5, <2>1
  <2>3. IsSeq(z) /\ Distinct(z) /\ Elements(z) = (E \cup {n}) \ s.commit
    BY <1>3, <1>5, <1>7
  <2> QED BY <1>1, <2>2, <2>3 DEF Checked
<1>8. CASE /\ ~(s.out \/ s.i >= Len(reservation)) /\ LimitedFU(s.count, u)
           /\ node[n].cycle >= Instr(n).cycles
  <2>1. t = [s EXCEPT !.count = more, !.commit = @ \cup {n}] BY <1>4, <1>8
  <2>2. t = [i |-> s.i, count |-> more, commit |-> s.commit \cup {n}, age |-> s.age,
             rest |-> s.rest, out |-> s.out]
    BY <1>1, <2>1
  <2>3. more \in [Units -> Nat] BY <1>2, <1>8
  <2>4. /\ IsSeq(s.rest) /\ Distinct(s.rest)
        /\ Elements(s.rest) = (E \cup {n}) \ (s.commit \cup {n})
    BY <1>1, <1>8
  <2> QED BY <1>1, <2>2, <2>3, <2>4 DEF Checked
<1>9. CASE /\ ~(s.out \/ s.i >= Len(reservation)) /\ LimitedFU(s.count, u)
           /\ ~(node[n].cycle >= Instr(n).cycles)
  <2>1. t = [s EXCEPT !.count = more, !.age = @ \cup {n}, !.i = @ + 1,
                      !.rest = Append(@, n)]
    BY <1>4, <1>9
  <2>2. t = [i |-> s.i + 1, count |-> more, commit |-> s.commit, age |-> s.age \cup {n},
             rest |-> z, out |-> s.out]
    BY <1>1, <1>5, <2>1
  <2>3. more \in [Units -> Nat] BY <1>2, <1>9
  <2>4. IsSeq(z) /\ Distinct(z) /\ Elements(z) = (E \cup {n}) \ s.commit
    BY <1>3, <1>5, <1>9
  <2> QED BY <1>1, <2>2, <2>3, <2>4 DEF Checked
<1> QED BY <1>6, <1>7, <1>8, <1>9

\* The state before the first round, and the states f[j] after j rounds.
LoopStart ==
  [i |-> 0, count |-> [u \in Units |-> 0], commit |-> {}, age |-> {},
   rest |-> <<>>, out |-> FALSE]
IsLoop(f, k) ==
  f = [j \in 0..k |-> IF j = 0 THEN LoopStart ELSE CheckNode(f[j - 1], computeQueue[j])]

\* The recursive definition of the loop is sound.
LEMMA LoopExists ==
  ASSUME NEW l \in Nat
  PROVE  \E f : IsLoop(f, l)
<1> DEFINE T == {k \in Nat : ~\E f : IsLoop(f, k)}
<1> SUFFICES ASSUME T # {} PROVE FALSE OBVIOUS
<1>1. PICK k \in T : \A u \in T : k <= u
  <2>1. T \in SUBSET Nat OBVIOUS
  <2> HIDE DEF T
  <2> QED BY <2>1, Least
<1>2. CASE k = 0
  <2>1. PICK f : f = [j \in 0..0 |-> LoopStart] OBVIOUS
  <2>2. \A j \in 0..0 : j = 0 OBVIOUS
  <2>3. f = [j \in 0..0 |-> IF j = 0 THEN LoopStart ELSE CheckNode(f[j - 1], computeQueue[j])]
    BY <2>1, <2>2
  <2>4. IsLoop(f, 0) BY <2>3 DEF IsLoop
  <2> QED BY <1>2, <2>4
<1>3. CASE k # 0
  <2>1. k \in Nat /\ k - 1 \in Nat /\ ~(k <= k - 1) BY <1>3
  <2>2. k - 1 \notin T BY <1>1, <2>1
  <2>3. PICK g : IsLoop(g, k - 1) BY <2>1, <2>2
  <2> DEFINE V(h, j) == IF j = 0 THEN LoopStart ELSE CheckNode(h[j - 1], computeQueue[j])
             f == [j \in 0..k |-> IF j = k THEN V(g, k) ELSE g[j]]
  <2>4. g = [j \in 0..(k - 1) |-> V(g, j)] BY <2>3 DEF IsLoop
  <2>5. \A j \in 0..k : f[j] = V(f, j)
    <3> SUFFICES ASSUME NEW j \in 0..k PROVE f[j] = V(f, j) OBVIOUS
    <3>1. f[j] = V(g, j)
      <4>1. CASE j = k BY <4>1
      <4>2. CASE j # k
        <5>1. j \in 0..(k - 1) BY <2>1, <4>2
        <5>2. f[j] = g[j] BY <4>2
        <5> HIDE DEF f, V
        <5> QED BY <2>4, <5>1, <5>2
      <4> QED BY <4>1, <4>2
    <3>2. V(g, j) = V(f, j)
      <4>1. CASE j = 0 BY <4>1
      <4>2. CASE j # 0
        <5>1. j - 1 \in 0..k /\ j - 1 # k BY <2>1, <4>2
        <5>2. f[j - 1] = g[j - 1] BY <5>1
        <5> HIDE DEF f
        <5> QED BY <4>2, <5>2
      <4> QED BY <4>1, <4>2
    <3> QED BY <3>1, <3>2
  <2>6. f = [j \in 0..k |-> f[j]] OBVIOUS
  <2> HIDE DEF f, V
  <2>7. f = [j \in 0..k |-> V(f, j)] BY <2>5, <2>6
  <2>8. IsLoop(f, k) BY <2>7 DEF IsLoop, V
  <2> QED BY <2>8
<1> QED BY <1>2, <1>3

\* The loop commits and ages nodes of the compute queue, and keeps the others.
LEMMA CheckComputeIs ==
  ASSUME StateOK
  PROVE  Checked(CheckCompute, Elements(computeQueue))
<1> DEFINE after[j \in 0..Len(computeQueue)] ==
             IF j = 0 THEN [i |-> 0, count |-> [u \in Units |-> 0], commit |-> {}, age |-> {},
                            rest |-> <<>>, out |-> FALSE]
             ELSE CheckNode(after[j - 1], computeQueue[j])
<1>1. CheckCompute = after[Len(computeQueue)] BY DEF CheckCompute
<1>2. computeQueue \in Seq(Open(node)) /\ Distinct(computeQueue) BY DEF StateOK, QueuesOK
<1>3. PICK l \in Nat : l = Len(computeQueue) BY <1>2
<1>4. IsLoop(after, l)
  <2>1. PICK f : IsLoop(f, l) BY LoopExists
  <2>2. f = [j \in 0..Len(computeQueue) |->
               IF j = 0 THEN [i |-> 0, count |-> [u \in Units |-> 0], commit |-> {}, age |-> {},
                              rest |-> <<>>, out |-> FALSE]
               ELSE CheckNode(f[j - 1], computeQueue[j])]
    BY <1>3, <2>1 DEF IsLoop, LoopStart
  <2>3. after = [j \in 0..Len(computeQueue) |->
               IF j = 0 THEN [i |-> 0, count |-> [u \in Units |-> 0], commit |-> {}, age |-> {},
                              rest |-> <<>>, out |-> FALSE]
               ELSE CheckNode(after[j - 1], computeQueue[j])]
    BY <2>2
  <2> QED BY <1>3, <2>3 DEF IsLoop, LoopStart
<1>5. PICK f : f = after OBVIOUS
<1>6. IsLoop(f, l) /\ CheckCompute = f[l] BY <1>1, <1>3, <1>4, <1>5
<1> HIDE DEF after
<1> DEFINE E(j) == {computeQueue[k] : k \in 1..j}
           T == {k \in 0..l : ~Checked(f[k], E(k))}
<1>7. ASSUME T # {} PROVE FALSE
  <2>1. PICK k \in T : \A u \in T : k <= u
    <3>1. T \in SUBSET Nat OBVIOUS
    <3> HIDE DEF T
    <3> QED BY <1>7, <3>1, Least
  <2>2. k \in 0..l /\ ~Checked(f[k], E(k)) OBVIOUS
  <2>3. CASE k = 0
    <3>1. f[k] = LoopStart BY <1>6, <2>3 DEF IsLoop
    <3>2. E(k) = {} BY <2>3
    <3>3. IsSeq(<<>>) /\ Distinct(<<>>) /\ Elements(<<>>) = {} BY DEF IsSeq, Distinct, Elements
    <3>4. Checked(LoopStart, {}) BY <3>3 DEF Checked, LoopStart
    <3> HIDE DEF E, T
    <3> QED BY <2>2, <3>1, <3>2, <3>4
  <2>4. CASE k # 0
    <3>1. k - 1 \in 0..l /\ ~(k <= k - 1) /\ k \in 1..l BY <2>2, <2>4
    <3>2. k - 1 \notin T BY <2>1, <3>1
    <3>3. Checked(f[k - 1], E(k - 1)) BY <3>1, <3>2
    <3>4. f[k] = CheckNode(f[k - 1], computeQueue[k]) BY <1>6, <2>2, <2>4 DEF IsLoop
    <3>5. computeQueue[k] \notin E(k - 1)
      <4>1. \A x \in 1..(k - 1) : x \in 1..l /\ x # k BY <3>1
      <4> QED BY <1>2, <1>3, <3>1, <4>1 DEF Distinct
    <3>6. E(k) = E(k - 1) \cup {computeQueue[k]}
      <4>1. \A x : x \in 1..k <=> x \in 1..(k - 1) \/ x = k BY <3>1
      <4> QED BY <4>1
    <3> HIDE DEF E, T
    <3>7. PICK s, e, n, t : s = f[k - 1] /\ e = E(k - 1) /\ n = computeQueue[k] /\ t = f[k]
      OBVIOUS
    <3>8. Checked(s, e) /\ n \notin e /\ t = CheckNode(s, n) BY <3>3, <3>4, <3>5, <3>7
    <3>9. Checked(t, e \cup {n}) BY <3>8, CheckNodeKeeps
    <3> QED BY <2>2, <3>6, <3>7, <3>9
  <2> QED BY <2>3, <2>4
<1>8. Checked(f[l], E(l))
  <2>1. l \in 0..l OBVIOUS
  <2>2. l \notin T BY <1>7
  <2> HIDE DEF E
  <2> QED BY <2>1, <2>2
<1>9. E(l) = Elements(computeQueue) BY <1>3 DEF Elements
<1> QED BY <1>6, <1>8, <1>9

(***************************************************************************)
(* Changes of one node, of the queues and of the last node                 *)
(***************************************************************************)

\* Node n becomes d.
LEMMA Touch ==
  ASSUME NEW N, IsSeq(N), \A k \in 1..Len(N) : Formed(N, k), NEW n \in 1..Len(N),
         NEW d, IsNode(d), Same(N[n], d), d.active = N[n].active, d.cycle \in Nat,
         \/ d.ops = N[n].ops
         \/ At(N, n).op = "phi" /\ d.ops \in [1..Len(DepsAt(N, n)) -> 0..Len(N)],
         NEW B, \/ B = {} /\ d.committed = N[n].committed
                \/ B = {n} /\ d.committed = TRUE /\ At(N, n).op = "br",
         NEW M, M = [N EXCEPT ![n] = d]
  PROVE  Retouched(N, M, B)
<1>1. PICK l \in Nat : l = Len(N) BY DEF IsSeq
<1>2. N = [k \in 1..l |-> N[k]] BY <1>1 DEF IsSeq
<1>3. M = [k \in 1..l |-> IF k = n THEN d ELSE N[k]] BY <1>2
<1>4. Len(M) = l BY <1>3
<1>5. IsSeq(M) BY <1>3, <1>4 DEF IsSeq
<1>6. \A k \in 1..l : M[k] = IF k = n THEN d ELSE N[k] BY <1>3
<1>7. \A k \in 1..l : /\ IsNode(N[k]) /\ N[k].cycle \in Nat /\ N[k].committed \in BOOLEAN
  BY <1>1 DEF Formed
<1>8. d.committed \in BOOLEAN BY <1>1, <1>7
<1>9. SameCode(N, M, l) BY <1>6 DEF SameCode, Same
<1>10. Open(M) = Open(N) \ B
  <2>1. \A k \in 1..l : k \in Open(M) <=> k \in Open(N) /\ k \notin B
    <3> SUFFICES ASSUME NEW k \in 1..l PROVE k \in Open(M) <=> k \in Open(N) /\ k \notin B
      OBVIOUS
    <3>1. CASE k = n
      <4>1. k \in Open(M) <=> ~d.committed BY <1>4, <1>6, <3>1 DEF Open
      <4>2. k \in Open(N) <=> ~N[n].committed BY <1>1, <3>1 DEF Open
      <4> QED BY <3>1, <4>1, <4>2
    <3>2. CASE k # n
      <4>1. M[k] = N[k] /\ k \notin B BY <1>6, <3>2
      <4> QED BY <1>1, <1>4, <4>1 DEF Open
    <3> QED BY <3>1, <3>2
  <2>2. Open(M) \subseteq 1..l /\ Open(N) \subseteq 1..l BY <1>1, <1>4 DEF Open
  <2> QED BY <2>1, <2>2
<1>11. \A k \in 1..l :
        /\ IsNode(M[k]) /\ M[k].cycle \in Nat /\ M[k].committed \in BOOLEAN
        /\ M[k].active = N[k].active
        /\ \/ M[k].ops = N[k].ops
           \/ At(N, k).op = "phi" /\ M[k].ops \in [1..Len(DepsAt(N, k)) -> 0..l]
  BY <1>1, <1>6, <1>7, <1>8
<1> QED BY <1>1, <1>4, <1>5, <1>9, <1>10, <1>11 DEF Retouched

\* Nothing changes.
LEMMA Untouched ==
  ASSUME NEW N, IsSeq(N), \A k \in 1..Len(N) : Formed(N, k)
  PROVE  Retouched(N, N, {})
BY DEF Retouched, Formed, SameCode, Same

\* The queues as sets.
QueueSets(M, res, comp, rd, wr) ==
  /\ IsSeq(res) /\ IsSeq(comp) /\ IsSeq(rd) /\ IsSeq(wr)
  /\ \A i, j \in 1..Len(res) : i < j => res[i] < res[j]
  /\ Distinct(comp) /\ Distinct(rd) /\ Distinct(wr)
  /\ Elements(res) \subseteq Open(M) /\ Elements(comp) \subseteq Open(M)
  /\ Elements(rd) \subseteq Open(M) /\ Elements(wr) \subseteq Open(M)
  /\ \A n \in Elements(comp) : At(M, n).op \in {"op", "phi", "gep"}
  /\ \A n \in Elements(rd) : At(M, n).op = "load"
  /\ \A n \in Elements(wr) : At(M, n).op = "store"
  /\ \A n \in Elements(comp) \cup Elements(rd) \cup Elements(wr) : n \notin Elements(res)
  /\ \A n \in Open(M) :
       At(M, n).op # "ret" =>
         n \in Elements(res) \cup Elements(comp) \cup Elements(rd) \cup Elements(wr)

\* A sequence and the set of its elements.
LEMMA SeqElements ==
  ASSUME NEW q, NEW S
  PROVE  q \in Seq(S) <=> IsSeq(q) /\ Elements(q) \subseteq S
<1>1. ASSUME q \in Seq(S) PROVE IsSeq(q) /\ Elements(q) \subseteq S
  BY <1>1 DEF IsSeq, Elements
<1>2. ASSUME IsSeq(q), Elements(q) \subseteq S PROVE q \in Seq(S)
  <2>1. Len(q) \in Nat /\ q = [i \in 1..Len(q) |-> q[i]] BY <1>2 DEF IsSeq
  <2>2. \A i \in 1..Len(q) : q[i] \in S BY <1>2 DEF Elements
  <2>3. [i \in 1..Len(q) |-> q[i]] \in Seq(S) BY <2>1, <2>2
  <2> QED BY <2>1, <2>3
<1> QED BY <1>1, <1>2

\* Both forms say the same.
LEMMA QueueForms ==
  ASSUME NEW M, NEW res, NEW comp, NEW rd, NEW wr
  PROVE  QueuesOK(M, res, comp, rd, wr) <=> QueueSets(M, res, comp, rd, wr)
<1>1. ASSUME NEW q
      PROVE  q \in Seq(Open(M)) <=> IsSeq(q) /\ Elements(q) \subseteq Open(M)
  BY SeqElements
<1>2. /\ (\A i \in 1..Len(comp) : At(M, comp[i]).op \in {"op", "phi", "gep"})
           <=> \A n \in Elements(comp) : At(M, n).op \in {"op", "phi", "gep"}
      /\ (\A i \in 1..Len(rd) : At(M, rd[i]).op = "load")
           <=> \A n \in Elements(rd) : At(M, n).op = "load"
      /\ (\A i \in 1..Len(wr) : At(M, wr[i]).op = "store")
           <=> \A n \in Elements(wr) : At(M, n).op = "store"
  BY DEF Elements
<1> HIDE DEF QueuesOK
<1>3. ASSUME QueuesOK(M, res, comp, rd, wr) PROVE QueueSets(M, res, comp, rd, wr)
  BY <1>1, <1>2, <1>3 DEF QueuesOK, QueueSets
<1>4. ASSUME QueueSets(M, res, comp, rd, wr) PROVE QueuesOK(M, res, comp, rd, wr)
  BY <1>1, <1>2, <1>4 DEF QueuesOK, QueueSets
<1> QED BY <1>3, <1>4

\* A node leaves the table.
LEMMA TableWithout ==
  ASSUME NEW res, IsSeq(res), \A k \in 1..Len(res) : res[k] \in Nat,
         \A j, k \in 1..Len(res) : j < k => res[j] < res[k],
         NEW i \in 1..Len(res), NEW p, p = Without(res, i)
  PROVE  /\ IsSeq(p) /\ Elements(p) = Elements(res) \ {res[i]}
         /\ \A j, k \in 1..Len(p) : j < k => p[j] < p[k]
<1>1. PICK l \in Nat : l = Len(res) BY DEF IsSeq
<1>2. Distinct(res)
  <2> SUFFICES ASSUME NEW j \in 1..l, NEW k \in 1..l, res[j] = res[k] PROVE j = k
    BY <1>1 DEF Distinct
  <2>1. res[j] \in Nat BY <1>1
  <2>2. j < k => res[j] < res[k] BY <1>1
  <2>3. k < j => res[k] < res[j] BY <1>1
  <2> QED BY <2>1, <2>2, <2>3
<1>3. Elements(p) = Elements(res) \ {res[i]} BY <1>2, WithoutElements
<1>4. /\ IsSeq(p) /\ Len(p) = l - 1
      /\ \A k \in 1..(l - 1) : p[k] = IF k < i THEN res[k] ELSE res[k + 1]
  <2>1. /\ IsSeq(p) /\ Len(p) = Len(res) - 1
        /\ \A k \in 1..Len(p) : p[k] = IF k < i THEN res[k] ELSE res[k + 1]
    BY WithoutIs
  <2> QED BY <1>1, <2>1
<1>5. ASSUME NEW j \in 1..(l - 1), NEW k \in 1..(l - 1), j < k PROVE p[j] < p[k]
  <2>1. j \in 1..l /\ j + 1 \in 1..l /\ k \in 1..l /\ k + 1 \in 1..l BY <1>5
  <2>2. j < k /\ j + 1 < k + 1 /\ j < k + 1 BY <1>5
  <2>3. res[j] < res[k] /\ res[j + 1] < res[k + 1] /\ res[j] < res[k + 1]
    BY <1>1, <2>1, <2>2
  <2>4. k < i => j < i BY <1>1, <1>5
  <2> QED BY <1>4, <2>3, <2>4
<1> QED BY <1>1, <1>3, <1>4, <1>5

\* The state in terms of plain values.
LEMMA StateFacts ==
  ASSUME StateOK
  PROVE  /\ IsSeq(node) /\ Len(node) \in Nat /\ \A n \in 1..Len(node) : Formed(node, n)
         /\ QueueSets(node, reservation, computeQueue, readQueue, writeQueue)
         /\ \A n : At(node, n) = Instr(n)
         /\ Open(node) \subseteq 1..Len(node)
BY QueueForms DEF StateOK, NodesOK, IsSeq, At, Instr, Open

\* A node that tick() launches waits and has no parent under way, and is no ret.
LEMMA LaunchFacts ==
  ASSUME StateOK, RestOK, Launchable, NEW n, n = Current
  PROVE  /\ scan \in 1..Len(reservation) /\ n = reservation[scan]
         /\ n \in Elements(reservation) /\ n \in Open(node) /\ n \in 1..Len(node)
         /\ Instr(n).op # "ret" /\ Parents(node[n]) \cap Open(node) = {}
<1>1. /\ Len(node) \in Nat /\ \A k \in 1..Len(node) : Formed(node, k)
      /\ QueueSets(node, reservation, computeQueue, readQueue, writeQueue)
      /\ Open(node) \subseteq 1..Len(node)
  BY StateFacts
<1>2. IsSeq(reservation) /\ Elements(reservation) \subseteq Open(node) BY <1>1 DEF QueueSets
<1>3. scan \in Nat /\ scan > 0 /\ scan <= Len(reservation) BY DEF RestOK, Launchable, Scanning
<1>4. scan \in 1..Len(reservation) BY <1>2, <1>3 DEF IsSeq
<1>5. n = reservation[scan] BY DEF Current
<1>6. n \in Elements(reservation) BY <1>4, <1>5 DEF Elements
<1>7. n \in Open(node) /\ n \in 1..Len(node) BY <1>1, <1>2, <1>6
<1>8. node[n].active = 0 BY DEF Launchable
<1>9. Formed(node, n) /\ Counted(node, n) BY <1>7 DEF StateOK, NodesOK
<1>10. PICK U, c : U = Open(node) /\ c = node[n] OBVIOUS
<1>11. PICK m \in Nat : m = Len(DepsAt(node, n))
  <2>1. DepsAt(node, n) \in Seq(Regs) BY <1>9, NodeInstr
  <2> QED BY <2>1
<1>12. DOMAIN c.producers \subseteq 1..m /\ Len(c.others) \in Nat /\ U \subseteq U
  BY <1>9, <1>10, <1>11 DEF Formed
<1>13. Links(c, U) \in Nat BY <1>12, LinkCount
<1>14. Links(c, U) = 0 <=> Parents(c) \cap U = {} BY <1>12, LinkCount
<1>15. PICK x \in Nat : x = Links(c, U) BY <1>13
<1>16. 0 = x + (IF At(node, n).op = "ret" THEN 1 ELSE 0)
  BY <1>8, <1>9, <1>10, <1>15 DEF Counted
<1>17. x = 0 /\ At(node, n).op # "ret" BY <1>16
<1>18. Instr(n).op # "ret" BY <1>17 DEF At, Instr
<1> QED BY <1>4, <1>5, <1>6, <1>7, <1>10, <1>14, <1>15, <1>17, <1>18

\* The table that such a node leaves.
LEMMA LaunchTable ==
  ASSUME StateOK, RestOK, Launchable, NEW n, n = Current, NEW p, p = Without(reservation, scan)
  PROVE  /\ IsSeq(p) /\ Elements(p) = Elements(reservation) \ {n}
         /\ \A j, k \in 1..Len(p) : j < k => p[j] < p[k]
         /\ CanLeave(node, Elements(reservation), Elements(p))
         /\ Elements(reservation) \subseteq Open(node)
<1>1. /\ scan \in 1..Len(reservation) /\ n = reservation[scan]
      /\ n \in Elements(reservation) /\ Parents(node[n]) \cap Open(node) = {}
  BY LaunchFacts
<1>2. /\ QueueSets(node, reservation, computeQueue, readQueue, writeQueue)
      /\ Open(node) \subseteq 1..Len(node)
  BY StateFacts
<1>3. /\ IsSeq(reservation) /\ Elements(reservation) \subseteq Open(node)
      /\ \A j, k \in 1..Len(reservation) : j < k => reservation[j] < reservation[k]
  BY <1>2 DEF QueueSets
<1>4. \A k \in 1..Len(reservation) : reservation[k] \in Nat BY <1>2, <1>3 DEF Elements
<1>5. /\ IsSeq(p) /\ Elements(p) = Elements(reservation) \ {n}
      /\ \A j, k \in 1..Len(p) : j < k => p[j] < p[k]
  BY <1>1, <1>3, <1>4, TableWithout
<1>6. CanLeave(node, Elements(reservation), Elements(p)) BY <1>1, <1>5 DEF CanLeave
<1> QED BY <1>3, <1>5, <1>6

\* An engine that has finished does nothing more.
LEMMA NotFinished ==
  ASSUME StateOK, LastOK, RestOK,
         Scanning \/ running \/ readQueue # <<>> \/ writeQueue # <<>>
  PROVE  ~finished
<1>1. ASSUME reservation = <<>> PROVE ~Scanning BY <1>1 DEF Scanning, RestOK
<1> QED BY <1>1 DEF LastOK, Quiet

\* The last node, when nodes keep their instructions and the last one waits.
LEMMA LastKept ==
  ASSUME StateOK, LastOK, ~finished, ~finished',
         Len(node') = Len(node), SameCode(node, node', Len(node)),
         UNCHANGED blocks, Elements(reservation') \subseteq Elements(reservation),
         Len(node) \in Elements(reservation) => Len(node) \in Elements(reservation')
  PROVE  LastOK'
<1>1. Len(node) \in Nat BY StateFacts
<1>2. \A n \in 1..Len(node) : node'[n].blk = node[n].blk /\ node'[n].idx = node[n].idx
  BY DEF SameCode, Same
<1>3. \A n \in 1..Len(node) : Instr(n)' = Instr(n) BY <1>2 DEF Instr
<1>4. Nodes' = 1..Len(node) /\ Nodes = 1..Len(node) BY DEF Nodes
<1>5. currBB' = currBB /\ prevBB' = prevBB /\ entered' = entered BY DEF blocks
<1>6. Len(node) > 0 => Len(node) \in 1..Len(node) BY <1>1
<1>7. /\ entered' \in Nat /\ (entered' = 0 <=> Len(node') = 0)
      /\ currBB' \in Blocks /\ prevBB' \in Blocks
  BY <1>5 DEF LastOK
<1>8. Len(node') > 0 =>
        /\ currBB' = node'[Len(node')].blk /\ node'[Len(node')].idx = Len(Code[currBB'])
        /\ finished' \/ Len(node') \in Elements(reservation')
  BY <1>2, <1>5, <1>6 DEF LastOK
<1>9. \A n \in 1..Len(node) :
        /\ Instr(n)'.op = "ret" => n = Len(node)
        /\ Instr(n)'.op = "br" /\ n \in Elements(reservation') => n = Len(node)
  BY <1>3, <1>4 DEF LastOK, Waiting
<1>10. \/ entered <= MaxBlocks
       \/ entered = MaxBlocks + 1 /\ Instr(Len(node))'.op = "ret"
  <2>1. CASE entered <= MaxBlocks BY <2>1
  <2>2. CASE ~(entered <= MaxBlocks)
    <3>1. entered = MaxBlocks + 1 /\ Instr(Len(node)).op = "ret" BY <2>2 DEF LastOK
    <3>2. entered # 0 BY <3>1, ThresholdAssumption
    <3>3. Len(node) # 0 BY <3>2 DEF LastOK
    <3>4. Len(node) \in 1..Len(node) BY <1>1, <3>3
    <3> QED BY <1>3, <3>1, <3>4
  <2> QED BY <2>1, <2>2
<1> QED BY <1>4, <1>5, <1>7, <1>8, <1>9, <1>10 DEF LastOK, Waiting

(***************************************************************************)
(* The actions                                                             *)
(***************************************************************************)

\* The nodes, registers and queues after a step, for plain values.
Sound(M, regs, res, comp, rd, wr) ==
  NodesOK(M, Elements(res)) /\ RegistersOK(M, regs) /\ QueuesOK(M, res, comp, rd, wr)

\* A node enters queue q (of the three behind the table) and leaves the table.
LEMMA LaunchQueues ==
  ASSUME StateOK, RestOK, Launchable, NEW n, n = Current,
         NEW p, p = Without(reservation, scan), NEW M, NEW B, Retouched(node, M, B), B = {},
         NEW comp, NEW rd, NEW wr,
         \/ /\ comp = Append(computeQueue, n) /\ rd = readQueue /\ wr = writeQueue
            /\ Instr(n).op \in {"op", "phi", "gep"}
         \/ /\ comp = computeQueue /\ rd = Append(readQueue, n) /\ wr = writeQueue
            /\ Instr(n).op = "load"
         \/ /\ comp = computeQueue /\ rd = readQueue /\ wr = Append(writeQueue, n)
            /\ Instr(n).op = "store"
  PROVE  Sound(M, register, p, comp, rd, wr)
<1>1. /\ IsSeq(node) /\ Len(node) \in Nat /\ \A k \in 1..Len(node) : Formed(node, k)
      /\ QueueSets(node, reservation, computeQueue, readQueue, writeQueue)
      /\ \A k : At(node, k) = Instr(k)
      /\ Open(node) \subseteq 1..Len(node)
  BY StateFacts
<1>2. n \in Elements(reservation) /\ n \in Open(node) BY LaunchFacts
<1>3. /\ IsSeq(p) /\ Elements(p) = Elements(reservation) \ {n}
      /\ \A j, k \in 1..Len(p) : j < k => p[j] < p[k]
      /\ CanLeave(node, Elements(reservation), Elements(p))
      /\ Elements(reservation) \subseteq Open(node)
  BY LaunchTable
<1>4. NodesOK(M, Elements(p)) BY <1>3, LeaveKeeps DEF StateOK
<1>5. RegistersOK(M, register) BY <1>1, LeaveRegisters DEF StateOK
<1>6. Len(M) = Len(node) /\ SameCode(node, M, Len(node)) /\ Open(M) = Open(node)
  BY DEF Retouched
<1>7. \A k \in Open(node) : At(M, k) = Instr(k) BY <1>1, <1>6, Unmoved
<1>8. ASSUME NEW q, q \in {computeQueue, readQueue, writeQueue}
      PROVE  /\ IsSeq(q) /\ Distinct(q) /\ n \notin Elements(q)
             /\ IsSeq(Append(q, n)) /\ Distinct(Append(q, n))
             /\ Elements(Append(q, n)) = Elements(q) \cup {n}
  <2>1. IsSeq(q) /\ Distinct(q) BY <1>1, <1>8 DEF QueueSets
  <2>2. n \notin Elements(q) BY <1>1, <1>2, <1>8 DEF QueueSets
  <2> QED BY <2>1, <2>2, AppendIs
<1>9. QueueSets(M, p, comp, rd, wr)
  <2> USE DEF QueueSets
  <2>1. CASE /\ comp = Append(computeQueue, n) /\ rd = readQueue /\ wr = writeQueue
             /\ Instr(n).op \in {"op", "phi", "gep"}
    <3>1. IsSeq(comp) /\ Distinct(comp) /\ Elements(comp) = Elements(computeQueue) \cup {n}
      BY <1>8, <2>1
    <3> QED BY <1>1, <1>2, <1>3, <1>6, <1>7, <2>1, <3>1
  <2>2. CASE /\ comp = computeQueue /\ rd = Append(readQueue, n) /\ wr = writeQueue
             /\ Instr(n).op = "load"
    <3>1. IsSeq(rd) /\ Distinct(rd) /\ Elements(rd) = Elements(readQueue) \cup {n}
      BY <1>8, <2>2
    <3> QED BY <1>1, <1>2, <1>3, <1>6, <1>7, <2>2, <3>1
  <2>3. CASE /\ comp = computeQueue /\ rd = readQueue /\ wr = Append(writeQueue, n)
             /\ Instr(n).op = "store"
    <3>1. IsSeq(wr) /\ Distinct(wr) /\ Elements(wr) = Elements(writeQueue) \cup {n}
      BY <1>8, <2>3
    <3> QED BY <1>1, <1>2, <1>3, <1>6, <1>7, <2>3, <3>1
  <2> QED BY <2>1, <2>2, <2>3
<1>10. QueuesOK(M, p, comp, rd, wr) BY <1>9, QueueForms
<1> QED BY <1>4, <1>5, <1>10 DEF Sound

\* Queue q is what is left of q1 when the nodes of S are gone.
Left(q, q1, S) == IsSeq(q) /\ Distinct(q) /\ Elements(q) = Elements(q1) \ S

\* M and T are the nodes N and the registers regs when the nodes of S have committed.
Done(N, S, M, regs, T) ==
  /\ Len(M) = Len(N) /\ SameCode(N, M, Len(N)) /\ Open(M) = Open(N) \ S
  /\ \A r \in Regs : regs[r] \in Nat /\ T[r] \in Nat /\ T[r] >= regs[r]

\* The nodes of S commit and leave the queues.
LEMMA CommitQueues ==
  ASSUME NEW N, NEW W, NodesOK(N, W), Present(N), NEW regs, RegistersOK(N, regs),
         NEW S, S \subseteq Open(N), NEW M, M = Committed(N, S),
         NEW T, T = Written(regs, S),
         NEW res, NEW comp, NEW rd, NEW wr, W = Elements(res), S \cap W = {},
         NEW res1, NEW comp1, NEW rd1, NEW wr1, QueueSets(N, res1, comp1, rd1, wr1),
         IsSeq(res), \A i, j \in 1..Len(res) : i < j => res[i] < res[j],
         Left(comp, comp1, S), Left(rd, rd1, S), Left(wr, wr1, S),
         Elements(res) = Elements(res1) \ S
  PROVE  Sound(M, T, res, comp, rd, wr) /\ Done(N, S, M, regs, T)
<1>1. W \subseteq Open(N) BY DEF QueueSets
<1>2. /\ NodesOK(M, W) /\ Len(M) = Len(N) /\ SameCode(N, M, Len(N))
      /\ Open(M) = Open(N) \ S
  BY CommitKeeps
<1>3. /\ RegistersOK(M, T)
      /\ \A r \in Regs : regs[r] \in Nat /\ T[r] \in Nat /\ T[r] >= regs[r]
  BY <1>1, <1>2, CommitRegisters
<1>4. Len(N) \in Nat /\ Open(N) \subseteq 1..Len(N) BY DEF NodesOK, IsSeq, Open
<1>5. \A k \in Open(N) : At(M, k) = At(N, k) BY <1>2, <1>4, Unmoved
<1>6. QueueSets(M, res, comp, rd, wr) BY <1>2, <1>5 DEF QueueSets, Left
<1>7. QueuesOK(M, res, comp, rd, wr) BY <1>6, QueueForms
<1> QED BY <1>2, <1>3, <1>7 DEF Sound, Done

\* The last node is a branch or a ret.
LEMMA LastOp ==
  ASSUME StateOK, LastOK, Len(node) \in Elements(reservation)
  PROVE  Instr(Len(node)).op \in {"br", "ret"}
<1>1. /\ Len(node) \in Nat /\ Open(node) \subseteq 1..Len(node)
      /\ QueueSets(node, reservation, computeQueue, readQueue, writeQueue)
  BY StateFacts
<1>2. Len(node) \in 1..Len(node) BY <1>1 DEF QueueSets
<1>3. /\ currBB = node[Len(node)].blk /\ node[Len(node)].idx = Len(Code[currBB])
      /\ currBB \in Blocks
  BY <1>1, <1>2 DEF LastOK
<1>4. Instr(Len(node)) = Code[currBB][Len(Code[currBB])] BY <1>3 DEF Instr
<1>5. Formed(node, Len(node)) BY <1>2 DEF StateOK, NodesOK
<1>6. Len(Code[currBB]) \in 1..Len(Code[currBB]) BY <1>3, <1>5 DEF Formed
<1> QED BY <1>3, <1>4, <1>6, CodeAssumption

\* Registers hold numbers of nodes.
LEMMA RegistersType ==
  ASSUME NEW N, Len(N) \in Nat, NEW regs, RegistersOK(N, regs)
  PROVE  regs \in [Regs -> 0..Len(N)]
<1>1. regs = [r \in Regs |-> Latest(Writers(N, r))] BY DEF RegistersOK, Writers
<1>2. ASSUME NEW r \in Regs PROVE Latest(Writers(N, r)) \in 0..Len(N)
  <2>1. PICK A : A = Writers(N, r) OBVIOUS
  <2>2. A \subseteq 1..Len(N) BY <2>1 DEF Writers
  <2>3. Latest(A) \in 0..Len(N) BY <2>2, LatestIs
  <2> QED BY <2>1, <2>3
<1> QED BY <1>1, <1>2

\* No register is set back.
Forward == \A r \in Regs : register'[r] >= register[r]

\* A step that leaves the registers alone.
LEMMA ForwardSame ==
  ASSUME StateOK, register' = register
  PROVE  Forward
<1>1. Len(node) \in Nat BY StateFacts
<1>2. register \in [Regs -> 0..Len(node)] BY <1>1, RegistersType DEF StateOK
<1>3. \A r \in Regs : register[r] \in Nat BY <1>2
<1> QED BY <1>3 DEF Forward

\* A load or store is launched.
LEMMA LaunchLoadKeeps ==
  ASSUME Inv, LaunchLoad
  PROVE  Inv' /\ Forward
<1>1. StateOK /\ LastOK /\ RestOK BY DEF Inv
<1>2. /\ Launchable /\ Instr(Current).op = "load"
      /\ readQueue' = Append(readQueue, Current)
      /\ reservation' = Without(reservation, scan)
      /\ UNCHANGED <<node, computeQueue, writeQueue, register, mem, blocks, status, scan, hardware>>
  BY DEF LaunchLoad
<1>3. PICK n, p, rd : /\ n = Current /\ p = Without(reservation, scan)
                      /\ rd = Append(readQueue, n)
  OBVIOUS
<1>4. IsSeq(node) /\ Len(node) \in Nat /\ \A k \in 1..Len(node) : Formed(node, k)
  BY <1>1, StateFacts
<1>5. Retouched(node, node, {}) BY <1>4, Untouched
<1>6. Sound(node, register, p, computeQueue, rd, writeQueue)
  BY <1>1, <1>2, <1>3, <1>5, LaunchQueues
<1>7. StateOK' BY <1>2, <1>3, <1>6 DEF StateOK, Sound
<1>8. LastOK'
  <2>1. ~finished BY <1>1, <1>2, NotFinished DEF Launchable
  <2>2. ~finished' BY <1>2, <2>1 DEF status
  <2>3. Elements(p) = Elements(reservation) \ {n} BY <1>1, <1>2, <1>3, LaunchTable
  <2>4. Len(node) \in Elements(reservation) => Len(node) # n BY <1>1, <1>2, <1>3, LastOp
  <2>5. SameCode(node, node', Len(node)) BY <1>2 DEF SameCode, Same
  <2> QED BY <1>1, <1>2, <1>3, <2>1, <2>2, <2>3, <2>4, <2>5, LastKept
<1>9. RestOK' BY <1>1, <1>2 DEF RestOK, hardware, Nodes
<1>10. Forward BY <1>1, <1>2, ForwardSame
<1> QED BY <1>7, <1>8, <1>9, <1>10 DEF Inv

\* The same for a store.
LEMMA LaunchStoreKeeps ==
  ASSUME Inv, LaunchStore
  PROVE  Inv' /\ Forward
<1>1. StateOK /\ LastOK /\ RestOK BY DEF Inv
<1>2. /\ Launchable /\ Instr(Current).op = "store"
      /\ writeQueue' = Append(writeQueue, Current)
      /\ reservation' = Without(reservation, scan)
      /\ UNCHANGED <<node, computeQueue, readQueue, register, mem, blocks, status, scan, hardware>>
  BY DEF LaunchStore
<1>3. PICK n, p, wr : /\ n = Current /\ p = Without(reservation, scan)
                      /\ wr = Append(writeQueue, n)
  OBVIOUS
<1>4. IsSeq(node) /\ Len(node) \in Nat /\ \A k \in 1..Len(node) : Formed(node, k)
  BY <1>1, StateFacts
<1>5. Retouched(node, node, {}) BY <1>4, Untouched
<1>6. Sound(node, register, p, computeQueue, readQueue, wr)
  BY <1>1, <1>2, <1>3, <1>5, LaunchQueues
<1>7. StateOK' BY <1>2, <1>3, <1>6 DEF StateOK, Sound
<1>8. LastOK'
  <2>1. ~finished BY <1>1, <1>2, NotFinished DEF Launchable
  <2>2. ~finished' BY <1>2, <2>1 DEF status
  <2>3. Elements(p) = Elements(reservation) \ {n} BY <1>1, <1>2, <1>3, LaunchTable
  <2>4. Len(node) \in Elements(reservation) => Len(node) # n BY <1>1, <1>2, <1>3, LastOp
  <2>5. SameCode(node, node', Len(node)) BY <1>2 DEF SameCode, Same
  <2> QED BY <1>1, <1>2, <1>3, <2>1, <2>2, <2>3, <2>4, <2>5, LastKept
<1>9. RestOK' BY <1>1, <1>2 DEF RestOK, hardware, Nodes
<1>10. Forward BY <1>1, <1>2, ForwardSame
<1> QED BY <1>7, <1>8, <1>9, <1>10 DEF Inv

\* The operands that compute() uses: those of the node, or for a phi some numbers.
LEMMA OperandsType ==
  ASSUME StateOK, NEW n \in 1..Len(node), Instr(n).op # "br", NEW x, x = Operands(n)
  PROVE  \/ x = node[n].ops
         \/ At(node, n).op = "phi" /\ x \in [1..Len(DepsAt(node, n)) -> 0..Len(node)]
<1>1. Len(node) \in Nat BY StateFacts
<1>2. register \in [Regs -> 0..Len(node)] BY <1>1, RegistersType DEF StateOK
<1>3. Formed(node, n) BY DEF StateOK, NodesOK
<1>4. PICK d \in Seq(Regs) : d = DepsAt(node, n) BY <1>3, NodeInstr
<1>5. At(node, n) = Instr(n) /\ d = Dependencies(Instr(n), node[n].prev)
  BY <1>4 DEF At, Instr, DepsAt
<1>6. CASE Instr(n).op = "phi"
  <2>1. x = [j \in 1..Len(d) |-> register[d[j]]] BY <1>5, <1>6 DEF Operands
  <2>2. \A j \in 1..Len(d) : register[d[j]] \in 0..Len(node) BY <1>2
  <2>3. x \in [1..Len(d) -> 0..Len(node)] BY <2>1, <2>2
  <2> QED BY <1>4, <1>5, <1>6, <2>3
<1>7. CASE Instr(n).op # "phi" BY <1>7 DEF Operands
<1> QED BY <1>6, <1>7

\* compute() changes nothing that another node depends on.
LEMMA ComputedKeeps ==
  ASSUME StateOK, NEW n \in 1..Len(node), Instr(n).op # "br"
  PROVE  /\ \A M : M = Computed(n) => Retouched(node, M, {})
         /\ \A M : M = [Computed(n) EXCEPT ![n].cycle = @ + 1] => Retouched(node, M, {})
<1>1. IsSeq(node) /\ Len(node) \in Nat /\ \A k \in 1..Len(node) : Formed(node, k)
  BY StateFacts
<1>2. PICK x : x = Operands(n) OBVIOUS
<1>3. \/ x = node[n].ops
      \/ At(node, n).op = "phi" /\ x \in [1..Len(DepsAt(node, n)) -> 0..Len(node)]
  BY <1>2, OperandsType
<1>4. PICK c : c = node[n] OBVIOUS
<1>5. IsNode(c) /\ c.cycle \in Nat BY <1>1, <1>4 DEF Formed
<1>6. n \in DOMAIN node /\ node = [k \in 1..Len(node) |-> node[k]] BY <1>1 DEF IsSeq
<1>7. PICK d : d = [c EXCEPT !.ops = x] OBVIOUS
<1>8. /\ IsNode(d) /\ Same(c, d) /\ d.active = c.active /\ d.ops = x
      /\ d.cycle = c.cycle /\ d.committed = c.committed
  BY <1>5, <1>7 DEF IsNode, Same
<1>9. PICK e : e = [d EXCEPT !.cycle = c.cycle + 1] OBVIOUS
<1>10. /\ IsNode(e) /\ Same(c, e) /\ e.active = c.active /\ e.ops = x
       /\ e.cycle = c.cycle + 1 /\ e.committed = c.committed
  BY <1>8, <1>9 DEF IsNode, Same
<1>11. ASSUME NEW M, M = Computed(n) PROVE M = [node EXCEPT ![n] = d]
  BY <1>2, <1>4, <1>6, <1>7, <1>11 DEF Computed
<1>12. ASSUME NEW M, M = Computed(n) PROVE Retouched(node, M, {})
  <2>1. M = [node EXCEPT ![n] = d] BY <1>11, <1>12
  <2>2. d.cycle \in Nat BY <1>5, <1>8
  <2> QED BY <1>1, <1>3, <1>4, <1>8, <2>1, <2>2, Touch
<1>13. ASSUME NEW M, M = [Computed(n) EXCEPT ![n].cycle = @ + 1] PROVE Retouched(node, M, {})
  <2>1. PICK L : L = Computed(n) OBVIOUS
  <2>2. L = [node EXCEPT ![n] = d] BY <1>11, <2>1
  <2>3. M = [L EXCEPT ![n].cycle = @ + 1] BY <1>13, <2>1
  <2>4. M = [L EXCEPT ![n] = e]
    <3>1. L[n] = d /\ n \in DOMAIN L BY <1>6, <2>2
    <3> QED BY <1>8, <1>9, <2>3, <3>1
  <2>5. M = [node EXCEPT ![n] = e] BY <1>6, <2>2, <2>4
  <2>6. e.cycle \in Nat BY <1>5, <1>10
  <2> QED BY <1>1, <1>3, <1>4, <1>10, <2>5, <2>6, Touch
<1> QED BY <1>12, <1>13

\* A node enters the compute queue.
LEMMA LaunchComputeKeeps ==
  ASSUME Inv, LaunchCompute
  PROVE  Inv' /\ Forward
<1>1. StateOK /\ LastOK /\ RestOK BY DEF Inv
<1>2. /\ Launchable /\ Computes(Current)
      /\ used' = [used EXCEPT ![Instr(Current).unit] = @ + 1]
      /\ worked' = worked \cup {Current}
      /\ node' = [Computed(Current) EXCEPT ![Current].cycle = @ + 1]
      /\ computeQueue' = Append(computeQueue, Current)
      /\ reservation' = Without(reservation, scan)
      /\ UNCHANGED <<readQueue, writeQueue, register, mem, blocks, status, scan, config>>
  BY DEF LaunchCompute
<1>3. PICK n, p, comp, M : /\ n = Current /\ p = Without(reservation, scan)
                           /\ comp = Append(computeQueue, n) /\ M = node'
  OBVIOUS
<1>4. n \in 1..Len(node) BY <1>1, <1>2, <1>3, LaunchFacts
<1>5. Instr(n).op \in {"op", "phi", "gep"} /\ Instr(n).op # "br"
  BY <1>2, <1>3 DEF Computes
<1>6. Retouched(node, M, {}) BY <1>1, <1>2, <1>3, <1>4, <1>5, ComputedKeeps
<1>7. Sound(M, register, p, comp, readQueue, writeQueue)
  BY <1>1, <1>2, <1>3, <1>5, <1>6, LaunchQueues
<1>8. StateOK' BY <1>2, <1>3, <1>7 DEF StateOK, Sound
<1>9. Len(node') = Len(node) /\ SameCode(node, node', Len(node))
  BY <1>3, <1>6 DEF Retouched
<1>10. LastOK'
  <2>1. ~finished BY <1>1, <1>2, NotFinished DEF Launchable
  <2>2. ~finished' BY <1>2, <2>1 DEF status
  <2>3. Elements(p) = Elements(reservation) \ {n} BY <1>1, <1>2, <1>3, LaunchTable
  <2>4. Len(node) \in Elements(reservation) => Len(node) # n
    BY <1>1, <1>5, LastOp
  <2> QED BY <1>1, <1>2, <1>3, <1>9, <2>1, <2>2, <2>3, <2>4, LastKept
<1>11. RestOK'
  <2>1. Formed(node, n) BY <1>1, <1>4 DEF StateOK, NodesOK
  <2>2. At(node, n).unit \in Units BY <2>1, NodeInstr
  <2>3. Instr(n).unit \in Units BY <2>2 DEF At, Instr
  <2>4. used' \in [Units -> Nat] BY <1>1, <1>2, <1>3, <2>3 DEF RestOK
  <2> QED BY <1>1, <1>2, <1>3, <1>4, <1>9, <2>4 DEF RestOK, Nodes
<1>12. Forward BY <1>1, <1>2, ForwardSame
<1> QED BY <1>8, <1>10, <1>11, <1>12 DEF Inv

\* A node of no cycles commits at once.
LEMMA LaunchImmediateKeeps ==
  ASSUME Inv, LaunchImmediate
  PROVE  Inv' /\ Forward
<1>1. StateOK /\ LastOK /\ RestOK BY DEF Inv
<1>2. /\ Launchable /\ Computes(Current)
      /\ node' = Committed(Computed(Current), {Current})
      /\ register' = Written(register, {Current})
      /\ reservation' = Without(reservation, scan)
      /\ UNCHANGED <<computeQueue, readQueue, writeQueue, mem, blocks, status, scan, hardware>>
  BY DEF LaunchImmediate
<1>3. PICK n, p, N, M, T, S :
        /\ n = Current /\ p = Without(reservation, scan) /\ N = Computed(n)
        /\ M = node' /\ T = register' /\ S = {n}
  OBVIOUS
<1>4. n \in 1..Len(node) /\ n \in Open(node) /\ n \in Elements(reservation)
  BY <1>1, <1>2, <1>3, LaunchFacts
<1>5. Instr(n).op \in {"op", "phi", "gep"} /\ Instr(n).op # "br"
  BY <1>2, <1>3 DEF Computes
<1>6. Retouched(node, N, {}) BY <1>1, <1>3, <1>4, <1>5, ComputedKeeps
<1>7. /\ IsSeq(node) /\ Len(node) \in Nat /\ \A k \in 1..Len(node) : Formed(node, k)
      /\ QueueSets(node, reservation, computeQueue, readQueue, writeQueue)
      /\ \A k : At(node, k) = Instr(k)
      /\ Open(node) \subseteq 1..Len(node)
  BY <1>1, StateFacts
<1>8. /\ IsSeq(p) /\ Elements(p) = Elements(reservation) \ {n}
      /\ \A j, k \in 1..Len(p) : j < k => p[j] < p[k]
      /\ CanLeave(node, Elements(reservation), Elements(p))
      /\ Elements(reservation) \subseteq Open(node)
  BY <1>1, <1>2, <1>3, LaunchTable
<1>9. NodesOK(N, Elements(p)) BY <1>1, <1>6, <1>8, LeaveKeeps DEF StateOK
<1>10. RegistersOK(N, register) BY <1>1, <1>6, <1>7, LeaveRegisters DEF StateOK
<1>11. Len(N) = Len(node) /\ SameCode(node, N, Len(node)) /\ Open(N) = Open(node)
  BY <1>6 DEF Retouched
<1>12. \A k \in 1..Len(node) : At(N, k) = Instr(k) BY <1>7, <1>11, Unmoved
<1>13. Present(N) BY <1>11, <1>12 DEF Present
<1>14. QueueSets(N, reservation, computeQueue, readQueue, writeQueue)
  BY <1>7, <1>11, <1>12 DEF QueueSets
<1>15. M = Committed(N, S) /\ T = Written(register, S) BY <1>2, <1>3
<1>16. /\ Left(computeQueue, computeQueue, S) /\ Left(readQueue, readQueue, S)
       /\ Left(writeQueue, writeQueue, S)
  BY <1>3, <1>4, <1>7 DEF QueueSets, Left
<1>17. /\ Sound(M, T, p, computeQueue, readQueue, writeQueue)
       /\ Done(N, S, M, register, T)
  <2>1. S \subseteq Open(N) /\ S \cap Elements(p) = {} BY <1>3, <1>4, <1>8, <1>11
  <2>2. Elements(p) = Elements(reservation) \ S BY <1>3, <1>8
  <2> QED BY <1>8, <1>9, <1>10, <1>13, <1>14, <1>15, <1>16, <2>1, <2>2, CommitQueues
<1>18. StateOK' BY <1>2, <1>3, <1>17 DEF StateOK, Sound
<1>19. Len(node') = Len(node) /\ SameCode(node, node', Len(node))
  BY <1>3, <1>11, <1>17 DEF SameCode, Same, Done
<1>20. LastOK'
  <2>1. ~finished BY <1>1, <1>2, NotFinished DEF Launchable
  <2>2. ~finished' BY <1>2, <2>1 DEF status
  <2>3. Len(node) \in Elements(reservation) => Len(node) # n
    BY <1>1, <1>5, LastOp
  <2> QED BY <1>1, <1>2, <1>3, <1>8, <1>19, <2>1, <2>2, <2>3, LastKept
<1>21. RestOK' BY <1>1, <1>2, <1>19 DEF RestOK, hardware, Nodes
<1>22. Forward BY <1>3, <1>17 DEF Forward, Done
<1> QED BY <1>18, <1>20, <1>21, <1>22 DEF Inv

\* Nodes are retouched and nothing else happens.
LEMMA RetouchSound ==
  ASSUME StateOK, NEW M, Retouched(node, M, {})
  PROVE  Sound(M, register, reservation, computeQueue, readQueue, writeQueue)
<1>1. /\ IsSeq(node) /\ Len(node) \in Nat /\ \A k \in 1..Len(node) : Formed(node, k)
      /\ QueueSets(node, reservation, computeQueue, readQueue, writeQueue)
      /\ \A k : At(node, k) = Instr(k)
      /\ Open(node) \subseteq 1..Len(node)
  BY StateFacts
<1>2. PICK W : W = Elements(reservation) OBVIOUS
<1>3. W \subseteq Open(node) /\ CanLeave(node, W, W) BY <1>1, <1>2 DEF QueueSets, CanLeave
<1>4. NodesOK(node, W) BY <1>2 DEF StateOK
<1>5. NodesOK(M, W) BY <1>3, <1>4, LeaveKeeps
<1>6. RegistersOK(M, register) BY <1>1, LeaveRegisters DEF StateOK
<1>7. Len(M) = Len(node) /\ SameCode(node, M, Len(node)) /\ Open(M) = Open(node)
  BY DEF Retouched
<1>8. \A k \in 1..Len(node) : At(M, k) = At(node, k) BY <1>1, <1>7, Unmoved
<1>9. QueueSets(M, reservation, computeQueue, readQueue, writeQueue)
  BY <1>1, <1>7, <1>8 DEF QueueSets
<1>10. QueuesOK(M, reservation, computeQueue, readQueue, writeQueue) BY <1>9, QueueForms
<1> QED BY <1>2, <1>5, <1>6, <1>10 DEF Sound

\* The memory answers: a node gets a value.
LEMMA ValueKeeps ==
  ASSUME StateOK, NEW n \in 1..Len(node), NEW v, NEW M, M = [node EXCEPT ![n].value = v]
  PROVE  Retouched(node, M, {})
<1>1. IsSeq(node) /\ Len(node) \in Nat /\ \A k \in 1..Len(node) : Formed(node, k)
  BY StateFacts
<1>2. PICK c : c = node[n] OBVIOUS
<1>3. PICK d : d = [c EXCEPT !.value = v] OBVIOUS
<1>4. IsNode(c) /\ c.cycle \in Nat BY <1>1, <1>2 DEF Formed
<1>5. /\ IsNode(d) /\ Same(c, d) /\ d.active = c.active /\ d.ops = c.ops
      /\ d.cycle = c.cycle /\ d.committed = c.committed
  BY <1>3, <1>4 DEF IsNode, Same
<1>6. M = [node EXCEPT ![n] = d] BY <1>2, <1>3
<1> QED BY <1>1, <1>2, <1>4, <1>5, <1>6, Touch

\* A queued request.
LEMMA QueuedNode ==
  ASSUME StateOK, NEW q, q \in {readQueue, writeQueue}, NEW i \in 1..Len(q), NEW n, n = q[i]
  PROVE  /\ n \in 1..Len(node) /\ n \in Open(node) /\ n \notin Elements(reservation)
         /\ q # <<>> /\ IsSeq(q) /\ Distinct(q)
         /\ q = writeQueue => Instr(n).op = "store"
<1>1. /\ QueueSets(node, reservation, computeQueue, readQueue, writeQueue)
      /\ Open(node) \subseteq 1..Len(node) /\ \A k : At(node, k) = Instr(k)
  BY StateFacts
<1>2. n \in Elements(q) BY DEF Elements
<1>3. q # <<>> OBVIOUS
<1> QED BY <1>1, <1>2, <1>3 DEF QueueSets

\* The memory serves a load.
LEMMA ServeReadKeeps ==
  ASSUME Inv, NEW i, ServeRead(i)
  PROVE  Inv' /\ Forward
<1>1. StateOK /\ LastOK /\ RestOK BY DEF Inv
<1>2. /\ i \in 1..Len(readQueue)
      /\ node' = [node EXCEPT ![readQueue[i]].value = Word(Address(readQueue[i]))]
      /\ UNCHANGED <<queues, register, mem, blocks, status, scan, hardware>>
  BY DEF ServeRead
<1>3. PICK n, v, M : n = readQueue[i] /\ v = Word(Address(readQueue[i])) /\ M = node'
  OBVIOUS
<1>4. n \in 1..Len(node) /\ readQueue # <<>> BY <1>1, <1>2, <1>3, QueuedNode
<1>5. Retouched(node, M, {}) BY <1>1, <1>2, <1>3, <1>4, ValueKeeps
<1>6. Sound(M, register, reservation, computeQueue, readQueue, writeQueue)
  BY <1>1, <1>5, RetouchSound
<1>7. StateOK' BY <1>2, <1>3, <1>6 DEF StateOK, Sound, queues
<1>8. Len(node') = Len(node) /\ SameCode(node, node', Len(node))
  BY <1>3, <1>5 DEF Retouched
<1>9. LastOK'
  <2>1. ~finished BY <1>1, <1>4, NotFinished
  <2>2. ~finished' BY <1>2, <2>1 DEF status
  <2>3. reservation' = reservation BY <1>2 DEF queues
  <2> QED BY <1>1, <1>2, <1>8, <2>1, <2>2, <2>3, LastKept
<1>10. RestOK' BY <1>1, <1>2, <1>8 DEF RestOK, hardware, Nodes
<1>11. Forward BY <1>1, <1>2, ForwardSame
<1> QED BY <1>7, <1>9, <1>10, <1>11 DEF Inv

\* The memory serves a store.
LEMMA ServeWriteKeeps ==
  ASSUME Inv, NEW i, ServeWrite(i)
  PROVE  Inv' /\ Forward
<1>1. StateOK /\ LastOK /\ RestOK BY DEF Inv
<1>2. /\ i \in 1..Len(writeQueue)
      /\ node' = [node EXCEPT ![writeQueue[i]].value = writeQueue[i]]
      /\ mem' = [a \in DOMAIN mem \cup {Address(writeQueue[i])} |->
                   IF a = Address(writeQueue[i]) THEN writeQueue[i] ELSE mem[a]]
      /\ UNCHANGED <<queues, register, blocks, status, scan, hardware>>
  BY DEF ServeWrite
<1>3. PICK n, M : n = writeQueue[i] /\ M = node' OBVIOUS
<1>4. n \in 1..Len(node) /\ writeQueue # <<>> BY <1>1, <1>2, <1>3, QueuedNode
<1>5. Retouched(node, M, {}) BY <1>1, <1>2, <1>3, <1>4, ValueKeeps
<1>6. Sound(M, register, reservation, computeQueue, readQueue, writeQueue)
  BY <1>1, <1>5, RetouchSound
<1>7. StateOK' BY <1>2, <1>3, <1>6 DEF StateOK, Sound, queues
<1>8. Len(node') = Len(node) /\ SameCode(node, node', Len(node))
  BY <1>3, <1>5 DEF Retouched
<1>9. LastOK'
  <2>1. ~finished BY <1>1, <1>4, NotFinished
  <2>2. ~finished' BY <1>2, <2>1 DEF status
  <2>3. reservation' = reservation BY <1>2 DEF queues
  <2> QED BY <1>1, <1>2, <1>8, <2>1, <2>2, <2>3, LastKept
<1>10. RestOK'
  <2>1. \A a \in DOMAIN mem : mem[a] \in 1..Len(node) BY <1>1 DEF RestOK, Nodes
  <2>2. PICK b : b = Address(writeQueue[i]) OBVIOUS
  <2>3. mem' = [a \in DOMAIN mem \cup {b} |-> IF a = b THEN n ELSE mem[a]]
    BY <1>2, <1>3, <2>2
  <2>4. \A a \in DOMAIN mem' : mem'[a] \in 1..Len(node) BY <1>4, <2>1, <2>3
  <2> QED BY <1>1, <1>2, <1>8, <2>4 DEF RestOK, hardware, Nodes
<1>11. Forward BY <1>1, <1>2, ForwardSame
<1> QED BY <1>7, <1>9, <1>10, <1>11 DEF Inv

\* The nodes as they are now.
LEMMA NodesPresent ==
  ASSUME StateOK
  PROVE  Present(node)
BY DEF Present, Instr, At

\* readCommit().
LEMMA ReadCommitKeeps ==
  ASSUME Inv, NEW i, ReadCommit(i)
  PROVE  Inv' /\ Forward
<1>1. StateOK /\ LastOK /\ RestOK BY DEF Inv
<1>2. /\ i \in 1..Len(readQueue)
      /\ node' = Committed(node, {readQueue[i]})
      /\ register' = Written(register, {readQueue[i]})
      /\ readQueue' = Without(readQueue, i)
      /\ UNCHANGED <<reservation, computeQueue, writeQueue, mem, blocks, status, scan, hardware>>
  BY DEF ReadCommit
<1>3. PICK n, M, T, S, rd : /\ n = readQueue[i] /\ M = node' /\ T = register' /\ S = {n}
                            /\ rd = Without(readQueue, i)
  OBVIOUS
<1>4. /\ n \in 1..Len(node) /\ n \in Open(node) /\ n \notin Elements(reservation)
      /\ readQueue # <<>> /\ IsSeq(readQueue) /\ Distinct(readQueue)
  BY <1>1, <1>2, <1>3, QueuedNode
<1>5. /\ QueueSets(node, reservation, computeQueue, readQueue, writeQueue)
      /\ \A k : At(node, k) = Instr(k)
  BY <1>1, StateFacts
<1>6. n \in Elements(readQueue) BY <1>2, <1>3 DEF Elements
<1>7. Left(rd, readQueue, S)
  <2>1. Distinct(rd) /\ Elements(rd) = Elements(readQueue) \ {readQueue[i]}
    BY <1>2, <1>3, <1>4, WithoutElements
  <2>2. IsSeq(rd) BY <1>2, <1>3, <1>4, WithoutIs
  <2> QED BY <1>3, <2>1, <2>2 DEF Left
<1>8. Left(computeQueue, computeQueue, S) /\ Left(writeQueue, writeQueue, S)
  <2>1. n \notin Elements(computeQueue) /\ n \notin Elements(writeQueue)
    BY <1>5, <1>6 DEF QueueSets
  <2> QED BY <1>3, <1>5, <2>1 DEF QueueSets, Left
<1>9. /\ Sound(M, T, reservation, computeQueue, rd, writeQueue)
      /\ Done(node, S, M, register, T)
  <2>1. S \subseteq Open(node) /\ S \cap Elements(reservation) = {}
        /\ Elements(reservation) = Elements(reservation) \ S
    BY <1>3, <1>4
  <2>2. M = Committed(node, S) /\ T = Written(register, S) BY <1>2, <1>3
  <2>3. NodesOK(node, Elements(reservation)) /\ RegistersOK(node, register) /\ Present(node)
    BY <1>1, NodesPresent DEF StateOK
  <2>4. IsSeq(reservation) /\ \A j, k \in 1..Len(reservation) : j < k => reservation[j] < reservation[k]
    BY <1>5 DEF QueueSets
  <2> QED BY <1>5, <1>7, <1>8, <2>1, <2>2, <2>3, <2>4, CommitQueues
<1>10. StateOK' BY <1>2, <1>3, <1>9 DEF StateOK, Sound
<1>11. Len(node') = Len(node) /\ SameCode(node, node', Len(node)) BY <1>3, <1>9 DEF Done
<1>12. LastOK'
  <2>1. ~finished BY <1>1, <1>4, NotFinished
  <2>2. ~finished' BY <1>2, <2>1 DEF status
  <2> QED BY <1>1, <1>2, <1>11, <2>1, <2>2, LastKept
<1>13. RestOK' BY <1>1, <1>2, <1>11 DEF RestOK, hardware, Nodes
<1>14. Forward BY <1>3, <1>9 DEF Forward, Done
<1> QED BY <1>10, <1>12, <1>13, <1>14 DEF Inv

\* writeCommit(): a store returns to no register.
LEMMA WriteCommitKeeps ==
  ASSUME Inv, NEW i, WriteCommit(i)
  PROVE  Inv' /\ Forward
<1>1. StateOK /\ LastOK /\ RestOK BY DEF Inv
<1>2. /\ i \in 1..Len(writeQueue)
      /\ node' = Committed(node, {writeQueue[i]})
      /\ writeQueue' = Without(writeQueue, i)
      /\ UNCHANGED <<reservation, computeQueue, readQueue, register, mem, blocks, status, scan, hardware>>
  BY DEF WriteCommit
<1>3. PICK n, M, T, S, wr : /\ n = writeQueue[i] /\ M = node' /\ S = {n}
                            /\ T = Written(register, S) /\ wr = Without(writeQueue, i)
  OBVIOUS
<1>4. /\ n \in 1..Len(node) /\ n \in Open(node) /\ n \notin Elements(reservation)
      /\ writeQueue # <<>> /\ IsSeq(writeQueue) /\ Distinct(writeQueue)
      /\ Instr(n).op = "store"
  BY <1>1, <1>2, <1>3, QueuedNode
<1>5. /\ QueueSets(node, reservation, computeQueue, readQueue, writeQueue)
      /\ \A k : At(node, k) = Instr(k)
  BY <1>1, StateFacts
<1>6. n \in Elements(writeQueue) BY <1>2, <1>3 DEF Elements
<1>7. Left(wr, writeQueue, S)
  <2>1. Distinct(wr) /\ Elements(wr) = Elements(writeQueue) \ {writeQueue[i]}
    BY <1>2, <1>3, <1>4, WithoutElements
  <2>2. IsSeq(wr) BY <1>2, <1>3, <1>4, WithoutIs
  <2> QED BY <1>3, <2>1, <2>2 DEF Left
<1>8. Left(computeQueue, computeQueue, S) /\ Left(readQueue, readQueue, S)
  <2>1. n \notin Elements(computeQueue) /\ n \notin Elements(readQueue)
    BY <1>5, <1>6 DEF QueueSets
  <2> QED BY <1>3, <1>5, <2>1 DEF QueueSets, Left
<1>9. /\ Sound(M, T, reservation, computeQueue, readQueue, wr)
      /\ Done(node, S, M, register, T)
  <2>1. S \subseteq Open(node) /\ S \cap Elements(reservation) = {}
        /\ Elements(reservation) = Elements(reservation) \ S
    BY <1>3, <1>4
  <2>2. M = Committed(node, S) /\ T = Written(register, S) BY <1>2, <1>3
  <2>3. NodesOK(node, Elements(reservation)) /\ RegistersOK(node, register) /\ Present(node)
    BY <1>1, NodesPresent DEF StateOK
  <2>4. IsSeq(reservation) /\ \A j, k \in 1..Len(reservation) : j < k => reservation[j] < reservation[k]
    BY <1>5 DEF QueueSets
  <2> QED BY <1>5, <1>7, <1>8, <2>1, <2>2, <2>3, <2>4, CommitQueues
<1>10. T = register
  <2>1. Formed(node, n) BY <1>1, <1>4 DEF StateOK, NodesOK
  <2>2. Instr(n).ret = None BY <1>4, <1>5, <2>1, NodeInstr
  <2>3. \A r \in Regs : ~\E p \in S : Instr(p).ret = r BY <1>3, <2>2, CodeAssumption
  <2>4. T = [r \in Regs |-> register[r]] BY <1>3, <2>3 DEF Written
  <2>5. Len(node) \in Nat BY <1>1, StateFacts
  <2>6. register \in [Regs -> 0..Len(node)] BY <1>1, <2>5, RegistersType DEF StateOK
  <2> QED BY <2>4, <2>6
<1>11. StateOK' BY <1>2, <1>3, <1>9, <1>10 DEF StateOK, Sound
<1>12. Len(node') = Len(node) /\ SameCode(node, node', Len(node)) BY <1>3, <1>9 DEF Done
<1>13. LastOK'
  <2>1. ~finished BY <1>1, <1>4, NotFinished
  <2>2. ~finished' BY <1>2, <2>1 DEF status
  <2> QED BY <1>1, <1>2, <1>12, <2>1, <2>2, LastKept
<1>14. RestOK' BY <1>1, <1>2, <1>12 DEF RestOK, hardware, Nodes
<1>15. Forward BY <1>1, <1>2, ForwardSame
<1> QED BY <1>11, <1>13, <1>14, <1>15 DEF Inv

\* The loop over the compute queue lets nodes grow older.
LEMMA AgedKeeps ==
  ASSUME StateOK, NEW A,
         NEW M, M = [n \in 1..Len(node) |->
                       IF n \in A THEN [node[n] EXCEPT !.cycle = @ + 1] ELSE node[n]]
  PROVE  Retouched(node, M, {})
<1>1. IsSeq(node) /\ Len(node) \in Nat /\ \A k \in 1..Len(node) : Formed(node, k)
  BY StateFacts
<1> DEFINE D(n) == IF n \in A THEN [node[n] EXCEPT !.cycle = @ + 1] ELSE node[n]
<1>2. ASSUME NEW n \in 1..Len(node)
      PROVE  /\ IsNode(D(n)) /\ Same(node[n], D(n)) /\ D(n).active = node[n].active
             /\ D(n).ops = node[n].ops /\ D(n).cycle \in Nat
             /\ D(n).committed = node[n].committed /\ node[n].committed \in BOOLEAN
  <2>1. PICK c : c = node[n] OBVIOUS
  <2>2. IsNode(c) /\ c.cycle \in Nat /\ c.committed \in BOOLEAN BY <1>1, <2>1 DEF Formed
  <2>3. CASE n \notin A BY <2>1, <2>2, <2>3 DEF Same
  <2>4. CASE n \in A
    <3>1. PICK d : d = [c EXCEPT !.cycle = c.cycle + 1] OBVIOUS
    <3>2. /\ IsNode(d) /\ Same(c, d) /\ d.active = c.active /\ d.ops = c.ops
          /\ d.cycle = c.cycle + 1 /\ d.committed = c.committed
      BY <2>2, <3>1 DEF IsNode, Same
    <3>3. D(n) = d BY <2>1, <2>4, <3>1
    <3>4. d.cycle \in Nat BY <2>2, <3>2
    <3> HIDE DEF D
    <3> QED BY <2>1, <2>2, <3>2, <3>3, <3>4
  <2> QED BY <2>3, <2>4
<1>3. M = [n \in 1..Len(node) |-> D(n)] OBVIOUS
<1> HIDE DEF D
<1>4. PICK l \in Nat : l = Len(node) BY <1>1
<1>5. Len(M) = l /\ \A n \in 1..l : M[n] = D(n) BY <1>3, <1>4
<1>6. IsSeq(M) BY <1>3, <1>4, <1>5 DEF IsSeq
<1>7. SameCode(node, M, l) BY <1>2, <1>4, <1>5 DEF SameCode
<1>8. Open(M) = Open(node) BY <1>2, <1>4, <1>5 DEF Open
<1>9. \A n \in 1..l : /\ IsNode(M[n]) /\ M[n].cycle \in Nat /\ M[n].committed \in BOOLEAN
                      /\ M[n].active = node[n].active /\ M[n].ops = node[n].ops
  BY <1>2, <1>4, <1>5
<1> QED BY <1>4, <1>5, <1>6, <1>7, <1>8, <1>9 DEF Retouched

\* The nodes of a new block: the last one is its branch or ret.
LEMMA BlockLast ==
  ASSUME StateOK, NEW b \in Blocks, NEW K, WithBlock(K, b)
  PROVE  /\ Len(K) \in Nat /\ Len(K) \in Fresh(b) /\ Len(K) \in 1..Len(K)
         /\ K[Len(K)].blk = b /\ K[Len(K)].idx = Len(Code[b])
         /\ At(K, Len(K)) = Code[b][Len(Code[b])]
         /\ \A n \in 1..Len(K) : n \in 1..Len(node) \/ n \in Fresh(b)
         /\ \A n \in Fresh(b) : At(K, n).op \in {"br", "ret"} => n = Len(K)
<1>1. /\ Len(node) \in Nat /\ Len(Code[b]) \in Nat
      /\ \A i \in 1..Len(Code[b]) : At(K, Len(node) + i) = Code[b][i]
  BY BlockCode
<1>2. PICK m \in Nat, l \in Nat : m = Len(node) /\ l = Len(Code[b]) BY <1>1
<1>3. l > 0 BY <1>2, CodeAssumption
<1>4. Len(K) = m + l BY <1>2 DEF WithBlock
<1>5. Fresh(b) = (m + 1)..(m + l) BY <1>2 DEF Fresh
<1>6. l \in 1..l BY <1>3
<1>7. K[m + l].blk = b /\ K[m + l].idx = l BY <1>2, <1>6 DEF WithBlock
<1>8. At(K, m + l) = Code[b][l] BY <1>1, <1>2, <1>6
<1>9. Len(K) \in Nat /\ Len(K) \in Fresh(b) /\ Len(K) \in 1..Len(K)
  BY <1>3, <1>4, <1>5
<1>10. \A n \in 1..Len(K) : n \in 1..m \/ n \in Fresh(b) BY <1>4, <1>5
<1>11. ASSUME NEW n \in Fresh(b), At(K, n).op \in {"br", "ret"} PROVE n = Len(K)
  <2>1. n - m \in 1..l /\ n = m + (n - m) BY <1>5
  <2>2. PICK i \in 1..l : n = m + i BY <2>1
  <2>3. At(K, n) = Code[b][i] BY <1>1, <1>2, <2>2
  <2>4. i = l BY <1>2, <1>11, <2>3, CodeAssumption
  <2> QED BY <1>4, <2>2, <2>4
<1> QED BY <1>2, <1>4, <1>7, <1>8, <1>9, <1>10, <1>11

\* Before the first block there are no nodes.
LEMMA NothingYet ==
  ASSUME StateOK, LastOK, ~finished, reservation = <<>>
  PROVE  /\ Len(node) = 0 /\ Open(node) = {} /\ Elements(computeQueue) = {}
         /\ Elements(readQueue) = {} /\ Elements(writeQueue) = {}
<1>1. /\ Len(node) \in Nat /\ Open(node) \subseteq 1..Len(node)
      /\ QueueSets(node, reservation, computeQueue, readQueue, writeQueue)
  BY StateFacts
<1>2. Elements(reservation) = {} BY DEF Elements
<1>3. Len(node) = 0 BY <1>1, <1>2 DEF LastOK
<1>4. Open(node) = {} BY <1>1, <1>3
<1> QED BY <1>1, <1>3, <1>4 DEF QueueSets

\* The first block comes in.
LEMMA FirstSound ==
  ASSUME StateOK, LastOK, ~finished, reservation = <<>>,
         NEW b \in Blocks, NEW K, Extended(K, b), NEW res, res = NewNumbers(b),
         NEW comp, IsSeq(comp), Distinct(comp), Elements(comp) = {}
  PROVE  Sound(K, register, res, comp, readQueue, writeQueue) /\ Elements(res) = Fresh(b)
<1>1. /\ Len(node) = 0 /\ Open(node) = {}
      /\ Elements(readQueue) = {} /\ Elements(writeQueue) = {}
  BY NothingYet
<1>2. /\ WithBlock(K, b) /\ NodesOK(K, Table2(b)) /\ RegistersOK(K, register)
      /\ Open(K) = Open(node) \cup Fresh(b)
  BY DEF Extended
<1>3. QueueSets(node, reservation, computeQueue, readQueue, writeQueue) BY StateFacts
<1>4. PICK l \in Nat : l = Len(Code[b]) BY <1>2, BlockCode
<1>5. Fresh(b) = 1..l BY <1>1, <1>4 DEF Fresh
<1>6. res = [i \in 1..l |-> 0 + i] BY <1>1, <1>4 DEF NewNumbers
<1>7. \A i \in 1..l : res[i] = i BY <1>6
<1>8. Len(res) = l BY <1>6
<1>9. IsSeq(res) BY <1>6, <1>8 DEF IsSeq
<1>10. Elements(res) = Fresh(b) BY <1>5, <1>7, <1>8 DEF Elements
<1>11. \A i, j \in 1..Len(res) : i < j => res[i] < res[j] BY <1>7, <1>8
<1>12. Table2(b) = Elements(res) BY <1>10 DEF Table2, Elements
<1>13. QueueSets(K, res, comp, readQueue, writeQueue)
  BY <1>1, <1>2, <1>3, <1>9, <1>10, <1>11 DEF QueueSets
<1>14. QueuesOK(K, res, comp, readQueue, writeQueue) BY <1>13, QueueForms
<1> QED BY <1>2, <1>10, <1>12, <1>14 DEF Sound

\* The last node once block b has come in.
LEMMA LastWithBlock ==
  ASSUME StateOK, NEW b \in Blocks, NEW K, WithBlock(K, b),
         Len(node') = Len(K), SameCode(K, node', Len(K)),
         \A n \in 1..Len(node) :
           Instr(n).op # "ret" /\ (Instr(n).op = "br" => n \notin Elements(reservation')),
         currBB' = b, prevBB' \in Blocks, ~finished', entered \in Nat, entered' = entered + 1,
         \/ entered' <= MaxBlocks
         \/ entered' = MaxBlocks + 1 /\ Code[b][Len(Code[b])].op = "ret",
         Len(K) \in Elements(reservation')
  PROVE  LastOK'
<1>1. /\ Len(K) \in Nat /\ Len(K) \in 1..Len(K)
      /\ K[Len(K)].blk = b /\ K[Len(K)].idx = Len(Code[b])
      /\ At(K, Len(K)) = Code[b][Len(Code[b])]
      /\ \A n \in 1..Len(K) : n \in 1..Len(node) \/ n \in Fresh(b)
      /\ \A n \in Fresh(b) : At(K, n).op \in {"br", "ret"} => n = Len(K)
  BY BlockLast
<1>2. \A n \in 1..Len(node) : At(K, n) = Instr(n) BY BlockCode
<1>3. PICK M, V : M = node' /\ V = Elements(reservation)' OBVIOUS
<1>4. Elements(reservation') = V BY <1>3 DEF Elements
<1>5. \A n \in 1..Len(K) : At(M, n) = At(K, n) BY <1>1, <1>3, Unmoved
<1>6. ASSUME NEW n \in 1..Len(K)
      PROVE  (At(M, n).op = "ret" => n = Len(K)) /\ (At(M, n).op = "br" /\ n \in V => n = Len(K))
  <2>1. CASE n \in 1..Len(node) BY <1>2, <1>4, <1>5, <2>1
  <2>2. CASE n \in Fresh(b) BY <1>1, <1>5, <2>2
  <2> QED BY <1>1, <2>1, <2>2
<1>7. \A n \in Nodes' : /\ Instr(n)'.op = "ret" => n = Len(node')
                        /\ Instr(n)'.op = "br" /\ Waiting(n)' => n = Len(node')
  BY <1>3, <1>6 DEF Nodes, Instr, At, Waiting
<1>8. M[Len(M)].blk = b /\ M[Len(M)].idx = Len(Code[b])
  BY <1>1, <1>3 DEF SameCode, Same
<1>9. Instr(Len(node))' = Code[b][Len(Code[b])] BY <1>3, <1>8 DEF Instr
<1>10. entered' \in Nat /\ entered' # 0 /\ Len(node') # 0 BY <1>1
<1>11. Len(node') \in Elements(reservation)' BY <1>3, <1>4
<1> QED BY <1>3, <1>7, <1>8, <1>9, <1>10, <1>11 DEF LastOK

\* The first cycle: the block of the entry comes in.
LEMMA FirstCycle ==
  ASSUME Inv, ~finished, ~finished', reservation = <<>>, NEW c, ~c.out,
         Checked(c, Elements(computeQueue)), NEW N, IsSeq(N), Len(N) = Len(node),
         node' = ScheduleBB(currBB, prevBB, Committed(N, c.commit)),
         reservation' = NewNumbers(currBB), register' = Written(register, c.commit),
         computeQueue' = c.rest, entered' = entered + 1,
         UNCHANGED <<readQueue, writeQueue, currBB, prevBB>>
  PROVE  StateOK' /\ LastOK' /\ Forward /\ Len(node) = 0 /\ Len(node') \in Nat
<1>1. StateOK /\ LastOK /\ RestOK BY DEF Inv
<1>2. Len(node) = 0 /\ Elements(computeQueue) = {} BY <1>1, NothingYet
<1>3. c.commit = {} /\ IsSeq(c.rest) /\ Distinct(c.rest) /\ Elements(c.rest) = {}
  BY <1>2 DEF Checked
<1>4. IsSeq(node) BY <1>1, StateFacts
<1>5. Committed(N, c.commit) = node
  <2>1. PICK M : M = Committed(N, c.commit) OBVIOUS
  <2>2. M = [n \in 1..0 |-> LET d == Signalled(N[n], c.commit)
                            IN  IF n \in c.commit THEN [d EXCEPT !.committed = TRUE] ELSE d]
    BY <1>2, <2>1 DEF Committed
  <2>3. M = [n \in {} |-> 0] BY <2>2
  <2>4. node = [n \in {} |-> 0] BY <1>2, <1>4 DEF IsSeq
  <2> QED BY <2>1, <2>3, <2>4
<1>6. register' = register
  <2>1. Written(register, {}) = [r \in Regs |-> register[r]] BY DEF Written
  <2>2. register \in [Regs -> 0..Len(node)] BY <1>1, <1>2, RegistersType DEF StateOK
  <2> QED BY <1>3, <2>1, <2>2
<1>7. PICK K, b, res : K = node' /\ b = currBB /\ res = NewNumbers(currBB) OBVIOUS
<1>8. b \in Blocks /\ prevBB \in Blocks /\ entered = 0 BY <1>1, <1>2, <1>7 DEF LastOK
<1>9. Extended(K, b) BY <1>1, <1>5, <1>7, <1>8, ScheduleKeeps
<1>10. /\ Sound(K, register, res, c.rest, readQueue, writeQueue)
       /\ Elements(res) = Fresh(b)
  BY <1>1, <1>3, <1>7, <1>8, <1>9, FirstSound
<1>11. StateOK' BY <1>6, <1>7, <1>10 DEF StateOK, Sound
<1>12. WithBlock(K, b) BY <1>9 DEF Extended
<1>13. Len(K) \in Nat /\ Len(K) \in Fresh(b) BY <1>1, <1>8, <1>12, BlockLast
<1>14. LastOK'
  <2>1. SameCode(K, node', Len(K)) BY <1>7 DEF SameCode, Same
  <2>2. entered' <= MaxBlocks BY <1>8, ThresholdAssumption
  <2> QED BY <1>1, <1>2, <1>7, <1>8, <1>10, <1>12, <1>13, <2>1, <2>2, LastWithBlock
<1>15. Forward BY <1>1, <1>6, ForwardSame
<1> QED BY <1>2, <1>7, <1>11, <1>13, <1>14, <1>15

\* The loop over the compute queue in a later cycle.
LEMMA LaterCycle ==
  ASSUME Inv, ~finished, ~finished', NEW c, ~c.out,
         Checked(c, Elements(computeQueue)), NEW N, Retouched(node, N, {}),
         node' = Committed(N, c.commit), register' = Written(register, c.commit),
         computeQueue' = c.rest, UNCHANGED <<reservation, readQueue, writeQueue, blocks>>
  PROVE  StateOK' /\ LastOK' /\ Forward /\ Len(node') = Len(node)
<1>1. StateOK /\ LastOK /\ RestOK BY DEF Inv
<1>2. /\ QueueSets(node, reservation, computeQueue, readQueue, writeQueue)
      /\ \A k : At(node, k) = Instr(k) /\ Len(node) \in Nat
  BY <1>1, StateFacts
<1>3. Sound(N, register, reservation, computeQueue, readQueue, writeQueue)
  BY <1>1, RetouchSound
<1>4. /\ NodesOK(N, Elements(reservation)) /\ RegistersOK(N, register)
      /\ QueueSets(N, reservation, computeQueue, readQueue, writeQueue)
  BY <1>3, QueueForms DEF Sound
<1>5. Len(N) = Len(node) /\ SameCode(node, N, Len(node)) BY DEF Retouched
<1>6. \A k \in 1..Len(node) : At(N, k) = Instr(k) BY <1>2, <1>5, Unmoved
<1>7. Present(N) BY <1>5, <1>6 DEF Present
<1>8. PICK M, T, S, comp :
        M = node' /\ T = register' /\ S = c.commit /\ comp = c.rest
  OBVIOUS
<1>9. /\ S \subseteq Elements(computeQueue) /\ IsSeq(comp) /\ Distinct(comp)
      /\ Elements(comp) = Elements(computeQueue) \ S
  BY <1>8 DEF Checked
<1>10. /\ S \cap Elements(reservation) = {} /\ S \cap Elements(readQueue) = {}
       /\ S \cap Elements(writeQueue) = {} /\ S \subseteq Open(N)
  BY <1>4, <1>9 DEF QueueSets
<1>11. Left(comp, computeQueue, S) /\ Left(readQueue, readQueue, S) /\ Left(writeQueue, writeQueue, S)
  BY <1>2, <1>9, <1>10 DEF Left, QueueSets
<1>12. /\ Sound(M, T, reservation, comp, readQueue, writeQueue)
       /\ Done(N, S, M, register, T)
  <2>1. Elements(reservation) = Elements(reservation) \ S BY <1>10
  <2>2. IsSeq(reservation) /\ \A j, k \in 1..Len(reservation) : j < k => reservation[j] < reservation[k]
    BY <1>2 DEF QueueSets
  <2>3. M = Committed(N, S) /\ T = Written(register, S) BY <1>8
  <2> QED BY <1>4, <1>7, <1>10, <1>11, <2>1, <2>2, <2>3, CommitQueues
<1>13. StateOK' BY <1>8, <1>12 DEF StateOK, Sound
<1>14. Len(node') = Len(node) /\ SameCode(node, node', Len(node))
  BY <1>5, <1>8, <1>12 DEF Done, SameCode, Same
<1>15. LastOK' BY <1>1, <1>14, LastKept
<1>16. Forward BY <1>8, <1>12 DEF Forward, Done
<1> QED BY <1>13, <1>14, <1>15, <1>16

\* What the loop over the compute queue leads to.
Looped(c) ==
  /\ register' = Written(register, c.commit) /\ computeQueue' = c.rest
  /\ UNCHANGED <<readQueue, writeQueue, currBB, prevBB>>
  /\ scan' \in {0, 1} /\ used' = c.count /\ worked' = c.commit \cup c.age

\* A cycle.
LEMMA CycleKeeps ==
  ASSUME Inv, NEW go, Cycle(go), ~finished
  PROVE  Inv' /\ Forward
<1>1. StateOK /\ LastOK /\ RestOK BY DEF Inv
<1>2. PICK c : c = CheckCompute OBVIOUS
<1>3. Checked(c, Elements(computeQueue)) BY <1>1, <1>2, CheckComputeIs
<1>4. PICK N : N = [n \in 1..Len(node) |->
                      IF n \in c.age THEN [node[n] EXCEPT !.cycle = @ + 1] ELSE node[n]]
  OBVIOUS
<1>5. Retouched(node, N, {}) BY <1>1, <1>4, AgedKeeps
<1>6. UNCHANGED <<mem, finished, config>> BY DEF Cycle
<1>7. Elements(computeQueue) \subseteq 1..Len(node) /\ Len(node) \in Nat
  BY <1>1, StateFacts DEF QueueSets
<1>8. CASE c.out
  <2>1. UNCHANGED <<node, queues, register, blocks, scan, used, worked>>
    BY <1>2, <1>8 DEF Cycle
  <2>2. StateOK' BY <1>1, <2>1 DEF StateOK, queues
  <2>3. LastOK'
    <3>1. SameCode(node, node', Len(node)) BY <2>1 DEF SameCode, Same
    <3> QED BY <1>1, <1>6, <2>1, <3>1, LastKept DEF queues
  <2>4. RestOK' BY <1>1, <1>6, <2>1 DEF RestOK, Nodes
  <2>5. Forward BY <1>1, <2>1, ForwardSame
  <2> QED BY <2>2, <2>3, <2>4, <2>5 DEF Inv
<1>9. CASE ~c.out
  <2>1. Looped(c) BY <1>2, <1>9 DEF Cycle, Looped
  <2>2. CASE reservation = <<>>
    <3>1. /\ node' = ScheduleBB(currBB, prevBB, Committed(N, c.commit))
          /\ reservation' = NewNumbers(currBB) /\ entered' = entered + 1
      BY <1>2, <1>4, <1>9, <2>2 DEF Cycle
    <3>2. IsSeq(N) /\ Len(N) = Len(node) BY <1>5 DEF Retouched
    <3>3. StateOK' /\ LastOK' /\ Forward /\ Len(node) = 0 /\ Len(node') \in Nat
      BY <1>3, <1>6, <1>9, <2>1, <2>2, <3>1, <3>2, FirstCycle DEF Looped
    <3>4. RestOK'
      <4>1. worked' = {} BY <1>3, <1>7, <2>1, <3>3 DEF Looped, Checked
      <4>2. DOMAIN mem' = {} BY <1>1, <1>6, <3>3 DEF RestOK, Nodes
      <4> QED BY <1>1, <1>3, <1>6, <2>1, <4>1, <4>2 DEF RestOK, Looped, Checked
    <3> QED BY <3>3, <3>4 DEF Inv
  <2>3. CASE reservation # <<>>
    <3>1. /\ node' = Committed(N, c.commit)
          /\ reservation' = reservation /\ entered' = entered
      BY <1>2, <1>4, <1>9, <2>3 DEF Cycle
    <3>2. UNCHANGED <<reservation, readQueue, writeQueue, blocks>>
      BY <2>1, <3>1 DEF Looped, blocks
    <3>3. StateOK' /\ LastOK' /\ Forward /\ Len(node') = Len(node)
      BY <1>3, <1>5, <1>6, <1>9, <2>1, <3>1, <3>2, LaterCycle DEF Looped
    <3>4. RestOK'
      <4>1. worked' \subseteq 1..Len(node) BY <1>3, <1>7, <2>1 DEF Looped, Checked
      <4> QED BY <1>1, <1>3, <1>6, <2>1, <3>3, <4>1 DEF RestOK, Looped, Checked, Nodes
    <3> QED BY <3>3, <3>4 DEF Inv
  <2> QED BY <2>2, <2>3
<1> QED BY <1>8, <1>9

\* A ret at the head of the table, with the other queues empty, is all that is left.
LEMMA Alone ==
  ASSUME StateOK, LastOK, RestOK, Scanning, Instr(Current).op = "ret", scan = 1, Quiet
  PROVE  /\ Len(node) \in 1..Len(node) /\ Instr(Len(node)).op = "ret"
         /\ Len(reservation) = 1 /\ Elements(reservation) = {Len(node)}
         /\ Open(node) = {Len(node)}
<1>1. /\ Len(node) \in Nat /\ Open(node) \subseteq 1..Len(node)
      /\ QueueSets(node, reservation, computeQueue, readQueue, writeQueue)
      /\ \A k : At(node, k) = Instr(k)
  BY StateFacts
<1>2. PICK m \in Nat, l \in Nat : m = Len(node) /\ l = Len(reservation)
  BY <1>1 DEF QueueSets, IsSeq
<1>3. \A i \in 1..l : reservation[i] \in Elements(reservation) BY <1>2 DEF Elements
<1>4. \A i \in 1..l : reservation[i] \in 1..m BY <1>1, <1>2, <1>3 DEF QueueSets
<1>5. l >= 1 /\ Instr(reservation[1]).op = "ret" BY <1>2 DEF Scanning, Current
<1>6. reservation[1] = m BY <1>2, <1>4, <1>5 DEF LastOK, Nodes
<1>7. l = 1
  <2> SUFFICES ASSUME l # 1 PROVE FALSE OBVIOUS
  <2>1. 1 \in 1..l /\ 2 \in 1..l BY <1>5
  <2>2. reservation[1] < reservation[2] BY <1>1, <1>2, <2>1 DEF QueueSets
  <2> QED BY <1>4, <1>6, <2>1, <2>2
<1>8. Elements(reservation) = {m} BY <1>2, <1>6, <1>7 DEF Elements
<1>9. m \in 1..m BY <1>4, <1>5, <1>6
<1>10. Elements(computeQueue) = {} /\ Elements(readQueue) = {} /\ Elements(writeQueue) = {}
  BY DEF Quiet, Elements
<1>11. \A k \in Open(node) : k = m
  BY <1>1, <1>2, <1>8, <1>10 DEF QueueSets, LastOK, Nodes
<1>12. m \in Open(node) BY <1>1, <1>8 DEF QueueSets
<1> QED BY <1>2, <1>5, <1>6, <1>7, <1>8, <1>9, <1>11, <1>12

\* ret: the engine has finished.
LEMMA ReturnKeeps ==
  ASSUME Inv, Return
  PROVE  Inv' /\ Forward
<1>1. StateOK /\ LastOK /\ RestOK BY DEF Inv
<1>2. /\ Scanning /\ Instr(Current).op = "ret" /\ scan = 1 /\ Quiet
      /\ reservation' = Without(reservation, scan)
      /\ running' = FALSE /\ finished' = TRUE /\ scan' = scan + 1
      /\ UNCHANGED <<node, computeQueue, readQueue, writeQueue, register, mem, blocks, aborted, hardware>>
  BY DEF Return
<1>3. PICK m : m = Len(node) OBVIOUS
<1>4. /\ m \in 1..m /\ Instr(m).op = "ret" /\ Len(reservation) = 1
      /\ Elements(reservation) = {m} /\ Open(node) = {m}
  BY <1>1, <1>2, <1>3, Alone
<1>5. /\ IsSeq(node) /\ Len(node) \in Nat /\ \A n \in 1..Len(node) : Formed(node, n)
      /\ QueueSets(node, reservation, computeQueue, readQueue, writeQueue)
      /\ \A n : At(node, n) = Instr(n)
  BY <1>1, StateFacts
<1>6. reservation' = <<>> /\ Elements(<<>>) = {}
  <2>1. PICK p : p = Without(reservation, 1) OBVIOUS
  <2>2. IsSeq(p) /\ Len(p) = 0
    <3>1. IsSeq(reservation) /\ 1 \in 1..Len(reservation) BY <1>4, <1>5 DEF QueueSets
    <3>2. IsSeq(p) /\ Len(p) = Len(reservation) - 1 BY <2>1, <3>1, WithoutIs
    <3> QED BY <1>4, <3>2
  <2>3. p = <<>> BY <2>2 DEF IsSeq
  <2>4. Elements(<<>>) = {} BY DEF Elements
  <2> QED BY <1>2, <2>1, <2>3, <2>4
<1>7. NodesOK(node, {})
  <2>1. Retouched(node, node, {}) BY <1>5, Untouched
  <2>2. PICK W : W = {m} OBVIOUS
  <2>3. NodesOK(node, W) /\ W \subseteq Open(node) BY <1>1, <1>4, <2>2 DEF StateOK
  <2>4. Linked(node, m) BY <1>3, <1>4, <2>3 DEF NodesOK
  <2>5. m \notin Parents(node[m]) BY <1>3, <1>5, <2>4 DEF Linked
  <2>6. CanLeave(node, W, {}) BY <1>4, <2>2, <2>5 DEF CanLeave
  <2> QED BY <2>1, <2>3, <2>6, LeaveKeeps
<1>8. QueuesOK(node, <<>>, computeQueue, readQueue, writeQueue)
  <2>1. \A n \in Open(node) : At(node, n).op = "ret" BY <1>4, <1>5
  <2>2. IsSeq(<<>>) /\ Len(<<>>) = 0 BY DEF IsSeq
  <2>3. QueueSets(node, <<>>, computeQueue, readQueue, writeQueue)
    BY <1>5, <1>6, <2>1, <2>2 DEF QueueSets
  <2> QED BY <2>3, QueueForms
<1>9. StateOK'
  <2>1. Sound(node, register, <<>>, computeQueue, readQueue, writeQueue)
    BY <1>1, <1>6, <1>7, <1>8 DEF StateOK, Sound
  <2> QED BY <1>2, <1>6, <2>1 DEF StateOK, Sound
<1>10. LastOK'
  <2>1. \A n \in Nodes : node[n].committed \/ Instr(n).op = "ret"
    BY <1>4, <1>5 DEF Open, Nodes
  <2>2. \A n : ~Waiting(n)' BY <1>6 DEF Waiting
  <2>3. node' = node /\ Quiet' /\ UNCHANGED blocks BY <1>2 DEF Quiet
  <2> QED BY <1>1, <1>2, <1>6, <2>1, <2>2, <2>3 DEF LastOK, Nodes, Instr, blocks
<1>11. RestOK' BY <1>1, <1>2 DEF RestOK, hardware, Nodes
<1>12. Forward BY <1>1, <1>2, ForwardSame
<1> QED BY <1>9, <1>10, <1>11, <1>12 DEF Inv

\* Steps of the loop that launch nothing, and stuttering steps.
LEMMA IdleKeeps ==
  ASSUME Inv, Skip \/ EndScan \/ UNCHANGED vars
  PROVE  Inv' /\ Forward
<1>1. StateOK /\ LastOK /\ RestOK BY DEF Inv
<1>2. UNCHANGED <<node, queues, register, mem, blocks, status, hardware>>
  BY DEF Skip, EndScan, vars
<1>3. scan' \in Nat BY <1>1 DEF Skip, EndScan, vars, RestOK
<1>4. StateOK' BY <1>1, <1>2 DEF StateOK, queues
<1>5. LastOK'
  BY <1>1, <1>2 DEF LastOK, queues, blocks, status, Nodes, Instr, Waiting, Quiet
<1>6. RestOK' BY <1>1, <1>2, <1>3 DEF RestOK, hardware, Nodes
<1>7. Forward BY <1>1, <1>2, ForwardSame
<1> QED BY <1>4, <1>5, <1>6, <1>7 DEF Inv

\* A node without parents under way has been handed what was returned last.
LEMMA Handed ==
  ASSUME StateOK, NEW n \in 1..Len(node), Parents(node[n]) \cap Open(node) = {},
         At(node, n).op # "phi", NEW d, d = DepsAt(node, n), NEW j \in 1..Len(d)
  PROVE  /\ WriterBefore(node, d[j], n) \notin Open(node)
         /\ node[n].ops[j] = WriterBefore(node, d[j], n)
<1>1. Linked(node, n) /\ Filled(node, n) BY DEF StateOK, NodesOK
<1>2. PICK w : w = WriterBefore(node, d[j], n) OBVIOUS
<1>3. w \notin Open(node)
  <2> SUFFICES ASSUME w \in Open(node) PROVE FALSE OBVIOUS
  <2>1. j \in DOMAIN node[n].producers BY <1>1, <1>2 DEF Filled
  <2>2. node[n].producers[j] = w BY <1>1, <1>2, <2>1 DEF Linked
  <2>3. w \in Parents(node[n]) BY <2>1, <2>2 DEF Parents
  <2> QED BY <2>3
<1>4. node[n].ops[j] = w BY <1>1, <1>2, <1>3 DEF Filled
<1> QED BY <1>2, <1>3, <1>4

\* A branch that is launched is the last node, and the registers it reads hold what
\* its operands are.
LEMMA BranchOperands ==
  ASSUME StateOK, LastOK, RestOK, Launchable, NEW n, n = Current, Instr(n).op = "br"
  PROVE  n = Len(node) /\ Operands(n) = node[n].ops
<1>1. /\ n \in Elements(reservation) /\ n \in 1..Len(node)
      /\ Parents(node[n]) \cap Open(node) = {}
  BY LaunchFacts
<1>2. n = Len(node) BY <1>1 DEF LastOK, Nodes, Waiting
<1>3. Len(node) \in Nat /\ \A k : At(node, k) = Instr(k) BY StateFacts
<1>4. Formed(node, n) BY <1>1 DEF StateOK, NodesOK
<1>5. Instr(n).ret = None /\ DepsAt(node, n) \in Seq(Regs)
  BY <1>3, <1>4, NodeInstr
<1>6. PICK d : d = DepsAt(node, n) OBVIOUS
<1>7. Operands(n) = [j \in 1..Len(d) |-> register[d[j]]]
  BY <1>6 DEF Operands, DepsAt, At, Instr
<1>8. node[n].ops \in [1..Len(d) -> {Unset} \cup 0..Len(node)] BY <1>4, <1>6 DEF Formed
<1>9. ASSUME NEW j \in 1..Len(d) PROVE register[d[j]] = node[n].ops[j]
  <2>1. PICK r \in Regs : r = d[j] BY <1>5, <1>6
  <2>2. PICK w : w = WriterBefore(node, r, n) OBVIOUS
  <2>3. w \notin Open(node) /\ node[n].ops[j] = w
    BY <1>1, <1>3, <1>6, <2>1, <2>2, Handed
  <2>4. node[n].ops[j] = w BY <2>3
  <2>5. PICK A : A = Writers(node, r) OBVIOUS
  <2>6. register[r] = Latest(A) BY <2>5 DEF StateOK, RegistersOK, Writers
  <2>7. A \subseteq 1..Len(node) BY <2>5 DEF Writers
  <2>8. n \in Nat /\ n >= 1 BY <1>1, <1>3
  <2>9. w \in 0..(n - 1) BY <2>2, <2>8, WriterIs
  <2>10. \A m \in 1..(n - 1) : At(node, m).ret = r => m <= w /\ w # 0
    BY <2>2, <2>8, WriterIs
  <2>11. ASSUME NEW m \in A PROVE m <= w /\ w # 0
    <3>1. m \in 1..Len(node) /\ At(node, m).ret = r BY <2>5 DEF Writers
    <3>2. m # n BY <1>3, <1>5, <3>1, CodeAssumption
    <3>3. m \in 1..(n - 1) BY <1>2, <1>3, <3>1, <3>2
    <3> QED BY <2>10, <3>1, <3>3
  <2>12. CASE w = 0
    <3>1. A = {} BY <2>11, <2>12
    <3> QED BY <2>1, <2>4, <2>6, <2>12, <3>1 DEF Latest
  <2>13. CASE w # 0
    <3>1. At(node, w).ret = r BY <2>2, <2>8, <2>13, WriterIs
    <3>2. w \in 1..Len(node) BY <1>2, <1>3, <2>9, <2>13
    <3>3. w \in A BY <2>3, <2>5, <3>1, <3>2 DEF Writers
    <3>4. Latest(A) = w BY <1>3, <2>7, <2>11, <3>3, LatestIs
    <3> QED BY <2>1, <2>4, <2>6, <3>4
  <2> QED BY <2>12, <2>13
<1> QED BY <1>2, <1>7, <1>8, <1>9

\* The state when branch n has brought block b in.
Branched(n, b, K, M, res) ==
  /\ Sound(M, register, res, computeQueue, readQueue, writeQueue)
  /\ Elements(res) = (Elements(reservation) \ {n}) \cup Fresh(b)
  /\ Len(M) = Len(K) /\ SameCode(K, M, Len(K))

\* A branch leaves the table, and block b comes in.
LEMMA BranchSound ==
  ASSUME StateOK, LastOK, RestOK, Launchable, NEW n, n = Current, Instr(n).op = "br",
         NEW b \in Blocks, NEW K, Extended(K, b),
         NEW M, M = [K EXCEPT ![n].ops = Operands(n), ![n].committed = TRUE],
         NEW res, res = Without(reservation, scan) \o NewNumbers(b)
  PROVE  Branched(n, b, K, M, res)
<1>1. n = Len(node) /\ Operands(n) = node[n].ops BY BranchOperands
<1>2. /\ n \in Elements(reservation) /\ n \in Open(node) /\ n \in 1..Len(node)
      /\ Parents(node[n]) \cap Open(node) = {}
  BY LaunchFacts
<1>3. /\ Len(node) \in Nat /\ Open(node) \subseteq 1..Len(node)
      /\ QueueSets(node, reservation, computeQueue, readQueue, writeQueue)
      /\ \A k : At(node, k) = Instr(k)
  BY StateFacts
<1>4. /\ WithBlock(K, b) /\ NodesOK(K, Table2(b)) /\ RegistersOK(K, register)
      /\ Open(K) = Open(node) \cup Fresh(b)
  BY DEF Extended
<1>5. /\ Len(Code[b]) \in Nat
      /\ \A k \in 1..Len(node) : At(K, k) = Instr(k)
  BY <1>4, BlockCode
<1>6. PICK m \in Nat, z \in Nat : m = Len(node) /\ z = Len(Code[b]) BY <1>3, <1>5
<1>7. /\ IsSeq(K) /\ Len(K) = m + z /\ K[n] = node[n] /\ n \in 1..Len(K)
      /\ \A k \in 1..Len(K) : Formed(K, k)
  <2>1. IsSeq(K) /\ Len(K) = m + z /\ K[n] = node[n] BY <1>2, <1>4, <1>6 DEF WithBlock
  <2>2. n \in 1..Len(K) BY <1>2, <1>6, <2>1
  <2> QED BY <1>4, <2>1, <2>2 DEF NodesOK
<1>8. Fresh(b) = (m + 1)..(m + z) BY <1>6 DEF Fresh
<1>9. Retouched(K, M, {n})
  <2>1. PICK c : c = K[n] OBVIOUS
  <2>2. IsNode(c) /\ c.cycle \in Nat BY <1>7, <2>1 DEF Formed
  <2>3. PICK d : d = [c EXCEPT !.ops = c.ops, !.committed = TRUE] OBVIOUS
  <2>4. /\ IsNode(d) /\ Same(c, d) /\ d.active = c.active /\ d.ops = c.ops
        /\ d.cycle = c.cycle /\ d.committed = TRUE
    BY <2>2, <2>3 DEF IsNode, Same
  <2>5. M = [K EXCEPT ![n] = d]
    <3>1. Operands(n) = c.ops BY <1>1, <1>7, <2>1
    <3> HIDE DEF Operands
    <3> QED BY <1>7, <2>1, <2>3, <3>1 DEF IsSeq
  <2>6. At(K, n).op = "br" BY <1>2, <1>5
  <2> QED BY <1>7, <2>1, <2>2, <2>4, <2>5, <2>6, Touch
<1>10. /\ Elements(res) = (Elements(reservation) \ {n}) \cup Fresh(b)
       /\ IsSeq(res) /\ \A j, k \in 1..Len(res) : j < k => res[j] < res[k]
  <2>1. PICK p : p = Without(reservation, scan) OBVIOUS
  <2>2. /\ IsSeq(p) /\ Elements(p) = Elements(reservation) \ {n}
        /\ \A j, k \in 1..Len(p) : j < k => p[j] < p[k]
    BY <2>1, LaunchTable
  <2>3. Elements(p) \subseteq 1..m BY <1>3, <1>6, <2>2 DEF QueueSets
  <2>4. PICK s : s = NewNumbers(b) OBVIOUS
  <2>5. s = [k \in 1..z |-> m + k] BY <1>6, <2>4 DEF NewNumbers
  <2>6. Len(s) = z /\ IsSeq(s) /\ \A j \in 1..z : s[j] = m + j BY <2>5 DEF IsSeq
  <2>7. Joined(p, s, res) BY <2>1, <2>2, <2>4, <2>6, Join
  <2>8. Grown(p, m, z, res) BY <2>2, <2>3, <2>6, <2>7, TableGrows
  <2> QED BY <1>8, <2>2, <2>8 DEF Grown
<1>11. NodesOK(M, Elements(res))
  <2>1. Table2(b) \subseteq Open(K) BY <1>3, <1>4 DEF Table2, QueueSets
  <2>2. \A x \in Parents(K[n]) : x \in 1..(n - 1) BY <1>4, <1>7 DEF NodesOK, Linked
  <2>3. Parents(K[n]) \cap Fresh(b) = {} BY <1>1, <1>6, <1>8, <2>2
  <2>4. Parents(K[n]) \cap Open(K) = {} BY <1>2, <1>4, <1>7, <2>3
  <2>5. n \notin Fresh(b) BY <1>1, <1>6, <1>8
  <2>6. CanLeave(K, Table2(b), Elements(res))
    BY <1>10, <2>4 DEF CanLeave, Table2
  <2> QED BY <1>4, <1>9, <2>1, <2>6, LeaveKeeps
<1>12. RegistersOK(M, register) BY <1>4, <1>7, <1>9, LeaveRegisters
<1>13. Len(M) = Len(K) /\ SameCode(K, M, Len(K)) /\ Open(M) = Open(K) \ {n}
  BY <1>9 DEF Retouched
<1>14. \A k \in 1..Len(node) : At(M, k) = At(node, k)
  <2>1. Len(K) \in Nat BY <1>7
  <2>2. \A k \in 1..Len(K) : At(M, k) = At(K, k) BY <1>13, <2>1, Unmoved
  <2>3. \A k \in 1..Len(node) : k \in 1..Len(K) BY <1>6, <1>7
  <2> QED BY <1>3, <1>5, <2>2, <2>3
<1>15. QueueSets(M, res, computeQueue, readQueue, writeQueue)
  <2>1. \A k \in Open(node) : At(M, k) = At(node, k) BY <1>3, <1>14
  <2>3. \A k \in Fresh(b) : k \notin 1..Len(node) BY <1>6, <1>8
  <2>2. Open(M) = (Open(node) \ {n}) \cup Fresh(b) BY <1>2, <1>4, <1>13, <2>3
  <2>4. /\ IsSeq(computeQueue) /\ IsSeq(readQueue) /\ IsSeq(writeQueue)
        /\ Distinct(computeQueue) /\ Distinct(readQueue) /\ Distinct(writeQueue)
        /\ Elements(reservation) \subseteq Open(node)
        /\ Elements(computeQueue) \subseteq Open(node)
        /\ Elements(readQueue) \subseteq Open(node) /\ Elements(writeQueue) \subseteq Open(node)
    BY <1>3 DEF QueueSets
  <2>5. \A k \in Elements(computeQueue) \cup Elements(readQueue) \cup Elements(writeQueue) :
          k \notin Elements(reservation)
    BY <1>3 DEF QueueSets
  <2>6. /\ \A k \in Elements(computeQueue) : At(node, k).op \in {"op", "phi", "gep"}
        /\ \A k \in Elements(readQueue) : At(node, k).op = "load"
        /\ \A k \in Elements(writeQueue) : At(node, k).op = "store"
        /\ \A k \in Open(node) :
             At(node, k).op # "ret" =>
               k \in Elements(reservation) \cup Elements(computeQueue)
                       \cup Elements(readQueue) \cup Elements(writeQueue)
    BY <1>3 DEF QueueSets
  <2>7. \A k \in Elements(computeQueue) \cup Elements(readQueue) \cup Elements(writeQueue) :
          k \in Open(M) /\ k \notin Elements(res)
    BY <1>2, <1>3, <1>10, <2>2, <2>3, <2>4, <2>5
  <2>8. \A k \in Open(M) :
          At(M, k).op # "ret" =>
            k \in Elements(res) \cup Elements(computeQueue)
                    \cup Elements(readQueue) \cup Elements(writeQueue)
    BY <1>10, <2>1, <2>2, <2>6
  <2>9. Elements(res) \subseteq Open(M) BY <1>10, <2>2, <2>4
  <2> QED BY <1>10, <2>1, <2>4, <2>6, <2>7, <2>8, <2>9 DEF QueueSets
<1>16. QueuesOK(M, res, computeQueue, readQueue, writeQueue) BY <1>15, QueueForms
<1> QED BY <1>10, <1>11, <1>12, <1>13, <1>16 DEF Sound, Branched

\* A branch.
LEMMA BranchKeeps ==
  ASSUME Inv, NEW b \in Blocks, Branch(b)
  PROVE  Inv' /\ Forward
<1>1. StateOK /\ LastOK /\ RestOK BY DEF Inv
<1>2. PICK n, K, M, res :
        /\ n = Current /\ K = ScheduleBB(b, currBB, node)
        /\ M = node' /\ res = reservation'
  OBVIOUS
<1>3. /\ Launchable /\ Instr(n).op = "br"
      /\ entered < MaxBlocks \/ Code[b][Len(Code[b])].op = "ret"
      /\ M = [K EXCEPT ![n].ops = Operands(n), ![n].committed = TRUE]
      /\ res = Without(reservation, scan) \o NewNumbers(b)
      /\ prevBB' = currBB /\ currBB' = b /\ entered' = entered + 1
      /\ UNCHANGED <<computeQueue, readQueue, writeQueue, register, mem, status, scan, hardware>>
  BY <1>2 DEF Branch, CanBranch
<1>4. currBB \in Blocks /\ entered \in Nat BY <1>1 DEF LastOK
<1>5. Extended(K, b) BY <1>1, <1>2, <1>4, ScheduleKeeps
<1>6. /\ Sound(M, register, res, computeQueue, readQueue, writeQueue)
      /\ Elements(res) = (Elements(reservation) \ {n}) \cup Fresh(b)
      /\ Len(M) = Len(K) /\ SameCode(K, M, Len(K))
  <2>1. Branched(n, b, K, M, res)
    <3> HIDE DEF Launchable, Operands, Without, NewNumbers
    <3> QED BY <1>1, <1>2, <1>3, <1>5, BranchSound
  <2> QED BY <2>1 DEF Branched
<1>7. StateOK' BY <1>2, <1>3, <1>6 DEF StateOK, Sound
<1>8. n = Len(node) BY <1>1, <1>2, <1>3, BranchOperands
<1>9. n \in 1..Len(node) /\ Len(node) \in Nat
  BY <1>1, <1>2, <1>3, LaunchFacts, StateFacts
<1>10. WithBlock(K, b) BY <1>5 DEF Extended
<1>11. Len(K) \in Nat /\ Len(K) \in Fresh(b) BY <1>1, <1>10, BlockLast
<1>12. LastOK'
  <2>1. ~finished BY <1>1, <1>3, NotFinished DEF Launchable
  <2>2. ~finished' BY <1>3, <2>1 DEF status
  <2>3. ASSUME NEW k \in 1..Len(node)
        PROVE  Instr(k).op # "ret" /\ (Instr(k).op = "br" => k \notin Elements(res))
    <3>1. Instr(k).op # "ret" BY <1>1, <1>3, <1>8 DEF LastOK, Nodes
    <3>2. k \notin Fresh(b) BY <1>9 DEF Fresh
    <3>3. Instr(k).op = "br" /\ k \in Elements(reservation) => k = n
      BY <1>1, <1>8 DEF LastOK, Nodes, Waiting
    <3> QED BY <1>6, <3>1, <3>2, <3>3
  <2>4. entered <= MaxBlocks BY <1>1, <1>3, <1>8 DEF LastOK
  <2>5. \/ entered' <= MaxBlocks
        \/ entered' = MaxBlocks + 1 /\ Code[b][Len(Code[b])].op = "ret"
    BY <1>3, <1>4, <2>4, ThresholdAssumption
  <2>6. Len(K) \in Elements(reservation') BY <1>2, <1>6, <1>11
  <2> QED BY <1>1, <1>2, <1>3, <1>4, <1>6, <1>10, <2>2, <2>3, <2>5, <2>6, LastWithBlock
<1>13. RestOK'
  <2>1. PICK l \in Nat, m \in Nat : l = Len(node') /\ m = Len(node)
    BY <1>2, <1>6, <1>9, <1>11
  <2>2. l >= m BY <1>2, <1>6, <1>11, <2>1 DEF Fresh
  <2>3. 1..m \subseteq 1..l BY <2>2
  <2>4. \A a \in DOMAIN mem' : mem'[a] \in 1..l BY <1>1, <1>3, <2>1, <2>3 DEF RestOK, Nodes
  <2>5. worked' \subseteq 1..l BY <1>1, <1>3, <2>1, <2>3 DEF RestOK, Nodes, hardware
  <2> QED BY <1>1, <1>3, <2>1, <2>4, <2>5 DEF RestOK, hardware, Nodes
<1>14. Forward BY <1>1, <1>3, ForwardSame
<1> QED BY <1>7, <1>12, <1>13, <1>14 DEF Inv

(***************************************************************************)
(* The theorems                                                            *)
(***************************************************************************)

\* The engine before it is started.
LEMMA InitKeeps ==
  ASSUME Init
  PROVE  Inv
<1>1. /\ node = <<>> /\ reservation = <<>> /\ computeQueue = <<>>
      /\ readQueue = <<>> /\ writeQueue = <<>> /\ register = [r \in Regs |-> 0]
  BY DEF Init
<1>2. Len(<<>>) = 0 /\ IsSeq(<<>>) BY DEF IsSeq
<1>3. Open(<<>>) = {} /\ Elements(<<>>) = {} BY DEF Open, Elements
<1>4. NodesOK(<<>>, Elements(<<>>)) BY <1>2 DEF NodesOK
<1>5. RegistersOK(<<>>, register)
  <2>1. ASSUME NEW r \in Regs
        PROVE  Latest({m \in (1..Len(<<>>)) \ Open(<<>>) : At(<<>>, m).ret = r}) = 0
    <3>1. {m \in (1..Len(<<>>)) \ Open(<<>>) : At(<<>>, m).ret = r} = {} BY <1>2
    <3> QED BY <3>1 DEF Latest
  <2> QED BY <1>1, <2>1 DEF RegistersOK
<1>6. QueuesOK(<<>>, <<>>, <<>>, <<>>, <<>>)
  <2>1. QueueSets(<<>>, <<>>, <<>>, <<>>, <<>>) BY <1>2, <1>3 DEF QueueSets, Distinct
  <2> QED BY <2>1, QueueForms
<1>7. StateOK BY <1>1, <1>4, <1>5, <1>6 DEF StateOK
<1>8. LastOK
  BY <1>1, <1>2, CodeAssumption, ThresholdAssumption DEF LastOK, Init, Nodes
<1>9. RestOK BY <1>1, <1>2 DEF RestOK, Init, Nodes
<1> QED BY <1>7, <1>8, <1>9 DEF Inv

\* Every step keeps the invariant and sets no register back.
LEMMA NextKeeps ==
  ASSUME Inv, [Next]_vars
  PROVE  Inv' /\ Forward
<1>1. CASE Initialize
  <2>1. Cycle(~running /\ ~finished /\ ~aborted) BY <1>1 DEF Initialize
  <2>2. ~finished BY <2>1 DEF Cycle
  <2> QED BY <2>1, <2>2, CycleKeeps
<1>2. CASE Tick
  <2>1. Cycle(running) BY <1>2 DEF Tick
  <2>2. running BY <2>1 DEF Cycle
  <2>3. ~finished BY <2>2, NotFinished DEF Inv
  <2> QED BY <2>1, <2>3, CycleKeeps
<1>3. CASE LaunchLoad BY <1>3, LaunchLoadKeeps
<1>4. CASE LaunchStore BY <1>4, LaunchStoreKeeps
<1>5. CASE LaunchImmediate BY <1>5, LaunchImmediateKeeps
<1>6. CASE LaunchCompute BY <1>6, LaunchComputeKeeps
<1>7. ASSUME NEW b \in Blocks, Branch(b) PROVE Inv' /\ Forward BY <1>7, BranchKeeps
<1>8. CASE Return BY <1>8, ReturnKeeps
<1>9. CASE Skip \/ EndScan \/ UNCHANGED vars BY <1>9, IdleKeeps
<1>10. ASSUME NEW i, ServeRead(i) PROVE Inv' /\ Forward BY <1>10, ServeReadKeeps
<1>11. ASSUME NEW i, ReadCommit(i) PROVE Inv' /\ Forward BY <1>11, ReadCommitKeeps
<1>12. ASSUME NEW i, ServeWrite(i) PROVE Inv' /\ Forward BY <1>12, ServeWriteKeeps
<1>13. ASSUME NEW i, WriteCommit(i) PROVE Inv' /\ Forward BY <1>13, WriteCommitKeeps
<1> QED
  BY <1>1, <1>2, <1>3, <1>4, <1>5, <1>6, <1>7, <1>8, <1>9, <1>10, <1>11, <1>12, <1>13
  DEF Next, Scan, Turn, Reads, Writes

\* The nodes, registers and queues of the engine are sound in every state.
THEOREM EngineInvariant == Spec => []Inv
<1>1. Init => Inv BY InitKeeps
<1>2. Inv /\ [Next]_vars => Inv' BY NextKeeps
<1> QED BY <1>1, <1>2, PTL DEF Spec

\* A node that has not committed, and is no ret, is in exactly one queue.
LEMMA OneQueue ==
  ASSUME StateOK, NEW n \in Open(node), Instr(n).op # "ret"
  PROVE  Cardinality({q \in {"w", "c", "r", "s"} :
            n \in CASE q = "w" -> Elements(reservation) [] q = "c" -> Elements(computeQueue)
                    [] q = "r" -> Elements(readQueue) [] q = "s" -> Elements(writeQueue)}) = 1
<1> DEFINE E(q) == CASE q = "w" -> Elements(reservation) [] q = "c" -> Elements(computeQueue)
                     [] q = "r" -> Elements(readQueue) [] q = "s" -> Elements(writeQueue)
           Q == {q \in {"w", "c", "r", "s"} : n \in E(q)}
<1>1. /\ QueueSets(node, reservation, computeQueue, readQueue, writeQueue)
      /\ \A k : At(node, k) = Instr(k)
  BY StateFacts
<1>2. PICK W, C, R, S : /\ W = Elements(reservation) /\ C = Elements(computeQueue)
                        /\ R = Elements(readQueue) /\ S = Elements(writeQueue)
  OBVIOUS
<1>3. E("w") = W /\ E("c") = C /\ E("r") = R /\ E("s") = S BY <1>2
<1>4. n \in W \/ n \in C \/ n \in R \/ n \in S BY <1>1, <1>2 DEF QueueSets
<1>5. /\ n \in W => n \notin C /\ n \notin R /\ n \notin S
      /\ n \in C => n \notin R /\ n \notin S
      /\ n \in R => n \notin S
  BY <1>1, <1>2 DEF QueueSets
<1> HIDE DEF E
<1>6. \E x : Q = {x}
  <2>1. CASE n \in W
    <3>1. Q = {"w"} BY <1>3, <1>5, <2>1
    <3> QED BY <3>1
  <2>2. CASE n \in C
    <3>1. Q = {"c"} BY <1>3, <1>5, <2>2
    <3> QED BY <3>1
  <2>3. CASE n \in R
    <3>1. Q = {"r"} BY <1>3, <1>5, <2>3
    <3> QED BY <3>1
  <2>4. CASE n \in S
    <3>1. Q = {"s"} BY <1>3, <1>5, <2>4
    <3> QED BY <3>1
  <2> QED BY <1>4, <2>1, <2>2, <2>3, <2>4
<1> HIDE DEF Q
<1>7. Cardinality(Q) = 1 BY <1>6, FS_Singleton
<1> QED BY <1>7 DEF Q, E

\* Nodes, operands and registers in range: every node is in at most one queue and
\* one that is in none has committed or is the ret, whatever order scheduleBB(),
\* tick() and the commits come in.
THEOREM TypeCorrect == Spec => []TypeOK
<1>1. Inv => TypeOK
  <2> SUFFICES ASSUME Inv PROVE TypeOK OBVIOUS
  <2>1. StateOK /\ LastOK /\ RestOK BY DEF Inv
  <2>2. /\ Len(node) \in Nat /\ Open(node) \subseteq 1..Len(node)
        /\ QueueSets(node, reservation, computeQueue, readQueue, writeQueue)
        /\ \A k : At(node, k) = Instr(k)
    BY <2>1, StateFacts
  <2>3. Elements(reservation) \cup Elements(computeQueue) \cup Elements(readQueue)
          \cup Elements(writeQueue) \subseteq Nodes
    BY <2>2 DEF QueueSets, Nodes
  <2>4. ASSUME NEW n \in Nodes
        PROVE  /\ node[n].active \in Nat
               /\ node[n].committed \/ n \in Open(node)
               /\ \A j \in DOMAIN node[n].ops : node[n].ops[j] \in {Unset} \cup 0..Len(node)
    <3>1. Formed(node, n) /\ Counted(node, n) BY <2>1 DEF StateOK, NodesOK, Nodes
    <3>2. /\ node[n].others \in Seq(Nat)
          /\ DOMAIN node[n].producers \subseteq 1..Len(DepsAt(node, n))
          /\ node[n].ops \in [1..Len(DepsAt(node, n)) -> {Unset} \cup 0..Len(node)]
      BY <3>1 DEF Formed
    <3>3. Len(DepsAt(node, n)) \in Nat
      <4>1. DepsAt(node, n) \in Seq(Regs) BY <3>1, NodeInstr
      <4> QED BY <4>1
    <3>4. Len(node[n].others) \in Nat BY <3>2
    <3>5. PICK c, d : c = node[n] /\ d = Len(DepsAt(node, n)) OBVIOUS
    <3>6. Links(c, Open(node)) \in Nat BY <3>2, <3>3, <3>4, <3>5, LinkCount
    <3>7. node[n].active \in Nat BY <3>1, <3>5, <3>6 DEF Counted
    <3>8. node[n].committed \/ n \in Open(node) BY DEF Open, Nodes
    <3> QED BY <3>2, <3>7, <3>8
  <2>5. register \in [Regs -> 0..Len(node)] BY <2>1, <2>2, RegistersType DEF StateOK
  <2>6. entered \in 0..(MaxBlocks + 1) BY <2>1, ThresholdAssumption DEF LastOK
  <2> QED BY <2>1, <2>3, <2>4, <2>5, <2>6, OneQueue DEF TypeOK, RestOK
<1> QED BY <1>1, EngineInvariant, PTL

\* _ActiveParents is exact: no parent is signalled twice or forgotten by
\* signalChildren(), however launches, blocks and commits interleave.
THEOREM ParentsExact == Spec => []ActiveParentsExact
<1>1. Inv => ActiveParentsExact
  <2> SUFFICES ASSUME Inv, NEW n \in Nodes, Waiting(n)
               PROVE  node[n].active = Links(node[n], {m \in Nodes : ~node[m].committed})
                                       + (IF Instr(n).op = "ret" THEN 1 ELSE 0)
    BY DEF ActiveParentsExact
  <2>1. Counted(node, n) BY DEF Inv, StateOK, NodesOK, Nodes
  <2>2. Open(node) = {m \in Nodes : ~node[m].committed} BY DEF Open, Nodes
  <2> QED BY <2>1, <2>2 DEF Counted, At, Instr
<1> QED BY <1>1, EngineInvariant, PTL

\* Every node but a phi is launched with the operands of sequential execution, for
\* every program in SSA form: findParent() finds the right producers although
\* nodes of several iterations are under way, and fetchDependency() hands over
\* the right values.
THEOREM OperandsInOrder == Spec => []OperandsInProgramOrder
<1>1. Inv => OperandsInProgramOrder
  <2> SUFFICES ASSUME Inv, NEW n \in Nodes, ~Waiting(n), Instr(n).op # "phi",
                      NEW j \in 1..Len(Dependencies(Instr(n), node[n].prev))
               PROVE  node[n].ops[j]
                        = LastWriter(Dependencies(Instr(n), node[n].prev)[j], n)
    BY DEF OperandsInProgramOrder
  <2>1. StateOK BY DEF Inv
  <2>2. \A k : At(node, k) = Instr(k) BY <2>1, StateFacts
  <2>3. PICK d : d = DepsAt(node, n) OBVIOUS
  <2>4. d = Dependencies(Instr(n), node[n].prev) BY <2>2, <2>3 DEF DepsAt
  <2>5. Parents(node[n]) \cap Open(node) = {} BY <2>1 DEF StateOK, NodesOK, Nodes, Ready, Waiting
  <2>6. node[n].ops[j] = WriterBefore(node, d[j], n)
    BY <2>1, <2>2, <2>3, <2>4, <2>5, Handed DEF Nodes
  <2>7. WriterBefore(node, d[j], n) = LastWriter(d[j], n)
    BY DEF WriterBefore, LastWriter, At, Instr
  <2> QED BY <2>4, <2>6, <2>7
<1> QED BY <1>1, EngineInvariant, PTL

\* A register is never written by an older instance of its instruction after a
\* younger one, although the instances are under way together.
THEOREM RegistersInOrder == Spec => RegisterWritesInOrder
<1>1. Inv /\ [Next]_vars => [\A r \in Regs : register'[r] >= register[r]]_vars
  BY NextKeeps DEF Forward
<1> QED BY <1>1, EngineInvariant, PTL DEF Spec, RegisterWritesInOrder

\* finish() is called with nothing under way: the ret in tick() was alone.
THEOREM FinishedIsDone == Spec => []FinishedMeansDone
<1>1. Inv => FinishedMeansDone BY DEF Inv, LastOK, FinishedMeansDone
<1> QED BY <1>1, EngineInvariant, PTL

(***************************************************************************)
(* Sequential results: what the values of loads and stores, the memory and *)
(* the operands of phis are, for programs whose accesses and phis are in   *)
(* order.                                                                  *)
(***************************************************************************)

\* The address of an access in sequential execution, which is what the last earlier
\* node that returns to the pointer makes it, and the stores to address a before
\* node n.
AddressOf(N, n) == Addr(At(N, n).ptr, WriterBefore(N, At(N, n).ptr, n))
StoresBefore(N, a, n) ==
  {m \in 1..(n - 1) : At(N, m).op = "store" /\ AddressOf(N, m) = a}

\* The stores to address a that the memory has served.
Served(N, a) ==
  {m \in 1..Len(N) : At(N, m).op = "store" /\ AddressOf(N, m) = a /\ N[m].value # Unset}

\* A request is served after it has left the table and before it commits.
ValuesOK(N, W) ==
  \A n \in 1..Len(N) :
    /\ n \in W => N[n].value = Unset
    /\ At(N, n).op \in {"load", "store"} /\ n \notin Open(N) => N[n].value # Unset

\* The memory holds the last store that was served.
MemoryOK(N, words) ==
  \A a : (IF a \in DOMAIN words THEN words[a] ELSE 0) = Latest(Served(N, a))

\* The stores under way before node n, through its register and to its address.
Conflicts(N, n) ==
  {m \in StoresVia(N, At(N, n).ptr, n) \cap Open(N) : AddressOf(N, m) = AddressOf(N, n)}

\* A load is linked to a store through its register that comes after every one of
\* those.
RawLinked(N, n) ==
  \A m \in Conflicts(N, n) :
    \E k \in 1..Len(N[n].others) :
      N[n].others[k] \in StoresVia(N, At(N, n).ptr, n) /\ m <= N[n].others[k]

\* Every load is linked so, and what it has read is the last earlier store.
LoadsOK(N) ==
  \A n \in 1..Len(N) : At(N, n).op = "load" =>
    /\ RawLinked(N, n)
    /\ N[n].value # Unset => N[n].value = Latest(StoresBefore(N, AddressOf(N, n), n))

AccessesOK(N, W, words) == ValuesOK(N, W) /\ MemoryOK(N, words) /\ LoadsOK(N)

\* A phi was launched with the operands of sequential execution.
PhisOK(N, W) ==
  \A n \in 1..Len(N) : At(N, n).op = "phi" /\ n \notin W =>
    \A j \in 1..Len(DepsAt(N, n)) : N[n].ops[j] = WriterBefore(N, DepsAt(N, n)[j], n)

\* A store through the register of a load is not launched before an earlier one has
\* committed if one of the two is to the address of the load.
Ordered(N, W) ==
  \A n \in 1..Len(N) : At(N, n).op = "load" =>
    \A m, k \in StoresVia(N, At(N, n).ptr, n) :
      m < k /\ m \in Open(N) /\ k \notin W =>
        AddressOf(N, n) \notin {AddressOf(N, m), AddressOf(N, k)}

\* Then detectRAW() finds a store that comes after all those that are under way to the
\* address of the load, although it does not know addresses, and looks at the table
\* first and at the stores that were sent later.
LEMMA RawFinds ==
  ASSUME StateOK, NEW b \in Blocks, NEW K, WithBlock(K, b), NEW i \in 1..Len(Code[b]),
         NEW n, n = Len(node) + i, At(K, n).op = "load",
         NEW V, Ordered(K, V), \A k \in 1..Len(node) : k \in V => k \in Elements(reservation),
         NEW S, S = StoresVia(K, At(K, n).ptr, n), NEW m \in Conflicts(K, n),
         NEW f, f = DetectRAW(Table(i), S)
  PROVE  \E k \in S : f = <<k>> /\ m <= k
<1> DEFINE r == At(K, n).ptr
<1>1. /\ Len(node) \in Nat /\ Len(Code[b]) \in Nat
      /\ \A k \in 1..Len(node) : At(K, k) = Instr(k) /\ At(node, k) = Instr(k)
      /\ \A k \in 1..Len(node) : k \in Open(K) <=> k \in Open(node)
  BY BlockCode
<1>2. PICK l \in Nat : l = Len(node) BY <1>1
<1>3. PICK q, w : q = Table(i) /\ w = writeQueue OBVIOUS
<1>4. /\ IsSeq(q)
      /\ \A j, k \in 1..Len(q) : j <= k => q[j] \in Nat /\ q[k] \in Nat /\ q[j] <= q[k]
      /\ \A k : k \in Elements(q) <=>
                  k \in Elements(reservation) \/ k \in (l + 1)..(l + i - 1)
  BY <1>1, <1>2, <1>3, TableIs
<1>5. /\ QueueSets(node, reservation, computeQueue, readQueue, writeQueue)
      /\ Open(node) \subseteq 1..Len(node)
  BY StateFacts
<1>6. /\ IsSeq(w) /\ Elements(w) \subseteq Open(node) /\ Elements(reservation) \subseteq Open(node)
      /\ \A k \in Elements(w) : k \notin Elements(reservation)
  BY <1>3, <1>5 DEF QueueSets
<1>7. \A k \in S : k \in 1..(l + i - 1) /\ k \in Nat /\ At(K, k).op = "store" /\ At(K, k).ptr = r
  BY <1>1, <1>2 DEF StoresVia
<1>8. m \in S /\ m \in Open(K) /\ AddressOf(K, m) = AddressOf(K, n) BY DEF Conflicts
<1>9. m \in Elements(q) \/ m \in Elements(w)
  <2>1. CASE m \in 1..l
    <3>1. m \in Open(node) /\ At(node, m).op = "store" BY <1>1, <1>2, <1>7, <1>8, <2>1
    <3>2. m \notin Elements(computeQueue) /\ m \notin Elements(readQueue)
      BY <1>5, <3>1 DEF QueueSets
    <3>3. m \in Elements(reservation) \/ m \in Elements(w)
      BY <1>3, <1>5, <3>1, <3>2 DEF QueueSets
    <3> QED BY <1>4, <3>3
  <2>2. CASE m \notin 1..l
    <3>1. m \in (l + 1)..(l + i - 1) BY <1>7, <1>8, <2>2
    <3> QED BY <1>4, <3>1
  <2> QED BY <2>1, <2>2
<1>10. ASSUME NEW y \in S, m \in Elements(w), ~(m <= y),
              y \in Elements(q) \/ y \in Elements(w)
       PROVE  FALSE
  <2>1. m \in 1..l /\ m \notin Elements(reservation) BY <1>2, <1>5, <1>6, <1>10
  <2>2. m \notin V BY <1>2, <2>1
  <2>3. y < m /\ y \notin (l + 1)..(l + i - 1) /\ y \in 1..l BY <1>7, <1>8, <1>10, <2>1
  <2>4. y \in Open(K) BY <1>1, <1>2, <1>4, <1>6, <1>10, <2>3
  <2>5. n \in 1..Len(K) BY <1>1, <1>2 DEF WithBlock
  <2>6. AddressOf(K, n) \notin {AddressOf(K, y), AddressOf(K, m)}
    BY <1>8, <2>2, <2>3, <2>4, <2>5 DEF Ordered
  <2> QED BY <1>8, <2>6
<1>11. f = FirstFound(Last(q, S), Last(w, S), <<>>) BY <1>3 DEF DetectRAW
<1>12. CASE Last(q, S) = <<>> /\ \A j \in 1..Len(q) : q[j] \notin S
  <2>1. m \notin Elements(q) BY <1>8, <1>12 DEF Elements
  <2>2. m \in Elements(w) BY <1>9, <2>1
  <2>3. PICK j \in 1..Len(w) : w[j] = m BY <2>2 DEF Elements
  <2>4. PICK k \in 1..Len(w) : Last(w, S) = <<w[k]>> /\ w[k] \in S BY <1>6, <1>8, <2>3, LastIs
  <2>5. w[k] \in Elements(w) BY DEF Elements
  <2>6. m <= w[k] BY <1>10, <2>2, <2>4, <2>5
  <2>7. f = <<w[k]>> BY <1>11, <1>12, <2>4 DEF FirstFound
  <2> QED BY <2>4, <2>6, <2>7
<1>13. CASE \E k \in 1..Len(q) :
              /\ Last(q, S) = <<q[k]>> /\ q[k] \in S
              /\ \A j \in 1..Len(q) : q[j] \in S => j <= k
  <2>1. PICK k \in 1..Len(q) :
              /\ Last(q, S) = <<q[k]>> /\ q[k] \in S
              /\ \A j \in 1..Len(q) : q[j] \in S => j <= k
    BY <1>13
  <2>2. f = <<q[k]>>
    <3>1. \A x, s : FirstFound(<<x>>, s, <<>>) = <<x>> BY DEF FirstFound
    <3> QED BY <1>11, <2>1, <3>1
  <2>3. q[k] \in Elements(q) BY DEF Elements
  <2>4. CASE m \in Elements(q)
    <3>1. PICK j \in 1..Len(q) : q[j] = m BY <2>4 DEF Elements
    <3>2. j <= k BY <1>8, <2>1, <3>1
    <3>3. m <= q[k] BY <1>4, <3>1, <3>2
    <3> QED BY <2>1, <2>2, <3>3
  <2>5. CASE m \in Elements(w)
    <3>1. m <= q[k] BY <1>10, <2>1, <2>3, <2>5
    <3> QED BY <2>1, <2>2, <3>1
  <2> QED BY <1>9, <2>4, <2>5
<1> QED BY <1>4, <1>12, <1>13, LastIs

\* A program whose accesses are in order has its stores ordered.
LEMMA OrderedStores ==
  ASSUME AccessesInOrder', NEW N, N = node', NEW W, W = Elements(reservation')
  PROVE  Ordered(N, W)
<1>1. \A k : Instr(k)' = At(N, k) BY DEF Instr, At
<1>2. \A k, x : LastWriter(x, k)' = WriterBefore(N, x, k) BY <1>1 DEF LastWriter, WriterBefore
<1>3. \A k : Target(k)' = AddressOf(N, k) BY <1>1, <1>2 DEF Target, AddressOf
<1> SUFFICES ASSUME NEW n \in 1..Len(N), At(N, n).op = "load",
                    NEW m \in StoresVia(N, At(N, n).ptr, n),
                    NEW k \in StoresVia(N, At(N, n).ptr, n),
                    m < k, m \in Open(N), k \notin W
             PROVE  AddressOf(N, n) \notin {AddressOf(N, m), AddressOf(N, k)}
  BY DEF Ordered
<1>4. /\ m \in 1..(n - 1) /\ At(N, m).op = "store" /\ At(N, m).ptr = At(N, n).ptr
      /\ k \in 1..(n - 1) /\ At(N, k).op = "store" /\ At(N, k).ptr = At(N, n).ptr
  BY DEF StoresVia
<1>5. m \in 1..Len(N) /\ ~N[m].committed BY DEF Open
<1>6. k \in 1..Len(N) BY <1>4
<1>7. m \in Stores' /\ k \in Stores' /\ n \in Accesses'
  BY <1>1, <1>4, <1>5, <1>6 DEF Stores, Accesses, Nodes
<1>8. ~Waiting(k)' BY DEF Waiting
<1>9. Target(n)' \notin {Target(m)', Target(k)'}
  BY <1>1, <1>4, <1>5, <1>7, <1>8 DEF AccessesInOrder
<1> QED BY <1>3, <1>9

\* What happens to the accesses when the memory serves none: the nodes N, of which
\* those in W wait, become the nodes M, of which those in V wait.
AccessStep(N, W, M, V) ==
  /\ Len(N) \in Nat /\ Len(M) \in Nat /\ Len(N) <= Len(M) /\ SameCode(N, M, Len(N))
  /\ \A n \in 1..Len(N) :
       /\ M[n].value = N[n].value
       /\ n \in V => n \in W
       /\ n \in Open(M) => n \in Open(N)
       /\ n \in Open(N) \ Open(M) /\ At(N, n).op \in {"load", "store"} => N[n].value # Unset
  /\ \A n \in (Len(N) + 1)..Len(M) :
       /\ M[n].value = Unset /\ n \in Open(M)
       /\ At(M, n).op = "load" => RawLinked(M, n)

\* The nodes of a new block.
LEMMA ScheduleAccesses ==
  ASSUME StateOK, NEW b \in Blocks, NEW prev \in Blocks,
         NEW K, K = ScheduleBB(b, prev, node), NEW V, Ordered(K, V),
         \A n \in 1..Len(node) : n \in V => n \in Elements(reservation)
  PROVE  AccessStep(node, Elements(reservation), K, V)
<1>1. WithBlock(K, b) /\ Open(K) = Open(node) \cup Fresh(b) BY ScheduleKeeps DEF Extended
<1>2. /\ Len(node) \in Nat /\ Len(Code[b]) \in Nat
      /\ \A n \in 1..Len(node) : n \in Open(K) <=> n \in Open(node)
      /\ \A i \in 1..Len(Code[b]) :
           At(K, Len(node) + i) = Code[b][i] /\ Len(node) + i \in Open(K)
  BY <1>1, BlockCode
<1>3. PICK m \in Nat, l \in Nat : m = Len(node) /\ l = Len(Code[b]) BY <1>2
<1>4. IsSeq(node) BY StateFacts
<1>5. IsSeq(K) /\ Len(K) = m + l /\ \A n \in 1..m : K[n] = node[n] BY <1>1, <1>3 DEF WithBlock
<1> DEFINE New(i) == NewNode(b, prev, Len(node), i)
<1>6. \A i \in 1..l : K[m + i] = New(i)
  <2>1. PICK q : q = [i \in 1..l |-> New(i)] OBVIOUS
  <2>2. K = node \o q BY <1>3, <2>1 DEF ScheduleBB
  <2> HIDE DEF New
  <2>3. Len(q) = l /\ IsSeq(q) BY <2>1 DEF IsSeq
  <2>4. Joined(node, q, K) BY <1>4, <2>2, <2>3, Join
  <2> QED BY <1>3, <2>1, <2>3, <2>4 DEF Joined
<1>7. ASSUME NEW i \in 1..l, NEW n, n = m + i
      PROVE  K[n].value = Unset /\ (At(K, n).op = "load" => RawLinked(K, n))
  <2>1. i \in 1..Len(Code[b]) /\ n = Len(node) + i BY <1>3, <1>7
  <2>2. PICK c : c = K[n] OBVIOUS
  <2>3. c = NewNode(b, prev, Len(node), i) BY <1>6, <1>7, <2>2
  <2>4. PICK line, raw, base : Made(K, b, prev, i, n, c, line, raw, base)
    BY <1>1, <2>1, <2>3, NewIs
  <2>5. c.value = Unset BY <2>4 DEF Made
  <2>6. \A p : raw = <<p>> => \E k \in 1..Len(c.others) : c.others[k] = p
    BY <1>1, <2>1, <2>4, NewLinks
  <2>7. ASSUME At(K, n).op = "load" PROVE RawLinked(K, n)
    <3>1. At(K, n) = Code[b][i] BY <1>2, <2>1
    <3>2. PICK S : S = StoresVia(K, At(K, n).ptr, n) OBVIOUS
    <3>3. raw = DetectRAW(Table(i), S) BY <2>4, <2>7, <3>1, <3>2 DEF Made
    <3>4. ASSUME NEW x \in Conflicts(K, n)
          PROVE  \E k \in 1..Len(c.others) : c.others[k] \in S /\ x <= c.others[k]
      <4>1. PICK y \in S : raw = <<y>> /\ x <= y
        BY <1>1, <2>1, <2>7, <3>2, <3>3, RawFinds
      <4>2. PICK k \in 1..Len(c.others) : c.others[k] = y BY <2>6, <4>1
      <4> QED BY <4>1, <4>2
    <3> QED BY <2>2, <3>2, <3>4 DEF RawLinked
  <2> QED BY <2>2, <2>5, <2>7
<1>8. ASSUME NEW n \in (m + 1)..(m + l)
      PROVE  /\ K[n].value = Unset /\ n \in Open(K)
             /\ At(K, n).op = "load" => RawLinked(K, n)
  <2>1. n - m \in 1..l /\ n = m + (n - m) BY <1>8
  <2>2. PICK i \in 1..l : n = m + i BY <2>1
  <2> HIDE DEF New
  <2>3. n \in Open(K) BY <1>2, <1>3, <2>2
  <2>4. K[n].value = Unset /\ (At(K, n).op = "load" => RawLinked(K, n)) BY <1>7, <2>2
  <2> QED BY <2>3, <2>4
<1> HIDE DEF New
<1>9. m <= m + l /\ m + l \in Nat BY <1>3
<1>10. SameCode(node, K, m) BY <1>5 DEF SameCode, Same
<1>11. ASSUME NEW n \in 1..m
       PROVE  /\ K[n].value = node[n].value
              /\ n \in V => n \in Elements(reservation)
              /\ n \in Open(K) <=> n \in Open(node)
  BY <1>2, <1>3, <1>5
<1> QED BY <1>3, <1>5, <1>8, <1>9, <1>10, <1>11 DEF AccessStep

\* Nodes that keep their instructions are stores to the same addresses.
LEMMA SameStores ==
  ASSUME NEW N, NEW M, Len(N) \in Nat, SameCode(N, M, Len(N)), NEW n \in 1..Len(N)
  PROVE  /\ At(M, n) = At(N, n) /\ AddressOf(M, n) = AddressOf(N, n)
         /\ M[n].others = N[n].others
         /\ \A r : StoresVia(M, r, n) = StoresVia(N, r, n)
         /\ \A a : StoresBefore(M, a, n) = StoresBefore(N, a, n)
<1>1. \A k \in 1..Len(N) : At(M, k) = At(N, k) BY Unmoved
<1>2. \A k \in 1..Len(N) : AddressOf(M, k) = AddressOf(N, k)
  <2>1. \A k \in 1..Len(N) : \A r : WriterBefore(M, r, k) = WriterBefore(N, r, k)
    <3>1. \A k \in 1..Len(N) : k \in 1..(Len(N) + 1) OBVIOUS
    <3> QED BY <3>1, Unmoved
  <2> QED BY <1>1, <2>1 DEF AddressOf
<1>3. \A k \in 1..(n - 1) : k \in 1..Len(N) OBVIOUS
<1>4. \A r : StoresVia(M, r, n) = StoresVia(N, r, n) BY <1>1, <1>3 DEF StoresVia
<1>5. \A a : StoresBefore(M, a, n) = StoresBefore(N, a, n) BY <1>1, <1>2, <1>3 DEF StoresBefore
<1>6. M[n].others = N[n].others BY DEF SameCode, Same
<1> QED BY <1>1, <1>2, <1>4, <1>5, <1>6

\* The link of a load stays as it is while stores commit.
LEMMA RawKept ==
  ASSUME NEW N, NEW M, Len(N) \in Nat, SameCode(N, M, Len(N)), NEW n \in 1..Len(N),
         \A k \in 1..Len(N) : k \in Open(M) => k \in Open(N), RawLinked(N, n)
  PROVE  RawLinked(M, n)
<1>1. PICK r, S, o : r = At(N, n).ptr /\ S = StoresVia(N, r, n) /\ o = N[n].others OBVIOUS
<1>2. At(M, n).ptr = r /\ StoresVia(M, r, n) = S /\ M[n].others = o
  BY <1>1, SameStores
<1>3. \A k \in S : k \in 1..Len(N) BY <1>1 DEF StoresVia
<1>4. \A k \in 1..Len(N) : AddressOf(M, k) = AddressOf(N, k) BY SameStores
<1>5. Conflicts(M, n) \subseteq Conflicts(N, n) BY <1>1, <1>2, <1>3, <1>4 DEF Conflicts
<1>6. \A m \in Conflicts(N, n) : \E k \in 1..Len(o) : o[k] \in S /\ m <= o[k]
  BY <1>1 DEF RawLinked
<1> QED BY <1>2, <1>5, <1>6 DEF RawLinked

\* Nodes that keep their instructions, and of which no store commits, stay ordered.
LEMMA OrderedBefore ==
  ASSUME NEW N, NEW M, Len(N) \in Nat, Len(M) = Len(N), SameCode(N, M, Len(N)),
         \A k \in Open(N) : At(N, k).op = "store" => k \in Open(M),
         NEW V, Ordered(M, V)
  PROVE  Ordered(N, V)
<1> SUFFICES ASSUME NEW n \in 1..Len(N), At(N, n).op = "load",
                    NEW S, S = StoresVia(N, At(N, n).ptr, n),
                    NEW m \in S, NEW k \in S, m < k, m \in Open(N), k \notin V
             PROVE  AddressOf(N, n) \notin {AddressOf(N, m), AddressOf(N, k)}
  BY DEF Ordered
<1>1. m \in 1..Len(N) /\ k \in 1..Len(N) /\ At(N, m).op = "store" BY DEF StoresVia
<1>2. At(M, n) = At(N, n) /\ StoresVia(M, At(M, n).ptr, n) = S BY SameStores
<1>3. \A x \in 1..Len(N) : AddressOf(M, x) = AddressOf(N, x) BY SameStores
<1>4. m \in Open(M) BY <1>1
<1>5. AddressOf(M, n) \notin {AddressOf(M, m), AddressOf(M, k)} BY <1>2, <1>4 DEF Ordered
<1> QED BY <1>1, <1>3, <1>5

\* Steps in which the memory serves nothing.
LEMMA AccessesKept ==
  ASSUME NEW N, NEW W, NEW M, NEW V, AccessStep(N, W, M, V),
         NEW words, AccessesOK(N, W, words)
  PROVE  AccessesOK(M, V, words)
<1>1. PICK m \in Nat, l \in Nat : m = Len(N) /\ l = Len(M) /\ m <= l BY DEF AccessStep
<1>2. SameCode(N, M, Len(N)) /\ Len(N) \in Nat BY DEF AccessStep
<1>3. \A n \in 1..m :
        /\ M[n].value = N[n].value
        /\ n \in V => n \in W
        /\ n \in Open(M) => n \in Open(N)
        /\ n \in Open(N) \ Open(M) /\ At(N, n).op \in {"load", "store"} => N[n].value # Unset
  BY <1>1 DEF AccessStep
<1>4. \A n \in (m + 1)..l :
        /\ M[n].value = Unset /\ n \in Open(M)
        /\ At(M, n).op = "load" => RawLinked(M, n)
  BY <1>1 DEF AccessStep
<1>5. \A n \in 1..m : At(M, n) = At(N, n) /\ AddressOf(M, n) = AddressOf(N, n)
  BY <1>1, <1>2, SameStores
<1>6. \A n \in 1..l : n \in 1..m \/ n \in (m + 1)..l BY <1>1
<1>7. ValuesOK(N, W) /\ MemoryOK(N, words) /\ LoadsOK(N) BY DEF AccessesOK
<1>8. ASSUME NEW n \in 1..l
      PROVE  /\ n \in V => M[n].value = Unset
             /\ At(M, n).op \in {"load", "store"} /\ n \notin Open(M) => M[n].value # Unset
  <2>1. CASE n \in 1..m
    <3>1. /\ n \in W => N[n].value = Unset
          /\ At(N, n).op \in {"load", "store"} /\ n \notin Open(N) => N[n].value # Unset
      BY <1>1, <1>7, <2>1 DEF ValuesOK
    <3> QED BY <1>3, <1>5, <2>1, <3>1
  <2>2. CASE n \in (m + 1)..l BY <1>4, <2>2
  <2> QED BY <1>6, <2>1, <2>2
<1>9. ValuesOK(M, V) BY <1>1, <1>8 DEF ValuesOK
<1>10. ASSUME NEW a PROVE Served(M, a) = Served(N, a)
  <2>1. ASSUME NEW n \in Served(M, a) PROVE n \in Served(N, a)
    <3>1. /\ n \in 1..l /\ At(M, n).op = "store" /\ AddressOf(M, n) = a
          /\ M[n].value # Unset
      BY <1>1 DEF Served
    <3>2. n \in 1..m BY <1>4, <1>6, <3>1
    <3> QED BY <1>1, <1>3, <1>5, <3>1, <3>2 DEF Served
  <2>2. ASSUME NEW n \in Served(N, a) PROVE n \in Served(M, a)
    <3>1. /\ n \in 1..m /\ At(N, n).op = "store" /\ AddressOf(N, n) = a
          /\ N[n].value # Unset
      BY <1>1 DEF Served
    <3>2. n \in 1..l BY <1>1, <3>1
    <3> QED BY <1>1, <1>3, <1>5, <3>1, <3>2 DEF Served
  <2> QED BY <2>1, <2>2
<1>11. MemoryOK(M, words) BY <1>7, <1>10 DEF MemoryOK
<1>12. ASSUME NEW n \in 1..l, At(M, n).op = "load"
       PROVE  /\ RawLinked(M, n)
              /\ M[n].value # Unset => M[n].value = Latest(StoresBefore(M, AddressOf(M, n), n))
  <2>1. CASE n \in 1..m
    <3>1. At(N, n).op = "load" BY <1>5, <1>12, <2>1
    <3>2. /\ RawLinked(N, n)
          /\ N[n].value # Unset => N[n].value = Latest(StoresBefore(N, AddressOf(N, n), n))
      BY <1>1, <1>7, <2>1, <3>1 DEF LoadsOK
    <3>3. RawLinked(M, n) BY <1>1, <1>2, <1>3, <2>1, <3>2, RawKept
    <3>4. StoresBefore(M, AddressOf(M, n), n) = StoresBefore(N, AddressOf(N, n), n)
      BY <1>1, <1>2, <2>1, SameStores
    <3> QED BY <1>3, <2>1, <3>2, <3>3, <3>4
  <2>2. CASE n \in (m + 1)..l BY <1>4, <1>12, <2>2
  <2> QED BY <1>6, <2>1, <2>2
<1>13. LoadsOK(M) BY <1>1, <1>12 DEF LoadsOK
<1> QED BY <1>9, <1>11, <1>13 DEF AccessesOK

\* The memory gives node n the value v.
Answered(n, v, M) ==
  /\ Len(M) = Len(node) /\ SameCode(node, M, Len(node)) /\ Open(M) = Open(node)
  /\ \A k \in 1..Len(node) :
       /\ M[k].value = IF k = n THEN v ELSE node[k].value
       /\ M[k].ops = node[k].ops

\* What an answer changes.
LEMMA AnswerIs ==
  ASSUME StateOK, NEW n \in 1..Len(node), NEW v, NEW M, M = [node EXCEPT ![n].value = v]
  PROVE  Answered(n, v, M)
<1>1. IsSeq(node) /\ Len(node) \in Nat /\ \A k \in 1..Len(node) : Formed(node, k)
  BY StateFacts
<1>2. Retouched(node, M, {}) BY ValueKeeps
<1>3. Len(M) = Len(node) /\ SameCode(node, M, Len(node)) /\ Open(M) = Open(node)
  BY <1>2 DEF Retouched
<1>4. PICK c : c = node[n] OBVIOUS
<1>5. PICK d : d = [c EXCEPT !.value = v] OBVIOUS
<1>6. IsNode(c) BY <1>1, <1>4 DEF Formed
<1>7. d.value = v /\ d.ops = c.ops BY <1>5, <1>6 DEF IsNode
<1>8. node = [k \in 1..Len(node) |-> node[k]] BY <1>1 DEF IsSeq
<1>9. M = [node EXCEPT ![n] = d] BY <1>4, <1>5
<1>10. \A k \in 1..Len(node) : M[k] = IF k = n THEN d ELSE node[k] BY <1>8, <1>9
<1> QED BY <1>3, <1>4, <1>7, <1>10 DEF Answered

\* The address that a launched access was handed is that of sequential execution.
LEMMA AccessAddress ==
  ASSUME StateOK, NEW n \in 1..Len(node), Instr(n).op \in {"load", "store"},
         n \notin Elements(reservation)
  PROVE  Address(n) = AddressOf(node, n)
<1>1. Formed(node, n) /\ At(node, n) = Instr(n) BY StateFacts
<1>2. PICK b, k : /\ b = node[n].blk /\ k = node[n].idx
                  /\ b \in Blocks /\ k \in 1..Len(Code[b])
  BY <1>1 DEF Formed
<1>3. PICK d : d = DepsAt(node, n) OBVIOUS
<1>4. Instr(n) = Code[b][k] BY <1>2 DEF Instr
<1>5. Instr(n).deps # <<>> /\ Instr(n).deps[1] = Instr(n).ptr
  BY <1>2, <1>4, CodeAssumption
<1>6. d = Instr(n).deps BY <1>1, <1>3 DEF DepsAt, Dependencies
<1>7. d \in Seq(Regs) BY <1>1, <1>3, NodeInstr
<1>8. 1 \in 1..Len(d) BY <1>5, <1>6, <1>7
<1>9. Parents(node[n]) \cap Open(node) = {} BY DEF StateOK, NodesOK, Ready
<1>10. At(node, n).op # "phi" BY <1>1
<1>11. node[n].ops[1] = WriterBefore(node, d[1], n) BY <1>3, <1>8, <1>9, <1>10, Handed
<1> QED BY <1>1, <1>5, <1>6, <1>11 DEF Address, AddressOf

\* The addresses of sequential execution, in both forms.
LEMMA Targets ==
  \A n : Target(n) = AddressOf(node, n)
<1>1. \A k : Instr(k) = At(node, k) BY DEF Instr, At
<1>2. \A k, x : LastWriter(x, k) = WriterBefore(node, x, k) BY <1>1 DEF LastWriter, WriterBefore
<1> QED BY <1>1, <1>2 DEF Target, AddressOf

\* A later store to the address of an access under way has not been served.
LEMMA NotYetServed ==
  ASSUME StateOK, AccessesInOrder, AccessesOK(node, Elements(reservation), mem),
         NEW n \in Open(node), Instr(n).op \in {"load", "store"},
         NEW m \in Served(node, AddressOf(node, n))
  PROVE  m <= n
<1>1. /\ Len(node) \in Nat /\ Open(node) \subseteq 1..Len(node)
      /\ \A k : At(node, k) = Instr(k)
  BY StateFacts
<1>2. /\ m \in 1..Len(node) /\ Instr(m).op = "store" /\ Target(m) = Target(n)
      /\ node[m].value # Unset
  BY <1>1, Targets DEF Served
<1>3. ~Waiting(m) BY <1>2 DEF AccessesOK, ValuesOK, Waiting
<1>4. n \in 1..Len(node) /\ ~node[n].committed BY <1>1 DEF Open
<1>5. n \in Accesses /\ m \in Accesses BY <1>2, <1>4 DEF Accesses, Nodes
<1>6. ~(n < m) BY <1>2, <1>3, <1>4, <1>5 DEF AccessesInOrder
<1> QED BY <1>1, <1>2, <1>4, <1>6

\* When a load is served, the stores that were served to its address are exactly
\* the earlier ones.
LEMMA ServedBefore ==
  ASSUME StateOK, AccessesInOrder, AccessesOK(node, Elements(reservation), mem),
         NEW n \in Open(node), Instr(n).op = "load", n \notin Elements(reservation),
         NEW a, a = AddressOf(node, n)
  PROVE  Served(node, a) = StoresBefore(node, a, n)
<1>1. /\ Len(node) \in Nat /\ Open(node) \subseteq 1..Len(node)
      /\ QueueSets(node, reservation, computeQueue, readQueue, writeQueue)
      /\ \A k : At(node, k) = Instr(k)
  BY StateFacts
<1>2. n \in 1..Len(node) /\ n \in Accesses BY <1>1 DEF Accesses, Nodes
<1>3. ASSUME NEW m \in Served(node, a) PROVE m \in StoresBefore(node, a, n)
  <2>1. m \in 1..Len(node) /\ At(node, m).op = "store" /\ AddressOf(node, m) = a
    BY DEF Served
  <2>2. m <= n BY NotYetServed
  <2>3. m # n BY <1>1, <2>1
  <2>4. m \in 1..(n - 1) BY <1>1, <1>2, <2>1, <2>2, <2>3
  <2> QED BY <2>1, <2>4 DEF StoresBefore
<1>4. ASSUME NEW m \in StoresBefore(node, a, n) PROVE m \in Served(node, a)
  <2>1. m \in 1..(n - 1) /\ Instr(m).op = "store" /\ AddressOf(node, m) = a
    BY <1>1 DEF StoresBefore
  <2>2. m \in 1..Len(node) BY <1>1, <1>2, <2>1
  <2>3. m \in Accesses /\ m \in Stores BY <2>1, <2>2 DEF Accesses, Stores, Nodes
  <2>4. Target(m) = Target(n) BY <2>1, Targets
  <2>5. Instr(m).ptr = Instr(n).ptr
    <3>1. PICK c, d : c = <<Instr(m).ptr, Target(m)>> /\ d = <<Instr(n).ptr, Target(n)>> OBVIOUS
    <3>2. \A x \in Accesses : <<Instr(x).ptr, Target(x)>> \in
            {<<Instr(y).ptr, Target(y)>> : y \in Accesses}
      OBVIOUS
    <3>3. c[2] = d[2] BY <2>4, <3>1
    <3>4. c[1] = d[1] BY <1>2, <2>3, <3>1, <3>2, <3>3 DEF AccessesInOrder
    <3> QED BY <3>1, <3>4
  <2>6. m \notin Open(node)
    <3> SUFFICES ASSUME m \in Open(node) PROVE FALSE OBVIOUS
    <3>1. PICK S, o : S = StoresVia(node, At(node, n).ptr, n) /\ o = node[n].others OBVIOUS
    <3>2. m \in Conflicts(node, n) BY <1>1, <2>1, <2>5 DEF Conflicts, StoresVia
    <3>3. RawLinked(node, n) BY <1>1, <1>2 DEF AccessesOK, LoadsOK
    <3>4. PICK k \in 1..Len(o) : o[k] \in S /\ m <= o[k] BY <3>1, <3>2, <3>3 DEF RawLinked
    <3>5. PICK p : p = o[k] OBVIOUS
    <3>6. p \in Parents(node[n]) BY <3>1, <3>5 DEF Parents
    <3>7. Ready(node, Elements(reservation), n) BY <1>2 DEF StateOK, NodesOK
    <3>8. p \notin Open(node) BY <3>6, <3>7 DEF Ready
    <3>9. p \in 1..(n - 1) /\ Instr(p).op = "store" /\ Instr(p).ptr = Instr(n).ptr /\ m <= p
      BY <1>1, <3>1, <3>4, <3>5 DEF StoresVia
    <3>10. p \in Stores /\ ~Waiting(p)
      BY <1>1, <1>2, <3>8, <3>9 DEF QueueSets, Waiting, Stores, Nodes
    <3>11. m < p /\ p < n BY <1>1, <1>2, <2>1, <3>8, <3>9
    <3>12. ~node[m].committed BY DEF Open
    <3>13. Target(n) \notin {Target(m), Target(p)}
      BY <1>2, <2>3, <2>5, <3>9, <3>10, <3>11, <3>12 DEF AccessesInOrder
    <3> QED BY <2>4, <3>13
  <2>7. node[m].value # Unset
    BY <1>1, <2>1, <2>2, <2>6 DEF AccessesOK, ValuesOK
  <2> QED BY <1>1, <2>1, <2>2, <2>7 DEF Served
<1> QED BY <1>3, <1>4

\* The memory serves a load.
LEMMA ReadServed ==
  ASSUME StateOK, AccessesInOrder, AccessesOK(node, Elements(reservation), mem),
         NEW n \in Open(node), Instr(n).op = "load", n \notin Elements(reservation),
         NEW M, Answered(n, Word(Address(n)), M)
  PROVE  AccessesOK(M, Elements(reservation), mem)
<1>1. /\ Len(node) \in Nat /\ Open(node) \subseteq 1..Len(node) /\ n \in 1..Len(node)
      /\ \A k : At(node, k) = Instr(k)
  BY StateFacts
<1>2. PICK W, v : W = Elements(reservation) /\ v = Word(Address(n)) OBVIOUS
<1>3. /\ Len(M) = Len(node) /\ SameCode(node, M, Len(node)) /\ Open(M) = Open(node)
      /\ \A k \in 1..Len(node) : M[k].value = IF k = n THEN v ELSE node[k].value
  BY <1>2 DEF Answered
<1>4. ValuesOK(node, W) /\ MemoryOK(node, mem) /\ LoadsOK(node) BY <1>2 DEF AccessesOK
<1>5. \A k \in 1..Len(node) : At(M, k) = At(node, k) /\ AddressOf(M, k) = AddressOf(node, k)
  BY <1>1, <1>3, SameStores
<1>6. ValuesOK(M, W)
  <2>1. \A k \in 1..Len(node) :
          /\ k \in W => node[k].value = Unset
          /\ At(node, k).op \in {"load", "store"} /\ k \notin Open(node) => node[k].value # Unset
    BY <1>4 DEF ValuesOK
  <2> QED BY <1>2, <1>3, <1>5, <2>1 DEF ValuesOK
<1>7. MemoryOK(M, mem)
  <2>1. ASSUME NEW a PROVE Served(M, a) = Served(node, a)
    <3>1. \A k \in 1..Len(node) : At(node, k).op = "store" => M[k].value = node[k].value
      BY <1>1, <1>3
    <3> QED BY <1>3, <1>5, <3>1 DEF Served
  <2> QED BY <1>4, <2>1 DEF MemoryOK
<1>8. v = Latest(StoresBefore(node, AddressOf(node, n), n))
  <2>1. Address(n) = AddressOf(node, n) BY <1>1, AccessAddress
  <2>2. v = Latest(Served(node, Address(n))) BY <1>2, <1>4 DEF MemoryOK, Word
  <2> QED BY <2>1, <2>2, ServedBefore
<1>9. ASSUME NEW k \in 1..Len(node), At(M, k).op = "load"
      PROVE  /\ RawLinked(M, k)
             /\ M[k].value # Unset => M[k].value = Latest(StoresBefore(M, AddressOf(M, k), k))
  <2>1. At(node, k).op = "load" BY <1>5, <1>9
  <2>2. /\ RawLinked(node, k)
        /\ node[k].value # Unset => node[k].value = Latest(StoresBefore(node, AddressOf(node, k), k))
    BY <1>4, <2>1 DEF LoadsOK
  <2>3. RawLinked(M, k) BY <1>1, <1>3, <2>2, RawKept
  <2>4. StoresBefore(M, AddressOf(M, k), k) = StoresBefore(node, AddressOf(node, k), k)
    BY <1>1, <1>3, SameStores
  <2> QED BY <1>3, <1>8, <2>2, <2>3, <2>4
<1>10. LoadsOK(M) BY <1>3, <1>9 DEF LoadsOK
<1> QED BY <1>2, <1>6, <1>7, <1>10 DEF AccessesOK

\* The memory serves a store.
LEMMA WriteServed ==
  ASSUME StateOK, AccessesInOrder, AccessesOK(node, Elements(reservation), mem),
         NEW n \in Open(node), Instr(n).op = "store", n \notin Elements(reservation),
         NEW M, Answered(n, n, M), NEW words,
         words = [x \in DOMAIN mem \cup {Address(n)} |-> IF x = Address(n) THEN n ELSE mem[x]]
  PROVE  AccessesOK(M, Elements(reservation), words)
<1>1. /\ Len(node) \in Nat /\ Open(node) \subseteq 1..Len(node) /\ n \in 1..Len(node)
      /\ \A k : At(node, k) = Instr(k)
  BY StateFacts
<1>2. PICK W, a : W = Elements(reservation) /\ a = Address(n) OBVIOUS
<1>3. /\ Len(M) = Len(node) /\ SameCode(node, M, Len(node)) /\ Open(M) = Open(node)
      /\ \A k \in 1..Len(node) : M[k].value = IF k = n THEN n ELSE node[k].value
  BY DEF Answered
<1>4. ValuesOK(node, W) /\ MemoryOK(node, mem) /\ LoadsOK(node) BY <1>2 DEF AccessesOK
<1>5. \A k \in 1..Len(node) : At(M, k) = At(node, k) /\ AddressOf(M, k) = AddressOf(node, k)
  BY <1>1, <1>3, SameStores
<1>6. ValuesOK(M, W)
  <2>1. \A k \in 1..Len(node) :
          /\ k \in W => node[k].value = Unset
          /\ At(node, k).op \in {"load", "store"} /\ k \notin Open(node) => node[k].value # Unset
    BY <1>4 DEF ValuesOK
  <2> QED BY <1>2, <1>3, <1>5, <2>1 DEF ValuesOK
<1>7. n # Unset BY <1>1 DEF Unset
<1>8. a = AddressOf(node, n) BY <1>1, <1>2, AccessAddress
<1>9. MemoryOK(M, words)
  <2> DEFINE word(f, x) == IF x \in DOMAIN f THEN f[x] ELSE 0
  <2> SUFFICES ASSUME NEW x PROVE word(words, x) = Latest(Served(M, x)) BY DEF MemoryOK
  <2>1. CASE x # a
    <3>1. Served(M, x) = Served(node, x)
      <4>1. \A k \in 1..Len(node) : AddressOf(node, k) = x => M[k].value = node[k].value
        BY <1>3, <1>8, <2>1
      <4> QED BY <1>3, <1>5, <4>1 DEF Served
    <3>2. word(words, x) = word(mem, x) BY <1>2, <2>1
    <3> QED BY <1>4, <3>1, <3>2 DEF MemoryOK
  <2>2. CASE x = a
    <3>1. word(words, x) = n BY <1>2, <2>2
    <3>2. PICK S : S = Served(M, x) OBVIOUS
    <3>3. S \subseteq 1..Len(node) BY <1>3, <3>2 DEF Served
    <3>4. n \in S BY <1>1, <1>3, <1>5, <1>7, <1>8, <2>2, <3>2 DEF Served
    <3>5. ASSUME NEW k \in S PROVE k <= n
      <4>1. CASE k = n BY <1>1, <4>1
      <4>2. CASE k # n
        <5>1. k \in Served(node, a) BY <1>3, <1>5, <2>2, <3>2, <3>3, <4>2 DEF Served
        <5> QED BY <1>8, <5>1, NotYetServed
      <4> QED BY <4>1, <4>2
    <3>6. Latest(S) = n BY <1>1, <3>3, <3>4, <3>5, LatestIs
    <3> QED BY <3>1, <3>2, <3>6
  <2> QED BY <2>1, <2>2
<1>10. ASSUME NEW k \in 1..Len(node), At(M, k).op = "load"
      PROVE  /\ RawLinked(M, k)
             /\ M[k].value # Unset => M[k].value = Latest(StoresBefore(M, AddressOf(M, k), k))
  <2>1. At(node, k).op = "load" /\ k # n BY <1>1, <1>5, <1>10
  <2>2. /\ RawLinked(node, k)
        /\ node[k].value # Unset => node[k].value = Latest(StoresBefore(node, AddressOf(node, k), k))
    BY <1>4, <2>1 DEF LoadsOK
  <2>3. RawLinked(M, k) BY <1>1, <1>3, <2>2, RawKept
  <2>4. StoresBefore(M, AddressOf(M, k), k) = StoresBefore(node, AddressOf(node, k), k)
    BY <1>1, <1>3, SameStores
  <2> QED BY <1>3, <2>1, <2>2, <2>3, <2>4
<1>11. LoadsOK(M) BY <1>3, <1>10 DEF LoadsOK
<1> QED BY <1>2, <1>6, <1>9, <1>11 DEF AccessesOK

\* What happens to the phis: the nodes N, of which those in W wait, become the
\* nodes M, of which those in V wait.
PhiStep(N, W, M, V) ==
  /\ Len(N) \in Nat /\ Len(M) \in Nat /\ Len(N) <= Len(M) /\ SameCode(N, M, Len(N))
  /\ \A n \in 1..Len(N) : At(N, n).op = "phi" =>
       /\ n \notin W => M[n].ops = N[n].ops
       /\ n \in W /\ n \notin V =>
            \A j \in 1..Len(DepsAt(N, n)) : M[n].ops[j] = WriterBefore(N, DepsAt(N, n)[j], n)
  /\ \A n \in (Len(N) + 1)..Len(M) : n \in V

\* Such a step keeps the operands of phis.
LEMMA PhisKept ==
  ASSUME NEW N, NEW W, NEW M, NEW V, PhiStep(N, W, M, V), PhisOK(N, W)
  PROVE  PhisOK(M, V)
<1>1. PICK m \in Nat, l \in Nat : m = Len(N) /\ l = Len(M) /\ m <= l BY DEF PhiStep
<1>2. SameCode(N, M, m) BY <1>1 DEF PhiStep
<1>3. \A n \in 1..m : /\ At(M, n) = At(N, n) /\ DepsAt(M, n) = DepsAt(N, n)
  BY <1>2, Unmoved
<1>4. \A n \in 1..(m + 1) : \A r : WriterBefore(M, r, n) = WriterBefore(N, r, n)
  BY <1>2, Unmoved
<1>5. ASSUME NEW n \in 1..l, At(M, n).op = "phi", n \notin V,
             NEW d, d = DepsAt(M, n), NEW j \in 1..Len(d)
      PROVE  M[n].ops[j] = WriterBefore(M, d[j], n)
  <2>1. n \in 1..m
    <3>1. n \notin (m + 1)..l BY <1>1, <1>5 DEF PhiStep
    <3> QED BY <1>1, <3>1
  <2>2. At(N, n).op = "phi" /\ d = DepsAt(N, n) BY <1>3, <1>5, <2>1
  <2>3. WriterBefore(M, d[j], n) = WriterBefore(N, d[j], n) BY <1>4, <2>1
  <2>4. CASE n \notin W
    <3>1. M[n].ops = N[n].ops BY <1>1, <2>1, <2>2, <2>4 DEF PhiStep
    <3>2. N[n].ops[j] = WriterBefore(N, d[j], n) BY <1>1, <2>1, <2>2, <2>4 DEF PhisOK
    <3> QED BY <2>3, <3>1, <3>2
  <2>5. CASE n \in W
    <3>1. M[n].ops[j] = WriterBefore(N, d[j], n) BY <1>1, <1>5, <2>1, <2>2, <2>5 DEF PhiStep
    <3> QED BY <2>3, <3>1
  <2> QED BY <2>4, <2>5
<1> QED BY <1>1, <1>5 DEF PhisOK

\* A phi that is launched while no later node has committed to its register reads
\* the value of sequential execution.
LEMMA PhiOperands ==
  ASSUME StateOK, RestOK, PhisInOrder, Launchable, NEW n, n = Current, Instr(n).op = "phi",
         NEW d, d = DepsAt(node, n), NEW j \in 1..Len(d)
  PROVE  Operands(n)[j] = WriterBefore(node, d[j], n)
<1>1. /\ n \in Elements(reservation) /\ n \in 1..Len(node) /\ n \in Open(node)
      /\ Parents(node[n]) \cap Open(node) = {}
  BY LaunchFacts
<1>2. Len(node) \in Nat /\ \A k : At(node, k) = Instr(k) BY StateFacts
<1>3. Formed(node, n) /\ Linked(node, n) /\ Filled(node, n) BY <1>1 DEF StateOK, NodesOK
<1>4. d \in Seq(Regs) BY <1>3, NodeInstr
<1>5. PICK r \in Regs : r = d[j] BY <1>4
<1>6. d = Dependencies(Instr(n), node[n].prev) BY <1>2 DEF DepsAt
<1>7. Operands(n)[j] = register[r] BY <1>5, <1>6 DEF Operands
<1>8. PICK w : w = WriterBefore(node, r, n) OBVIOUS
<1>9. w \notin Open(node)
  <2> SUFFICES ASSUME w \in Open(node) PROVE FALSE OBVIOUS
  <2>1. j \in DOMAIN node[n].producers BY <1>3, <1>5, <1>8 DEF Filled
  <2>2. node[n].producers[j] = w BY <1>3, <1>5, <1>8, <2>1 DEF Linked
  <2>3. w \in Parents(node[n]) BY <2>1, <2>2 DEF Parents
  <2> QED BY <1>1, <2>3
<1>10. PICK A : A = Writers(node, r) OBVIOUS
<1>11. register[r] = Latest(A) BY <1>10 DEF StateOK, RegistersOK, Writers
<1>12. A \subseteq 1..Len(node) BY <1>10 DEF Writers
<1>13. n \in Nat /\ n >= 1 BY <1>1, <1>2
<1>14. w \in 0..(n - 1) BY <1>8, <1>13, WriterIs
<1>15. \A m \in 1..(n - 1) : At(node, m).ret = r => m <= w /\ w # 0
  BY <1>8, <1>13, WriterIs
<1>16. ASSUME NEW m \in A PROVE m <= w /\ w # 0
  <2>1. m \in 1..Len(node) /\ m \notin Open(node) /\ At(node, m).ret = r
    BY <1>10 DEF Writers
  <2>2. m # n BY <1>1, <2>1
  <2>3. m \notin (n + 1)..Len(node)
    <3>1. \A k \in (n + 1)..Len(node) : Instr(k).ret = d[j] => ~node[k].committed
      BY <1>1, <1>6 DEF PhisInOrder, Nodes, Waiting
    <3>2. node[m].committed BY <2>1 DEF Open
    <3> QED BY <1>2, <1>5, <2>1, <3>1, <3>2
  <2>4. m \in 1..(n - 1) BY <1>1, <1>2, <2>1, <2>2, <2>3
  <2> QED BY <1>15, <2>1, <2>4
<1>17. CASE w = 0
  <2>1. A = {} BY <1>16, <1>17
  <2>2. Latest(A) = 0 BY <2>1 DEF Latest
  <2> QED BY <1>5, <1>7, <1>8, <1>11, <1>17, <2>2
<1>18. CASE w # 0
  <2>1. At(node, w).ret = r BY <1>8, <1>13, <1>18, WriterIs
  <2>2. w \in 1..Len(node) BY <1>1, <1>2, <1>14, <1>18
  <2>3. w \in A BY <1>9, <1>10, <2>1, <2>2 DEF Writers
  <2>4. Latest(A) = w BY <1>2, <1>12, <1>16, <2>3, LatestIs
  <2> QED BY <1>5, <1>7, <1>8, <1>11, <2>4
<1> QED BY <1>17, <1>18

\* commit() changes no value, and no operand of a node whose parents have committed.
LEMMA CommitEffect ==
  ASSUME NEW N, NEW W, NodesOK(N, W), Present(N), NEW S, S \subseteq Open(N),
         NEW M, M = Committed(N, S), NEW n \in 1..Len(N)
  PROVE  /\ M[n].value = N[n].value
         /\ Parents(N[n]) \cap Open(N) = {} => M[n].ops = N[n].ops
<1>1. IsSeq(N) /\ Formed(N, n) /\ \A k \in 1..Len(N) : Formed(N, k) BY DEF NodesOK
<1>2. PICK d \in Seq(Regs) : d = DepsAt(N, n) BY <1>1, NodeInstr
<1>3. M[n].value = N[n].value /\ M[n].ops = [j \in 1..Len(d) |-> Sent(N, S, n, j)]
  <2>1. After(N, S, M) BY <1>1, CommitFields
  <2> QED BY <1>2, <2>1 DEF After
<1>4. ASSUME Parents(N[n]) \cap Open(N) = {} PROVE M[n].ops = N[n].ops
  <2>1. ASSUME NEW j \in 1..Len(d) PROVE Sent(N, S, n, j) = N[n].ops[j]
    <3>1. ASSUME NEW p \in Senders(N, S, n, j) PROVE FALSE
      <4>1. p \in S /\ Links(N[n], {p}) > 0 BY DEF Senders
      <4>2. PICK c, U : c = N[n] /\ U = {p} OBVIOUS
      <4>3. PICK l \in Nat : l = Len(d) BY <1>2
      <4>4. DOMAIN c.producers \subseteq 1..l /\ Len(c.others) \in Nat /\ U \subseteq U
        BY <1>1, <1>2, <4>2, <4>3 DEF Formed
      <4>5. Links(c, U) = 0 <=> Parents(c) \cap U = {} BY <4>4, LinkCount
      <4>6. Links(c, U) # 0 BY <4>1, <4>2
      <4>7. p \in Parents(N[n]) BY <4>2, <4>5, <4>6
      <4> QED BY <1>4, <4>1, <4>7
    <3>2. Senders(N, S, n, j) = {} BY <3>1
    <3> QED BY <3>2 DEF Sent
  <2>2. N[n].ops \in [1..Len(d) -> {Unset} \cup 0..Len(N)] BY <1>1, <1>2 DEF Formed
  <2>3. N[n].ops = [j \in 1..Len(d) |-> N[n].ops[j]] BY <2>2
  <2> QED BY <1>3, <2>1, <2>3
<1> QED BY <1>3, <1>4

(***************************************************************************)
(* The actions once more, for accesses and phis                            *)
(***************************************************************************)

AccessesNow == AccessesOK(node, Elements(reservation), mem)
PhisNow == PhisOK(node, Elements(reservation))

\* What a step keeps.
Sequential ==
  /\ AccessesInOrder /\ AccessesInOrder' /\ AccessesNow => AccessesNow'
  /\ PhisInOrder /\ PhisNow => PhisNow'

\* N gives the phis that are no longer in V the operands of sequential execution, and
\* does not touch those that left the table before.
PhiLaunch(N, V) ==
  \A n \in 1..Len(node) : At(node, n).op = "phi" =>
    /\ n \notin Elements(reservation) => N[n].ops = node[n].ops
    /\ n \in Elements(reservation) /\ n \notin V =>
         /\ Parents(node[n]) \cap Open(node) = {}
         /\ \A j \in 1..Len(DepsAt(node, n)) :
              N[n].ops[j] = WriterBefore(node, DepsAt(node, n)[j], n)

\* A step of both kinds.
LEMMA SequentialKept ==
  ASSUME mem' = mem, NEW M, M = node', NEW V, V = Elements(reservation'),
         Ordered(M, V) => AccessStep(node, Elements(reservation), M, V),
         PhisInOrder => PhiStep(node, Elements(reservation), M, V)
  PROVE  Sequential
<1>1. ASSUME AccessesInOrder', AccessesNow PROVE AccessesOK(M, V, mem)
  <2>1. Ordered(M, V) BY <1>1, OrderedStores
  <2>2. AccessStep(node, Elements(reservation), M, V) BY <2>1
  <2>3. AccessesOK(node, Elements(reservation), mem) BY <1>1 DEF AccessesNow
  <2> QED BY <2>2, <2>3, AccessesKept
<1>2. ASSUME PhisInOrder, PhisNow PROVE PhisOK(M, V)
  <2>1. PhiStep(node, Elements(reservation), M, V) BY <1>2
  <2>2. PhisOK(node, Elements(reservation)) BY <1>2 DEF PhisNow
  <2> QED BY <2>1, <2>2, PhisKept
<1> HIDE DEF AccessesInOrder, PhisInOrder
<1>3. AccessesNow' <=> AccessesOK(M, V, mem) BY DEF AccessesNow, Elements
<1>4. PhisNow' <=> PhisOK(M, V) BY DEF PhisNow, Elements
<1> QED BY <1>1, <1>2, <1>3, <1>4 DEF Sequential

\* Nodes are retouched and may leave the table.
LEMMA RetouchStep ==
  ASSUME StateOK, NEW N, Retouched(node, N, {}),
         \A k \in 1..Len(node) : N[k].value = node[k].value,
         NEW V, V \subseteq Elements(reservation)
  PROVE  /\ AccessStep(node, Elements(reservation), N, V)
         /\ PhiLaunch(N, V) => PhiStep(node, Elements(reservation), N, V)
<1>1. Len(node) \in Nat BY StateFacts
<1>2. Len(N) = Len(node) /\ SameCode(node, N, Len(node)) /\ Open(N) = Open(node)
  BY DEF Retouched
<1>3. PICK m \in Nat : m = Len(node) BY <1>1
<1>4. (m + 1)..m = {} /\ m <= m OBVIOUS
<1>5. AccessStep(node, Elements(reservation), N, V) BY <1>2, <1>3, <1>4 DEF AccessStep
<1>6. ASSUME PhiLaunch(N, V) PROVE PhiStep(node, Elements(reservation), N, V)
  BY <1>2, <1>3, <1>4, <1>6 DEF PhiStep, PhiLaunch
<1> QED BY <1>5, <1>6

\* Then nodes of S commit.
LEMMA CommitStep ==
  ASSUME StateOK, NEW N, Retouched(node, N, {}),
         \A k \in 1..Len(node) : N[k].value = node[k].value,
         NEW S, S \subseteq Open(node),
         \A k \in S : At(node, k).op \in {"load", "store"} => node[k].value # Unset,
         NEW M, M = Committed(N, S), NEW V, V \subseteq Elements(reservation)
  PROVE  /\ AccessStep(node, Elements(reservation), M, V)
         /\ PhiLaunch(N, V) => PhiStep(node, Elements(reservation), M, V)
<1>1. Len(node) \in Nat /\ \A k : At(node, k) = Instr(k) BY StateFacts
<1>2. /\ Len(N) = Len(node) /\ SameCode(node, N, Len(node)) /\ Open(N) = Open(node)
      /\ IsSeq(N)
  BY DEF Retouched
<1>3. PICK m \in Nat, W \in {Elements(reservation)} :
        m = Len(node) /\ W = Elements(reservation)
  BY <1>1
<1>4. /\ \A k \in 1..m : /\ At(N, k) = At(node, k) /\ DepsAt(N, k) = DepsAt(node, k)
                         /\ Parents(N[k]) = Parents(node[k])
  BY <1>2, <1>3, Unmoved
<1>5. Present(N) BY <1>1, <1>2, <1>3, <1>4 DEF Present
<1>6. NodesOK(N, W)
  <2>1. Sound(N, register, reservation, computeQueue, readQueue, writeQueue)
    BY RetouchSound
  <2> QED BY <1>3, <2>1 DEF Sound
<1>7. /\ Len(M) = m /\ SameCode(N, M, m) /\ Open(M) = Open(node) \ S
  <2>1. \A k \in 1..Len(N) : Formed(N, k) BY <1>6 DEF NodesOK
  <2>2. After(N, S, M) BY <1>2, <1>5, <2>1, CommitFields
  <2> QED BY <1>2, <1>3, <2>2 DEF After
<1>8. SameCode(node, M, m) BY <1>2, <1>3, <1>7 DEF SameCode, Same
<1>9. \A k \in 1..m : /\ M[k].value = node[k].value
                      /\ Parents(node[k]) \cap Open(node) = {} => M[k].ops = N[k].ops
  <2> SUFFICES ASSUME NEW k \in 1..m
               PROVE  /\ M[k].value = node[k].value
                      /\ Parents(node[k]) \cap Open(node) = {} => M[k].ops = N[k].ops
    OBVIOUS
  <2>1. k \in 1..Len(N) /\ S \subseteq Open(N) BY <1>2, <1>3
  <2>2. /\ M[k].value = N[k].value
        /\ Parents(N[k]) \cap Open(N) = {} => M[k].ops = N[k].ops
    BY <1>5, <1>6, <2>1, CommitEffect
  <2> QED BY <1>2, <1>3, <1>4, <2>2
<1>10. (m + 1)..m = {} /\ m <= m OBVIOUS
<1>11. AccessStep(node, W, M, V)
  <2>1. \A n \in 1..m :
          /\ M[n].value = node[n].value
          /\ n \in V => n \in W
          /\ n \in Open(M) => n \in Open(node)
          /\ n \in Open(node) \ Open(M) /\ At(node, n).op \in {"load", "store"}
               => node[n].value # Unset
    BY <1>3, <1>7, <1>9
  <2> QED BY <1>3, <1>7, <1>8, <1>10, <2>1 DEF AccessStep
<1>12. ASSUME PhiLaunch(N, V) PROVE PhiStep(node, W, M, V)
  <2>1. ASSUME NEW n \in 1..m, At(node, n).op = "phi"
        PROVE  /\ n \notin W => M[n].ops = node[n].ops
               /\ n \in W /\ n \notin V =>
                    \A j \in 1..Len(DepsAt(node, n)) :
                      M[n].ops[j] = WriterBefore(node, DepsAt(node, n)[j], n)
    <3>1. CASE n \notin W
      <4>1. N[n].ops = node[n].ops BY <1>3, <1>12, <2>1, <3>1 DEF PhiLaunch
      <4>2. Ready(node, W, n) BY <1>3 DEF StateOK, NodesOK
      <4>3. Parents(node[n]) \cap Open(node) = {} BY <3>1, <4>2 DEF Ready
      <4> QED BY <1>9, <3>1, <4>1, <4>3
    <3>2. CASE n \in W /\ n \notin V
      <4>1. /\ Parents(node[n]) \cap Open(node) = {}
            /\ \A j \in 1..Len(DepsAt(node, n)) :
                 N[n].ops[j] = WriterBefore(node, DepsAt(node, n)[j], n)
        BY <1>3, <1>12, <2>1, <3>2 DEF PhiLaunch
      <4>2. M[n].ops = N[n].ops BY <1>9, <4>1
      <4> QED BY <3>2, <4>1, <4>2
    <3> QED BY <3>1, <3>2
  <2> QED BY <1>3, <1>7, <1>8, <1>10, <2>1 DEF PhiStep
<1> QED BY <1>3, <1>11, <1>12

\* M is what compute() makes of the nodes, before or after the cycle is counted.
Launched(n, M) == M = Computed(n) \/ M = [Computed(n) EXCEPT ![n].cycle = @ + 1]

\* compute() of node n changes the operands of no other node.
LEMMA ComputedIs ==
  ASSUME StateOK, NEW n \in 1..Len(node), NEW M, Launched(n, M)
  PROVE  \A k \in 1..Len(node) : /\ M[k].value = node[k].value
                                 /\ M[k].ops = IF k = n THEN Operands(n) ELSE node[k].ops
<1>1. IsSeq(node) /\ Len(node) \in Nat /\ \A k \in 1..Len(node) : Formed(node, k)
  BY StateFacts
<1>2. PICK x : x = Operands(n) OBVIOUS
<1>3. PICK c : c = node[n] OBVIOUS
<1>4. IsNode(c) BY <1>1, <1>3 DEF Formed
<1>5. node = [k \in 1..Len(node) |-> node[k]] BY <1>1 DEF IsSeq
<1>6. PICK d : d = [c EXCEPT !.ops = x] OBVIOUS
<1>7. IsNode(d) /\ d.ops = x /\ d.value = c.value BY <1>4, <1>6 DEF IsNode
<1>8. PICK e : e = [d EXCEPT !.cycle = d.cycle + 1] OBVIOUS
<1>9. e.ops = x /\ e.value = c.value BY <1>7, <1>8 DEF IsNode
<1>10. PICK L : L = Computed(n) OBVIOUS
<1>11. L = [node EXCEPT ![n] = d] BY <1>2, <1>3, <1>5, <1>6, <1>10 DEF Computed
<1>12. \A k \in 1..Len(node) : L[k] = IF k = n THEN d ELSE node[k] BY <1>5, <1>11
<1>13. CASE M = L BY <1>2, <1>3, <1>7, <1>12, <1>13
<1>14. CASE M = [L EXCEPT ![n].cycle = @ + 1]
  <2>1. L[n] = d BY <1>12
  <2>2. M = [L EXCEPT ![n] = e] BY <1>8, <1>14, <2>1
  <2>3. DOMAIN L = 1..Len(node) BY <1>5, <1>11
  <2>4. \A k \in 1..Len(node) : M[k] = IF k = n THEN e ELSE L[k] BY <2>2, <2>3
  <2> QED BY <1>2, <1>3, <1>9, <1>12, <2>4
<1>15. M = L \/ M = [L EXCEPT ![n].cycle = @ + 1] BY <1>10 DEF Launched
<1> QED BY <1>13, <1>14, <1>15

\* The node that is launched is the only one that changes its operands.
LEMMA LaunchPhi ==
  ASSUME StateOK, RestOK, PhisInOrder, Launchable, NEW n, n = Current,
         NEW V, V = Elements(reservation) \ {n}, NEW N,
         \A k \in 1..Len(node) : k # n => N[k].ops = node[k].ops,
         Instr(n).op = "phi" => N[n].ops = Operands(n)
  PROVE  PhiLaunch(N, V)
<1>1. /\ n \in Elements(reservation) /\ n \in 1..Len(node)
      /\ Parents(node[n]) \cap Open(node) = {}
  BY LaunchFacts
<1>2. \A k : At(node, k) = Instr(k) BY StateFacts
<1>3. ASSUME NEW k \in 1..Len(node), At(node, k).op = "phi", k \notin Elements(reservation)
      PROVE  N[k].ops = node[k].ops
  BY <1>1, <1>3
<1>4. ASSUME At(node, n).op = "phi", NEW d, d = DepsAt(node, n), NEW j \in 1..Len(d)
      PROVE  N[n].ops[j] = WriterBefore(node, d[j], n)
  <2>1. Instr(n).op = "phi" BY <1>2, <1>4
  <2>2. Operands(n)[j] = WriterBefore(node, d[j], n) BY <1>4, <2>1, PhiOperands
  <2> HIDE DEF Operands
  <2> QED BY <2>1, <2>2
<1> HIDE DEF Launchable, Operands, PhisInOrder
<1> QED BY <1>1, <1>3, <1>4 DEF PhiLaunch

\* A load or store is launched.
LEMMA LaunchLoadSequential ==
  ASSUME Inv, LaunchLoad \/ LaunchStore
  PROVE  Sequential
<1>1. StateOK /\ RestOK BY DEF Inv
<1>2. /\ Launchable /\ Instr(Current).op \in {"load", "store"}
      /\ reservation' = Without(reservation, scan) /\ UNCHANGED <<node, mem>>
  BY DEF LaunchLoad, LaunchStore
<1>3. PICK n, p, V, M : /\ n = Current /\ p = Without(reservation, scan)
                        /\ V = Elements(p) /\ M = node'
  OBVIOUS
<1>4. V = Elements(reservation) \ {n} BY <1>1, <1>2, <1>3, LaunchTable
<1>5. V \subseteq Elements(reservation) BY <1>4
<1>6. IsSeq(node) /\ \A k \in 1..Len(node) : Formed(node, k) BY <1>1, StateFacts
<1>7. Retouched(node, node, {}) BY <1>6, Untouched
<1>8. /\ AccessStep(node, Elements(reservation), node, V)
      /\ PhiLaunch(node, V) => PhiStep(node, Elements(reservation), node, V)
  BY <1>1, <1>5, <1>7, RetouchStep
<1>9. ASSUME PhisInOrder PROVE PhiLaunch(node, V)
  <2>1. Instr(n).op # "phi" BY <1>2, <1>3
  <2> HIDE DEF Launchable, PhisInOrder
  <2> QED BY <1>1, <1>2, <1>3, <1>4, <1>9, <2>1, LaunchPhi
<1> HIDE DEF PhisInOrder, AccessesInOrder
<1>10. M = node /\ V = Elements(reservation') BY <1>2, <1>3
<1> QED BY <1>2, <1>3, <1>8, <1>9, <1>10, SequentialKept

\* A node enters the compute queue, or commits at once.
LEMMA LaunchComputeSequential ==
  ASSUME Inv, LaunchCompute \/ LaunchImmediate
  PROVE  Sequential
<1>1. StateOK /\ RestOK BY DEF Inv
<1>2. PICK n, p, V, M : /\ n = Current /\ p = Without(reservation, scan)
                        /\ V = Elements(p) /\ M = node'
  OBVIOUS
<1>3. /\ Launchable /\ Computes(n) /\ reservation' = p /\ mem' = mem
      /\ \/ M = [Computed(n) EXCEPT ![n].cycle = @ + 1]
         \/ M = Committed(Computed(n), {n})
  BY <1>2 DEF LaunchCompute, LaunchImmediate
<1>4. V = Elements(reservation) \ {n} BY <1>1, <1>2, <1>3, LaunchTable
<1>5. V \subseteq Elements(reservation) BY <1>4
<1>6. n \in 1..Len(node) /\ n \in Open(node) BY <1>1, <1>2, <1>3, LaunchFacts
<1>7. Instr(n).op \in {"op", "phi", "gep"} BY <1>3 DEF Computes
<1>8. At(node, n).op \notin {"load", "store", "br"} /\ Instr(n).op # "br"
  BY <1>7 DEF At, Instr
<1>9. ASSUME NEW N, Launched(n, N)
      PROVE  /\ Retouched(node, N, {})
             /\ \A k \in 1..Len(node) : N[k].value = node[k].value
             /\ PhisInOrder => PhiLaunch(N, V)
  <2>1. Retouched(node, N, {}) BY <1>1, <1>6, <1>8, <1>9, ComputedKeeps DEF Launched
  <2>2. \A k \in 1..Len(node) : /\ N[k].value = node[k].value
                                /\ N[k].ops = IF k = n THEN Operands(n) ELSE node[k].ops
    BY <1>1, <1>6, <1>9, ComputedIs
  <2>3. ASSUME PhisInOrder PROVE PhiLaunch(N, V)
    <3>1. /\ \A k \in 1..Len(node) : k # n => N[k].ops = node[k].ops
          /\ N[n].ops = Operands(n)
      BY <1>6, <2>2
    <3> HIDE DEF Launchable, PhisInOrder, Operands
    <3> QED BY <1>1, <1>2, <1>3, <1>4, <2>3, <3>1, LaunchPhi
  <2> HIDE DEF PhisInOrder
  <2> QED BY <2>1, <2>2, <2>3
<1>10. CASE M = [Computed(n) EXCEPT ![n].cycle = @ + 1]
  <2>1. /\ Retouched(node, M, {})
        /\ \A k \in 1..Len(node) : M[k].value = node[k].value
        /\ PhisInOrder => PhiLaunch(M, V)
    BY <1>9, <1>10 DEF Launched
  <2>2. /\ AccessStep(node, Elements(reservation), M, V)
        /\ PhiLaunch(M, V) => PhiStep(node, Elements(reservation), M, V)
    BY <1>1, <1>5, <2>1, RetouchStep
  <2>3. V = Elements(reservation') BY <1>2, <1>3
  <2> HIDE DEF PhisInOrder, AccessesInOrder
  <2> QED BY <1>2, <1>3, <2>1, <2>2, <2>3, SequentialKept
<1>11. CASE M = Committed(Computed(n), {n})
  <2>1. PICK N, S : N = Computed(n) /\ S = {n} OBVIOUS
  <2>2. /\ Retouched(node, N, {})
        /\ \A k \in 1..Len(node) : N[k].value = node[k].value
        /\ PhisInOrder => PhiLaunch(N, V)
    BY <1>9, <2>1 DEF Launched
  <2>3. /\ S \subseteq Open(node) /\ M = Committed(N, S)
        /\ \A k \in S : At(node, k).op \in {"load", "store"} => node[k].value # Unset
    BY <1>6, <1>8, <1>11, <2>1
  <2>4. /\ AccessStep(node, Elements(reservation), M, V)
        /\ PhiLaunch(N, V) => PhiStep(node, Elements(reservation), M, V)
    BY <1>1, <1>5, <2>2, <2>3, CommitStep
  <2>5. V = Elements(reservation') BY <1>2, <1>3
  <2> HIDE DEF PhisInOrder, AccessesInOrder
  <2> QED BY <1>2, <1>3, <2>2, <2>4, <2>5, SequentialKept
<1> QED BY <1>3, <1>10, <1>11

\* Phis are as they were.
LEMMA NoLaunch ==
  ASSUME NEW N, \A k \in 1..Len(node) : N[k].ops = node[k].ops
  PROVE  PhiLaunch(N, Elements(reservation))
BY DEF PhiLaunch

\* readCommit() and writeCommit().
LEMMA AccessCommitSequential ==
  ASSUME Inv, NEW i, ReadCommit(i) \/ WriteCommit(i)
  PROVE  Sequential
<1>1. StateOK BY DEF Inv
<1>2. PICK q \in {readQueue, writeQueue} :
        /\ i \in 1..Len(q) /\ node[q[i]].value # Unset /\ node' = Committed(node, {q[i]})
        /\ UNCHANGED <<reservation, mem>>
  BY DEF ReadCommit, WriteCommit
<1>3. PICK n, S, M, V : /\ n = q[i] /\ S = {n} /\ M = node' /\ V = Elements(reservation)
  OBVIOUS
<1>4. n \in Open(node) BY <1>1, <1>2, <1>3, QueuedNode
<1>5. IsSeq(node) /\ \A k \in 1..Len(node) : Formed(node, k) BY <1>1, StateFacts
<1>6. Retouched(node, node, {}) BY <1>5, Untouched
<1>7. /\ S \subseteq Open(node) /\ M = Committed(node, S)
      /\ \A k \in S : At(node, k).op \in {"load", "store"} => node[k].value # Unset
  BY <1>2, <1>3, <1>4
<1>8. V \subseteq Elements(reservation) BY <1>3
<1>9. /\ AccessStep(node, Elements(reservation), M, V)
      /\ PhiLaunch(node, V) => PhiStep(node, Elements(reservation), M, V)
  BY <1>1, <1>6, <1>7, <1>8, CommitStep
<1>10. PhiLaunch(node, V) BY <1>3, NoLaunch
<1>11. V = Elements(reservation') /\ mem' = mem BY <1>2, <1>3
<1> HIDE DEF PhisInOrder, AccessesInOrder
<1> QED BY <1>3, <1>9, <1>10, <1>11, SequentialKept

\* ret leaves the table; other steps that change neither nodes nor memory.
LEMMA QuietSequential ==
  ASSUME Inv, UNCHANGED <<node, mem>>,
         reservation' = reservation \/ (Return /\ reservation' = <<>>)
  PROVE  Sequential
<1>1. StateOK /\ LastOK /\ RestOK BY DEF Inv
<1>2. PICK V, M : V = Elements(reservation') /\ M = node' OBVIOUS
<1>3. V \subseteq Elements(reservation) /\ PhiLaunch(node, V)
  <2>1. CASE reservation' = reservation BY <1>2, <2>1, NoLaunch
  <2>2. CASE Return /\ reservation' = <<>>
    <3>1. V = {} BY <1>2, <2>2 DEF Elements
    <3>2. Scanning /\ Instr(Current).op = "ret" /\ scan = 1 /\ Quiet BY <2>2 DEF Return
    <3>3. Elements(reservation) = {Len(node)} /\ Instr(Len(node)).op = "ret"
      BY <1>1, <3>2, Alone
    <3>4. \A k : At(node, k) = Instr(k) BY <1>1, StateFacts
    <3> QED BY <3>1, <3>3, <3>4 DEF PhiLaunch
  <2> QED BY <2>1, <2>2
<1>4. IsSeq(node) /\ \A k \in 1..Len(node) : Formed(node, k) BY <1>1, StateFacts
<1>5. Retouched(node, node, {}) BY <1>4, Untouched
<1>6. /\ AccessStep(node, Elements(reservation), node, V)
      /\ PhiLaunch(node, V) => PhiStep(node, Elements(reservation), node, V)
  BY <1>1, <1>3, <1>5, RetouchStep
<1> HIDE DEF PhisInOrder, AccessesInOrder
<1>7. M = node /\ mem' = mem BY <1>2
<1> QED BY <1>2, <1>3, <1>6, <1>7, SequentialKept

\* An answer of the memory changes no operands.
LEMMA AnswerPhis ==
  ASSUME StateOK, NEW n, NEW v, Answered(n, v, node'), reservation' = reservation, PhisNow
  PROVE  PhisNow'
<1>1. PICK M, W : M = node' /\ W = Elements(reservation) OBVIOUS
<1>2. Len(node) \in Nat BY StateFacts
<1>3. PICK m \in Nat : m = Len(node) BY <1>2
<1>4. /\ Len(M) = m /\ SameCode(node, M, m)
      /\ \A k \in 1..m : M[k].ops = node[k].ops
  BY <1>1, <1>3 DEF Answered
<1>5. (m + 1)..m = {} /\ m <= m OBVIOUS
<1>6. PhiStep(node, W, M, W) BY <1>3, <1>4, <1>5 DEF PhiStep
<1>7. PhisOK(node, W) BY <1>1 DEF PhisNow
<1>8. PhisOK(M, W) BY <1>6, <1>7, PhisKept
<1> QED BY <1>1, <1>8 DEF PhisNow

\* The memory serves a request.
LEMMA ServeReadSequential ==
  ASSUME Inv, NEW i, ServeRead(i)
  PROVE  Sequential
<1>1. StateOK BY DEF Inv
<1>2. /\ i \in 1..Len(readQueue)
      /\ node' = [node EXCEPT ![readQueue[i]].value = Word(Address(readQueue[i]))]
      /\ reservation' = reservation /\ mem' = mem
  BY DEF ServeRead, queues
<1>3. PICK n, v, M : n = readQueue[i] /\ v = Word(Address(n)) /\ M = node' OBVIOUS
<1>4. n \in 1..Len(node) /\ n \in Open(node) /\ n \notin Elements(reservation)
  BY <1>1, <1>2, <1>3, QueuedNode
<1>5. Instr(n).op = "load"
  <2>1. n \in Elements(readQueue) BY <1>2, <1>3 DEF Elements
  <2>2. QueueSets(node, reservation, computeQueue, readQueue, writeQueue)
        /\ \A k : At(node, k) = Instr(k)
    BY <1>1, StateFacts
  <2> QED BY <2>1, <2>2 DEF QueueSets
<1>6. M = [node EXCEPT ![n].value = v] BY <1>2, <1>3
<1>7. Answered(n, v, M) BY <1>1, <1>4, <1>6, AnswerIs
<1>8. ASSUME PhisNow PROVE PhisNow' BY <1>1, <1>2, <1>3, <1>7, <1>8, AnswerPhis
<1>9. ASSUME AccessesInOrder, AccessesNow PROVE AccessesNow'
  <2>1. AccessesOK(node, Elements(reservation), mem) BY <1>9 DEF AccessesNow
  <2>2. AccessesOK(M, Elements(reservation), mem)
    <3> HIDE DEF AccessesInOrder
    <3> QED BY <1>1, <1>3, <1>4, <1>5, <1>7, <1>9, <2>1, ReadServed
  <2> QED BY <1>2, <1>3, <2>2 DEF AccessesNow
<1> HIDE DEF AccessesInOrder, PhisInOrder, AccessesNow, PhisNow
<1> QED BY <1>8, <1>9 DEF Sequential

\* The same for a store.
LEMMA ServeWriteSequential ==
  ASSUME Inv, NEW i, ServeWrite(i)
  PROVE  Sequential
<1>1. StateOK /\ RestOK BY DEF Inv
<1>2. /\ i \in 1..Len(writeQueue)
      /\ node' = [node EXCEPT ![writeQueue[i]].value = writeQueue[i]]
      /\ mem' = [a \in DOMAIN mem \cup {Address(writeQueue[i])} |->
                   IF a = Address(writeQueue[i]) THEN writeQueue[i] ELSE mem[a]]
      /\ reservation' = reservation
  BY DEF ServeWrite, queues
<1>3. PICK n, M, words : n = writeQueue[i] /\ M = node' /\ words = mem' OBVIOUS
<1>4. /\ n \in 1..Len(node) /\ n \in Open(node) /\ n \notin Elements(reservation)
      /\ Instr(n).op = "store"
  BY <1>1, <1>2, <1>3, QueuedNode
<1>5. /\ M = [node EXCEPT ![n].value = n]
      /\ words = [a \in DOMAIN mem \cup {Address(n)} |-> IF a = Address(n) THEN n ELSE mem[a]]
  BY <1>2, <1>3
<1>6. Answered(n, n, M) BY <1>1, <1>4, <1>5, AnswerIs
<1>7. ASSUME PhisNow PROVE PhisNow' BY <1>1, <1>2, <1>3, <1>6, <1>7, AnswerPhis
<1>8. ASSUME AccessesInOrder, AccessesNow PROVE AccessesNow'
  <2>1. AccessesOK(node, Elements(reservation), mem) BY <1>8 DEF AccessesNow
  <2>2. AccessesOK(M, Elements(reservation), words)
    <3> HIDE DEF AccessesInOrder
    <3> QED BY <1>1, <1>4, <1>5, <1>6, <1>8, <2>1, WriteServed
  <2> QED BY <1>2, <1>3, <2>2 DEF AccessesNow
<1> HIDE DEF AccessesInOrder, PhisInOrder, AccessesNow, PhisNow
<1> QED BY <1>7, <1>8 DEF Sequential

\* The phis when block b has come in: the table has its nodes.
LEMMA BlockPhis ==
  ASSUME StateOK, NEW b \in Blocks, NEW K, WithBlock(K, b), NEW M, Len(M) = Len(K),
         SameCode(K, M, Len(K)), \A k \in 1..Len(node) : M[k].ops = node[k].ops,
         NEW V, Fresh(b) \subseteq V,
         \A k \in Elements(reservation) : k \notin V => At(node, k).op # "phi"
  PROVE  PhiStep(node, Elements(reservation), M, V) /\ SameCode(node, M, Len(node))
<1>1. Len(node) \in Nat /\ Len(Code[b]) \in Nat BY BlockCode
<1>2. PICK m \in Nat, l \in Nat : m = Len(node) /\ l = Len(Code[b]) BY <1>1
<1>3. Len(K) = m + l /\ \A n \in 1..m : K[n] = node[n] BY <1>2 DEF WithBlock
<1>4. m + l \in Nat /\ m <= m + l /\ \A n \in 1..m : n \in 1..(m + l) BY <1>2
<1>5. SameCode(node, M, m) BY <1>3, <1>4 DEF SameCode, Same
<1>6. \A n \in (m + 1)..(m + l) : n \in V BY <1>2 DEF Fresh
<1> QED BY <1>2, <1>3, <1>4, <1>5, <1>6 DEF PhiStep

\* The first block.
LEMMA FirstSequential ==
  ASSUME StateOK, LastOK, ~finished, reservation = <<>>, mem' = mem,
         node' = ScheduleBB(currBB, prevBB, node), reservation' = NewNumbers(currBB)
  PROVE  Sequential
<1>1. PICK b, M, V, W : b = currBB /\ M = node' /\ V = Elements(reservation')
                        /\ W = Elements(reservation)
  OBVIOUS
<1>2. b \in Blocks /\ prevBB \in Blocks BY <1>1 DEF LastOK
<1>3. M = ScheduleBB(b, prevBB, node) BY <1>1
<1>4. Len(node) = 0 /\ W = {} BY <1>1, NothingYet DEF Elements
<1>5. \A n \in 1..Len(node) : n \in V => n \in W BY <1>4
<1>6. ASSUME Ordered(M, V) PROVE AccessStep(node, W, M, V)
  <2> HIDE DEF ScheduleBB
  <2> QED BY <1>1, <1>2, <1>3, <1>5, <1>6, ScheduleAccesses
<1>7. WithBlock(M, b) BY <1>2, <1>3, ScheduleKeeps DEF Extended
<1>8. Fresh(b) \subseteq V
  <2>1. PICK l \in Nat : l = Len(Code[b]) BY <1>2, <1>7, BlockCode
  <2>2. PICK s : s = NewNumbers(b) OBVIOUS
  <2>3. s = [i \in 1..l |-> 0 + i] BY <1>4, <2>1, <2>2 DEF NewNumbers
  <2>4. Len(s) = l /\ \A i \in 1..l : s[i] = i BY <2>3
  <2>5. Fresh(b) = 1..l BY <1>4, <2>1 DEF Fresh
  <2> QED BY <1>1, <2>2, <2>4, <2>5 DEF Elements
<1>9. PhiStep(node, W, M, V)
  <2>1. SameCode(M, M, Len(M)) BY DEF SameCode, Same
  <2>2. \A k \in 1..Len(node) : M[k].ops = node[k].ops BY <1>4
  <2>3. \A k \in Elements(reservation) : k \notin V => At(node, k).op # "phi" BY <1>1, <1>4
  <2> QED BY <1>1, <1>2, <1>7, <1>8, <2>1, <2>2, <2>3, BlockPhis
<1> HIDE DEF AccessesInOrder, PhisInOrder
<1> QED BY <1>1, <1>6, <1>9, SequentialKept

\* A cycle.
LEMMA CycleSequential ==
  ASSUME Inv, NEW go, Cycle(go), ~finished
  PROVE  Sequential
<1>1. StateOK /\ LastOK /\ RestOK BY DEF Inv
<1>2. PICK c : c = CheckCompute OBVIOUS
<1>3. Checked(c, Elements(computeQueue)) BY <1>1, <1>2, CheckComputeIs
<1>4. PICK N : N = [n \in 1..Len(node) |->
                      IF n \in c.age THEN [node[n] EXCEPT !.cycle = @ + 1] ELSE node[n]]
  OBVIOUS
<1>5. Retouched(node, N, {}) BY <1>1, <1>4, AgedKeeps
<1>6. mem' = mem BY DEF Cycle
<1>7. CASE c.out
  <2>1. UNCHANGED <<node, queues, register, blocks, scan, used, worked>>
    BY <1>2, <1>7 DEF Cycle
  <2> QED BY <1>6, <2>1, QuietSequential DEF queues
<1>8. CASE ~c.out /\ reservation = <<>>
  <2>1. /\ node' = ScheduleBB(currBB, prevBB, Committed(N, c.commit))
        /\ reservation' = NewNumbers(currBB)
    BY <1>2, <1>4, <1>8 DEF Cycle
  <2>2. Len(node) = 0 /\ Elements(computeQueue) = {} BY <1>1, <1>8, NothingYet
  <2>3. c.commit = {} BY <1>3, <2>2 DEF Checked
  <2>4. Committed(N, c.commit) = node
    <3>1. PICK M : M = Committed(N, c.commit) OBVIOUS
    <3>2. Len(N) = 0 BY <1>5, <2>2 DEF Retouched
    <3>3. M = [n \in 1..0 |-> LET d == Signalled(N[n], c.commit)
                              IN  IF n \in c.commit THEN [d EXCEPT !.committed = TRUE] ELSE d]
      BY <3>1, <3>2 DEF Committed
    <3>4. M = [n \in {} |-> 0] BY <3>3
    <3>5. IsSeq(node) BY <1>1, StateFacts
    <3>6. node = [n \in {} |-> 0] BY <2>2, <3>5 DEF IsSeq
    <3> QED BY <3>1, <3>4, <3>6
  <2>5. node' = ScheduleBB(currBB, prevBB, node) BY <2>1, <2>4
  <2> HIDE DEF ScheduleBB, NewNumbers
  <2> QED BY <1>1, <1>6, <1>8, <2>1, <2>5, FirstSequential
<1>9. CASE ~c.out /\ reservation # <<>>
  <2>1. node' = Committed(N, c.commit) /\ reservation' = reservation
    BY <1>2, <1>4, <1>9 DEF Cycle
  <2>2. PICK M, S, V : M = node' /\ S = c.commit /\ V = Elements(reservation) OBVIOUS
  <2>3. \A k \in 1..Len(node) : N[k].value = node[k].value /\ N[k].ops = node[k].ops
    <3> SUFFICES ASSUME NEW k \in 1..Len(node)
                 PROVE  N[k].value = node[k].value /\ N[k].ops = node[k].ops
      OBVIOUS
    <3>1. PICK e : e = node[k] OBVIOUS
    <3>2. IsNode(e)
      <4>1. Formed(node, k) BY <1>1, StateFacts
      <4> QED BY <3>1, <4>1 DEF Formed
    <3>3. PICK d : d = [e EXCEPT !.cycle = @ + 1] OBVIOUS
    <3>4. d.value = e.value /\ d.ops = e.ops BY <3>2, <3>3 DEF IsNode
    <3>5. N[k] = d \/ N[k] = e BY <1>4, <3>1, <3>3
    <3> QED BY <3>1, <3>4, <3>5
  <2>4. /\ S \subseteq Open(node) /\ M = Committed(N, S)
        /\ \A k \in S : At(node, k).op \in {"load", "store"} => node[k].value # Unset
    <3>1. S \subseteq Elements(computeQueue) BY <1>3, <2>2 DEF Checked
    <3>2. QueueSets(node, reservation, computeQueue, readQueue, writeQueue)
      BY <1>1, StateFacts
    <3> QED BY <2>1, <2>2, <3>1, <3>2 DEF QueueSets
  <2>5. V \subseteq Elements(reservation) BY <2>2
  <2>6. /\ AccessStep(node, Elements(reservation), M, V)
        /\ PhiLaunch(N, V) => PhiStep(node, Elements(reservation), M, V)
    BY <1>1, <1>5, <2>3, <2>4, <2>5, CommitStep
  <2>7. PhiLaunch(N, V) BY <2>2, <2>3, NoLaunch
  <2>8. V = Elements(reservation') BY <2>1, <2>2
  <2> HIDE DEF AccessesInOrder, PhisInOrder
  <2> QED BY <1>6, <2>2, <2>6, <2>7, <2>8, SequentialKept
<1> QED BY <1>7, <1>8, <1>9

\* What a branch that is launched changes of its node.
LEMMA BranchTouches ==
  ASSUME NEW K, IsSeq(K), NEW n \in 1..Len(K), IsNode(K[n]),
         NEW M, M = [K EXCEPT ![n].ops = K[n].ops, ![n].committed = TRUE]
  PROVE  \A k \in 1..Len(K) : /\ M[k].value = K[k].value /\ M[k].ops = K[k].ops
                              /\ M[k].committed <=> (k = n \/ K[k].committed)
<1>1. PICK c : c = K[n] OBVIOUS
<1>2. PICK d : d = [c EXCEPT !.ops = c.ops, !.committed = TRUE] OBVIOUS
<1>3. d.value = c.value /\ d.ops = c.ops /\ d.committed = TRUE BY <1>1, <1>2 DEF IsNode
<1>4. K = [k \in 1..Len(K) |-> K[k]] BY DEF IsSeq
<1>5. M = [K EXCEPT ![n] = d] BY <1>1, <1>2, <1>4
<1>6. \A k \in 1..Len(K) : M[k] = IF k = n THEN d ELSE K[k] BY <1>4, <1>5
<1> QED BY <1>1, <1>3, <1>6

\* A branch.
LEMMA BranchSequential ==
  ASSUME Inv, NEW b \in Blocks, Branch(b)
  PROVE  Sequential
<1>1. StateOK /\ LastOK /\ RestOK BY DEF Inv
<1>2. PICK n, K, M, res, V, W :
        /\ n = Current /\ K = ScheduleBB(b, currBB, node) /\ M = node'
        /\ res = reservation' /\ V = Elements(res) /\ W = Elements(reservation)
  OBVIOUS
<1>3. /\ Launchable /\ Instr(n).op = "br"
      /\ M = [K EXCEPT ![n].ops = Operands(n), ![n].committed = TRUE]
      /\ res = Without(reservation, scan) \o NewNumbers(b) /\ mem' = mem
  BY <1>2 DEF Branch, CanBranch
<1>4. currBB \in Blocks BY <1>1 DEF LastOK
<1>5. Extended(K, b) BY <1>1, <1>2, <1>4, ScheduleKeeps
<1>6. WithBlock(K, b) /\ NodesOK(K, Table2(b)) /\ Open(K) = Open(node) \cup Fresh(b)
  BY <1>5 DEF Extended
<1>7. V = (W \ {n}) \cup Fresh(b) /\ Len(M) = Len(K) /\ SameCode(K, M, Len(K))
  <2>1. Branched(n, b, K, M, res)
    <3> HIDE DEF Launchable, Operands, Without, NewNumbers
    <3> QED BY <1>1, <1>2, <1>3, <1>5, BranchSound
  <2> QED BY <1>2, <2>1 DEF Branched
<1>8. Operands(n) = node[n].ops BY <1>1, <1>2, <1>3, BranchOperands
<1>9. n \in 1..Len(node) BY <1>1, <1>2, <1>3, LaunchFacts
<1>10. Len(node) \in Nat /\ Len(Code[b]) \in Nat /\ \A k : At(node, k) = Instr(k)
  BY <1>1, <1>6, BlockCode, StateFacts
<1>11. PICK m \in Nat, l \in Nat : m = Len(node) /\ l = Len(Code[b]) BY <1>10
<1>12. IsSeq(K) /\ Len(K) = m + l /\ \A k \in 1..m : K[k] = node[k]
  BY <1>6, <1>11 DEF WithBlock
<1>13. \A k \in 1..m : k \in 1..(m + l) BY <1>11
<1>14. \A k \in 1..(m + l) : /\ M[k].value = K[k].value /\ M[k].ops = K[k].ops
                             /\ M[k].committed <=> (k = n \/ K[k].committed)
  <2>1. n \in 1..Len(K) BY <1>9, <1>11, <1>12, <1>13
  <2>2. IsNode(K[n]) BY <1>6, <2>1 DEF NodesOK, Formed
  <2>3. K[n] = node[n] BY <1>9, <1>11, <1>12
  <2>4. M = [K EXCEPT ![n].ops = K[n].ops, ![n].committed = TRUE]
    <3> HIDE DEF Operands
    <3> QED BY <1>3, <1>8, <2>3
  <2>5. \A k \in 1..Len(K) : /\ M[k].value = K[k].value /\ M[k].ops = K[k].ops
                             /\ M[k].committed <=> (k = n \/ K[k].committed)
    BY <1>12, <2>1, <2>2, <2>4, BranchTouches
  <2> QED BY <1>12, <2>5
<1>15. \A k \in 1..(m + l) : k \in Open(M) <=> k \in Open(K) /\ k # n
  BY <1>7, <1>12, <1>14 DEF Open
<1>16. Fresh(b) = (m + 1)..(m + l) BY <1>11 DEF Fresh
<1>17. PhiStep(node, W, M, V) /\ SameCode(node, M, Len(node))
  <2>1. \A k \in 1..Len(node) : M[k].ops = node[k].ops BY <1>11, <1>12, <1>13, <1>14
  <2>2. Fresh(b) \subseteq V BY <1>7
  <2>3. \A k \in Elements(reservation) : k \notin V => At(node, k).op # "phi"
    BY <1>2, <1>3, <1>7, <1>10
  <2> QED BY <1>1, <1>2, <1>6, <1>7, <2>1, <2>2, <2>3, BlockPhis
<1>18. ASSUME Ordered(M, V) PROVE AccessStep(node, W, M, V)
  <2>1. \A k \in 1..Len(node) : k \in V => k \in W BY <1>7, <1>11, <1>16
  <2>2. AccessStep(node, W, K, V)
    <3>1. \A k \in Open(K) : At(K, k).op = "store" => k \in Open(M)
      <4>1. At(K, n).op = "br" BY <1>3, <1>9, <1>11, <1>12 DEF At, Instr
      <4>2. \A k \in Open(K) : k \in 1..(m + l) BY <1>12 DEF Open
      <4> QED BY <1>15, <4>1, <4>2
    <3>2. Len(K) \in Nat BY <1>11, <1>12
    <3>3. Ordered(K, V) BY <1>7, <1>18, <3>1, <3>2, OrderedBefore
    <3> HIDE DEF ScheduleBB
    <3> QED BY <1>1, <1>2, <1>4, <2>1, <3>3, ScheduleAccesses
  <2>3. ASSUME NEW k \in 1..m
        PROVE  /\ M[k].value = node[k].value
               /\ k \in V => k \in W
               /\ k \in Open(M) => k \in Open(node)
               /\ k \in Open(node) \ Open(M) /\ At(node, k).op \in {"load", "store"}
                    => node[k].value # Unset
    <3>1. M[k].value = node[k].value BY <1>12, <1>13, <1>14
    <3>2. k \in V => k \in W BY <1>11, <2>1
    <3>3. k \in Open(M) => k \in Open(node) BY <1>6, <1>13, <1>15, <1>16
    <3>4. k \in Open(node) \ Open(M) => k = n BY <1>6, <1>13, <1>15
    <3>5. At(node, n).op = "br" BY <1>3, <1>10
    <3> QED BY <3>1, <3>2, <3>3, <3>4, <3>5
  <2>4. ASSUME NEW k \in (m + 1)..(m + l)
        PROVE  /\ M[k].value = Unset /\ k \in Open(M)
               /\ At(M, k).op = "load" => RawLinked(M, k)
    <3>1. k \in 1..(m + l) /\ k # n BY <1>9, <1>11
    <3>2. /\ K[k].value = Unset /\ k \in Open(K)
          /\ At(K, k).op = "load" => RawLinked(K, k)
      BY <1>11, <1>12, <2>2 DEF AccessStep
    <3>3. M[k].value = Unset /\ k \in Open(M) BY <1>14, <1>15, <3>1, <3>2
    <3>4. Len(K) \in Nat /\ k \in 1..Len(K) BY <1>12, <3>1
    <3>5. At(M, k) = At(K, k) BY <1>7, <3>4, Unmoved
    <3>6. \A j \in 1..Len(K) : j \in Open(M) => j \in Open(K) BY <1>12, <1>15
    <3>7. ASSUME RawLinked(K, k) PROVE RawLinked(M, k)
      BY <1>7, <3>4, <3>6, <3>7, RawKept
    <3> QED BY <3>2, <3>3, <3>5, <3>7
  <2>5. m + l \in Nat /\ m <= m + l BY <1>11
  <2> QED BY <1>7, <1>11, <1>12, <1>17, <2>3, <2>4, <2>5 DEF AccessStep
<1> HIDE DEF AccessesInOrder, PhisInOrder
<1> QED BY <1>2, <1>3, <1>17, <1>18, SequentialKept

\* Nothing has been served and there are no phis before the engine is started.
LEMMA InitSequential ==
  ASSUME Init
  PROVE  AccessesNow /\ PhisNow
<1>1. node = <<>> /\ mem = [a \in {} |-> 0] BY DEF Init
<1>2. Len(node) = 0 /\ 1..Len(node) = {} BY <1>1
<1>3. \A a : Served(node, a) = {} BY <1>2 DEF Served
<1>4. MemoryOK(node, mem) BY <1>1, <1>3 DEF MemoryOK, Latest
<1>5. ValuesOK(node, Elements(reservation)) /\ LoadsOK(node) BY <1>2 DEF ValuesOK, LoadsOK
<1>6. PhisOK(node, Elements(reservation)) BY <1>2 DEF PhisOK
<1> QED BY <1>4, <1>5, <1>6 DEF AccessesNow, AccessesOK, PhisNow

\* Every step keeps the values of sequential execution.
LEMMA NextSequential ==
  ASSUME Inv, [Next]_vars
  PROVE  Sequential
<1>1. CASE Initialize
  <2>1. Cycle(~running /\ ~finished /\ ~aborted) BY <1>1 DEF Initialize
  <2>2. ~finished BY <2>1 DEF Cycle
  <2> QED BY <2>1, <2>2, CycleSequential
<1>2. CASE Tick
  <2>1. Cycle(running) BY <1>2 DEF Tick
  <2>2. running BY <2>1 DEF Cycle
  <2>3. ~finished BY <2>2, NotFinished DEF Inv
  <2> QED BY <2>1, <2>3, CycleSequential
<1>3. CASE LaunchLoad \/ LaunchStore BY <1>3, LaunchLoadSequential
<1>4. CASE LaunchCompute \/ LaunchImmediate BY <1>4, LaunchComputeSequential
<1>5. ASSUME NEW b \in Blocks, Branch(b) PROVE Sequential BY <1>5, BranchSequential
<1>6. CASE Return
  <2>1. Inv' BY <1>6, ReturnKeeps
  <2>2. finished' /\ UNCHANGED <<node, mem>> BY <1>6 DEF Return
  <2>3. reservation' = <<>> BY <2>1, <2>2 DEF Inv, LastOK
  <2> QED BY <1>6, <2>2, <2>3, QuietSequential
<1>7. CASE Skip \/ EndScan \/ UNCHANGED vars
  <2>1. UNCHANGED <<node, mem, reservation>> BY <1>7 DEF Skip, EndScan, vars, queues
  <2> QED BY <2>1, QuietSequential
<1>8. ASSUME NEW i, ServeRead(i) PROVE Sequential BY <1>8, ServeReadSequential
<1>9. ASSUME NEW i, ServeWrite(i) PROVE Sequential BY <1>9, ServeWriteSequential
<1>10. ASSUME NEW i, ReadCommit(i) \/ WriteCommit(i) PROVE Sequential
  BY <1>10, AccessCommitSequential
<1> QED
  BY <1>1, <1>2, <1>3, <1>4, <1>5, <1>6, <1>7, <1>8, <1>9, <1>10
  DEF Next, Scan, Turn, Reads, Writes

\* What the values say of loads and of the memory at the end.
LEMMA AccessResults ==
  ASSUME Inv, AccessesNow
  PROVE  LoadsInProgramOrder /\ FinalMemory
<1>1. StateOK /\ LastOK BY DEF Inv
<1>2. Len(node) \in Nat /\ \A k : At(node, k) = Instr(k) BY <1>1, StateFacts
<1>3. ValuesOK(node, Elements(reservation)) /\ MemoryOK(node, mem) /\ LoadsOK(node)
  BY DEF AccessesNow, AccessesOK
<1>4. \A k : AddressOf(node, k) = Target(k) BY Targets
<1>5. ASSUME NEW a, NEW n \in 1..(Len(node) + 1)
      PROVE  LastStore(a, n) = Latest(StoresBefore(node, a, n))
  <2>1. {m \in Stores : m < n /\ Target(m) = a} = StoresBefore(node, a, n)
    BY <1>2, <1>4 DEF Stores, Nodes, StoresBefore
  <2> QED BY <2>1 DEF LastStore
<1>6. ASSUME NEW n \in Nodes, Instr(n).op \in {"load", "store"}, node[n].committed
      PROVE  node[n].value # Unset
  <2>1. n \notin Open(node) /\ n \in 1..Len(node) BY <1>6 DEF Open, Nodes
  <2> QED BY <1>2, <1>3, <1>6, <2>1 DEF ValuesOK
<1>7. LoadsInProgramOrder
  <2> SUFFICES ASSUME NEW n \in Nodes, Instr(n).op = "load", node[n].committed
               PROVE  node[n].value = LastStore(Target(n), n)
    BY DEF LoadsInProgramOrder
  <2>1. node[n].value # Unset BY <1>6
  <2>2. node[n].value = Latest(StoresBefore(node, AddressOf(node, n), n))
    BY <1>2, <1>3, <2>1 DEF LoadsOK, Nodes
  <2>3. n \in 1..(Len(node) + 1) BY <1>2 DEF Nodes
  <2> QED BY <1>4, <1>5, <2>2, <2>3
<1>8. FinalMemory
  <2> SUFFICES ASSUME finished, NEW a PROVE Word(a) = LastStore(a, Len(node) + 1)
    BY DEF FinalMemory
  <2>1. \A n \in Nodes : node[n].committed \/ Instr(n).op = "ret" BY <1>1 DEF LastOK
  <2>2. \A n \in Nodes : Instr(n).op = "store" => node[n].value # Unset BY <1>6, <2>1
  <2>3. 1..(Len(node) + 1 - 1) = 1..Len(node) /\ Nodes = 1..Len(node) BY <1>2 DEF Nodes
  <2>4. Served(node, a) = StoresBefore(node, a, Len(node) + 1)
    BY <1>2, <2>2, <2>3 DEF Served, StoresBefore
  <2>5. Len(node) + 1 \in 1..(Len(node) + 1) BY <1>2
  <2> QED BY <1>3, <1>5, <2>4, <2>5 DEF MemoryOK, Word
<1> QED BY <1>7, <1>8

\* What the operands say of phis.
LEMMA PhiResults ==
  ASSUME Inv, PhisNow
  PROVE  PhiReadsOnEntry
<1> SUFFICES ASSUME NEW n \in Nodes, Instr(n).op = "phi", ~Waiting(n),
                    NEW j \in 1..Len(Dependencies(Instr(n), node[n].prev))
             PROVE  node[n].ops[j] = LastWriter(Dependencies(Instr(n), node[n].prev)[j], n)
  BY DEF PhiReadsOnEntry
<1>1. \A k : At(node, k) = Instr(k) BY StateFacts DEF Inv
<1>2. PICK d : d = DepsAt(node, n) OBVIOUS
<1>3. d = Dependencies(Instr(n), node[n].prev) BY <1>1, <1>2 DEF DepsAt
<1>4. node[n].ops[j] = WriterBefore(node, d[j], n)
  BY <1>1, <1>2, <1>3 DEF PhisNow, PhisOK, Nodes, Waiting
<1>5. WriterBefore(node, d[j], n) = LastWriter(d[j], n)
  BY DEF WriterBefore, LastWriter, At, Instr
<1> QED BY <1>3, <1>4, <1>5

\* Loads return, and the memory ends up with, what sequential execution gives, in
\* every execution whose accesses stay in order, whatever addresses the pointer
\* registers take: although loads overtake stores, and detectRAW() compares
\* registers only and looks at the table before the stores that were sent, the store
\* it links a load to comes after every one that matters.
THEOREM AccessesInSequence ==
  Spec /\ []AccessesInOrder => [](LoadsInProgramOrder /\ FinalMemory)
<1>1. Init => AccessesNow BY InitSequential
<1>2. Inv /\ AccessesInOrder /\ AccessesInOrder' /\ AccessesNow /\ [Next]_vars => AccessesNow'
  BY NextSequential DEF Sequential
<1>3. Inv /\ AccessesNow => LoadsInProgramOrder /\ FinalMemory BY AccessResults
<1> QED BY <1>1, <1>2, <1>3, EngineInvariant, PTL DEF Spec

\* A phi, which reads its register when it is launched, reads what the register has
\* when its block is entered, in every execution in which no later node commits to
\* that register first.
THEOREM PhisInSequence == Spec /\ []PhisInOrder => []PhiReadsOnEntry
<1>1. Init => PhisNow BY InitSequential
<1>2. Inv /\ PhisInOrder /\ PhisNow /\ [Next]_vars => PhisNow'
  BY NextSequential DEF Sequential
<1>3. Inv /\ PhisNow => PhiReadsOnEntry BY PhiResults
<1> QED BY <1>1, <1>2, <1>3, EngineInvariant, PTL DEF Spec

\* Sequential execution: phis, loads and the final memory are those of the program
\* run one instruction after the other, for every program whose accesses and phis
\* stay in order, the part that scheduleBB() leaves to the program.
THEOREM SequentialExecution ==
  Spec /\ []AccessesInOrder /\ []PhisInOrder => []SequentialResults
<1>1. PhiReadsOnEntry /\ LoadsInProgramOrder /\ FinalMemory => SequentialResults
  BY DEF SequentialResults
<1> QED BY <1>1, AccessesInSequence, PhisInSequence, PTL
=============================================================================
