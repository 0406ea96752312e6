---------------------------- MODULE LLVMInterface ----------------------------
(***************************************************************************)
(* The runtime engine of an accelerator (llvm_interface.cc/.hh, with the   *)
(* node methods of base_instruction.cc and instructions.cc).  Basic blocks *)
(* are copied into a reservation table; a node waits there for its         *)
(* parents, the nodes in flight that produce its operands; loads and       *)
(* stores go to the communications interface, other nodes to the compute   *)
(* queue; a branch brings in the next block while older nodes still wait,  *)
(* so nodes of several loop iterations are under way together.             *)
(*                                                                         *)
(* Values are abstracted to where they come from: a register, an operand   *)
(* or a memory word holds the number of the node that produced it, in      *)
(* program order, and 0 for what was there at the start.  The loop of      *)
(* tick() over the reservation table is modelled one iteration per step    *)
(* (variable scan); other events wait until it is over.  Which way a       *)
(* branch goes is left open.                                               *)
(***************************************************************************)
EXTENDS Integers, Sequences, FiniteSets

CONSTANTS
  Regs,          \* the registers
  Blocks,        \* the basic blocks
  Code,          \* Code[b]: the instructions of block b, see Instruction
  Entry,         \* the entry block
  Addr(_, _),    \* Addr(r, v): the address in pointer register r when node v wrote it
  Units,         \* the kinds of functional units
  Configs,       \* the configurations: lockstep_mode, and how many units of a kind
  Threshold,     \* sched_threshold
  MaxBlocks,     \* bound: blocks that are entered before branches leave the loops
  None

Ops == {"load", "store", "phi", "gep", "op", "br", "ret"}

Instruction ==
  [op : Ops,
   ret : Regs \cup {None},       \* _ReturnRegister
   deps : Seq(Regs),             \* _Dependencies
   phi : [Blocks -> Regs \cup {None}],  \* of a phi: its register for a previous block
   ptr : Regs \cup {None},       \* _RawCheck of a load or store
   base : Regs \cup {None},      \* _PtrVal of a getelementptr
   cycles : Nat,                 \* _MaxCycle
   unit : Units,                 \* _FunctionalUnit
   dests : SUBSET Blocks]        \* of a branch

\* A block ends in its only branch or ret; loads and stores take 0 cycles
\* ("Must be 0, handled by memory controller"), and their pointer is their first
\* dependency.
ASSUME CodeAssumption ==
  /\ Entry \in Blocks /\ None \notin Regs
  /\ Code \in [Blocks -> Seq(Instruction)]
  /\ \A b \in Blocks :
       /\ Len(Code[b]) > 0
       /\ \A i \in 1..Len(Code[b]) :
            /\ Code[b][i].op \in {"br", "ret"} <=> i = Len(Code[b])
            /\ Code[b][i].op = "br" => Code[b][i].dests # {}
            /\ Code[b][i].op \in {"load", "store"} => Code[b][i].cycles = 0
            /\ Code[b][i].op \in {"store", "br", "ret"} <=> Code[b][i].ret = None
            /\ Code[b][i].op \in {"load", "store"} =>
                 Code[b][i].deps # <<>> /\ Code[b][i].deps[1] = Code[b][i].ptr
            /\ Code[b][i].op = "gep" => Code[b][i].base \in Regs

\* LLVM code is in static single assignment form: a register is returned by one
\* instruction, and only a phi can depend on the register that it returns.
ASSUME SSAAssumption ==
  \A b \in Blocks : \A i \in 1..Len(Code[b]) :
    /\ \A c \in Blocks : \A k \in 1..Len(Code[c]) :
         Code[b][i].ret # None /\ Code[c][k].ret = Code[b][i].ret => c = b /\ k = i
    /\ Code[b][i].op # "phi" =>
         \A j \in 1..Len(Code[b][i].deps) : Code[b][i].deps[j] # Code[b][i].ret

ASSUME ThresholdAssumption ==
  Threshold \in Nat /\ Threshold > 1 /\ MaxBlocks \in Nat \ {0}

\* A limit of -1 is no limit; with a limit of 0 no node of the kind would ever run.
ASSUME ConfigAssumption ==
  Configs \subseteq [lockstep : BOOLEAN, limit : [Units -> (Nat \ {0}) \cup {-1}]]

VARIABLES
  node,          \* every node so far, in program order
  reservation, computeQueue, readQueue, writeQueue,   \* node numbers
  register,      \* the value of each register
  mem,           \* the value at each address that was written
  currBB, prevBB,
  entered,       \* how many blocks were entered
  running, finished,
  scan,          \* the place of the loop over the reservation table, or 0
  aborted,       \* an index ran past the end of the reservation table
  config,        \* the configuration, which never changes
  used,          \* _FunctionalUnits: the units counted in this cycle
  worked         \* history: the nodes that were given a unit in this cycle

queues == <<reservation, computeQueue, readQueue, writeQueue>>
blocks == <<currBB, prevBB, entered>>
status == <<running, finished, aborted>>
hardware == <<config, used, worked>>
vars == <<node, queues, register, mem, blocks, status, scan, hardware>>

Unset == -1      \* a field that nothing has been assigned to

Line(n) == <<node[n].blk, node[n].idx>>
Instr(n) == Code[node[n].blk][node[n].idx]

\* runtimeDependencies() of instruction c when the previous block was prev.
Dependencies(c, prev) ==
  IF c.op # "phi" THEN c.deps
  ELSE IF c.phi[prev] = None THEN <<>> ELSE <<c.phi[prev]>>

Init ==
  /\ node = <<>>
  /\ reservation = <<>> /\ computeQueue = <<>> /\ readQueue = <<>> /\ writeQueue = <<>>
  /\ register = [r \in Regs |-> 0]
  /\ mem = [a \in {} |-> 0]
  /\ currBB = Entry /\ prevBB = Entry /\ entered = 0
  /\ running = FALSE /\ finished = FALSE /\ aborted = FALSE
  /\ scan = 0
  /\ config \in Configs /\ used = [u \in Units |-> 0] /\ worked = {}

----------------------------------------------------------------------------
(***************************************************************************)
(* scheduleBB()                                                            *)
(***************************************************************************)

\* The last element of queue q that is in S, as a sequence of at most one.
Last(q, S) ==
  LET I == {i \in 1..Len(q) : q[i] \in S}
  IN  IF I = {} THEN <<>> ELSE <<q[CHOOSE i \in I : \A j \in I : j <= i]>>

\* Mutant: the nodes in flight are searched before those that wait.
FoundInFlight(s1, s2, s3) == IF s2 # <<>> THEN s2 ELSE IF s3 # <<>> THEN s3 ELSE s1

\* The first of three search results that found something.
FirstFound(s1, s2, s3) == IF s1 # <<>> THEN s1 ELSE IF s2 # <<>> THEN s2 ELSE s3

\* findParent() of a register, which the nodes in S return: nodes that wait, then
\* nodes that compute, then loads.
FindParent(waiting, S) ==
  FirstFound(Last(waiting, S), Last(computeQueue, S), Last(readQueue, S))

\* Mutant: an instance that was launched no longer counts.
PreviousWaiting(waiting, S) == Last(waiting, S)

\* findParent() of a line, whose instances are S: the same search.
PreviousInstance(waiting, S) == FindParent(waiting, S)

\* Mutant: a store that was sent no longer counts.
DetectWaitingRAW(waiting, S) == Last(waiting, S)

\* detectRAW() of a register, through which the nodes in S store: the last store
\* that waits, then the last that was sent.
DetectRAW(waiting, S) ==
  FirstFound(Last(waiting, S), Last(writeQueue, S), <<>>)

\* Node number n0 + i, the i-th of block b, with prev the previous block.
NewNode(b, prev, n0, i) ==
  LET c == Code[b][i]
      In(n) == IF n > n0 THEN Code[b][n - n0] ELSE Instr(n)
      LineOf(n) == IF n > n0 THEN <<b, n - n0>> ELSE Line(n)
      waiting == reservation \o [k \in 1..(i - 1) |-> n0 + k]
      known == 1..(n0 + i - 1)
      Returns(r) == FindParent(waiting, {n \in known : In(n).ret = r})
      deps == Dependencies(c, prev)
      line == IF c.ret = None THEN <<>>
              ELSE PreviousInstance(waiting, {n \in known : LineOf(n) = <<b, i>>})
      raw == IF c.op # "load" THEN <<>>
             ELSE DetectRAW(waiting, {n \in known : In(n).op = "store" /\ In(n).ptr = c.ptr})
      base == IF c.op # "gep" THEN <<>> ELSE Returns(c.base)
      found == [j \in 1..Len(deps) |-> Returns(deps[j])]
      fromDeps == LET S == {j \in 1..Len(deps) : found[j] # <<>>}
                  IN  [j \in S |-> found[j][1]]
  IN  [blk |-> b, idx |-> i, prev |-> prev,
       others |-> line \o raw \o base,
       producers |-> fromDeps,
       active |-> Len(line \o raw \o base) + Cardinality(DOMAIN fromDeps)
                  + (IF c.op = "ret" THEN 1 ELSE 0),
       ops |-> [j \in 1..Len(deps) |->
                  IF found[j] = <<>> THEN register[deps[j]] ELSE Unset],
       base |-> IF c.op = "gep" /\ base = <<>> THEN register[c.base] ELSE Unset,
       cycle |-> 0, value |-> Unset, committed |-> FALSE]

ScheduleBB(b, prev, nodes) ==
  nodes \o [i \in 1..Len(Code[b]) |-> NewNode(b, prev, Len(nodes), i)]
NewNumbers(b) == [i \in 1..Len(Code[b]) |-> Len(node) + i]

----------------------------------------------------------------------------
(***************************************************************************)
(* commit() and signalChildren()                                           *)
(***************************************************************************)

\* Links of child c to the nodes in S.
Links(c, S) ==
  Cardinality({j \in DOMAIN c.producers : c.producers[j] \in S})
  + Cardinality({k \in 1..Len(c.others) : c.others[k] \in S})

\* Mutant: a parent that is linked twice is counted once.
SignalledOnce(c, S) == [c EXCEPT !.active = IF Links(c, S) > 0 THEN @ - 1 ELSE @]

\* Child c after its parents in S have committed.  fetchDependency() compares
\* registers, so a parent also fills an operand that has another producer if
\* that one returns to the same register.
Signalled(c, S) ==
  LET i == Code[c.blk][c.idx]
      deps == Dependencies(i, c.prev)
      By(j) == {p \in S : /\ Instr(p).ret = deps[j] /\ Instr(p).ret # i.ret
                          /\ Links(c, {p}) > 0}
  IN  [c EXCEPT
         !.active = @ - Links(c, S),
         !.ops = [j \in 1..Len(deps) |->
                    IF By(j) = {} THEN @[j] ELSE CHOOSE p \in By(j) : TRUE]]

\* The nodes after those of S have committed; they are nodes of different
\* instructions, so the order among them does not matter.
Committed(nodes, S) ==
  [n \in 1..Len(nodes) |->
     LET c == Signalled(nodes[n], S)
     IN  IF n \in S THEN [c EXCEPT !.committed = TRUE] ELSE c]

\* The registers after that.
Written(regs, S) ==
  [r \in Regs |->
     IF \E p \in S : Instr(p).ret = r
       THEN CHOOSE p \in S : Instr(p).ret = r ELSE regs[r]]

----------------------------------------------------------------------------
(***************************************************************************)
(* tick()                                                                  *)
(***************************************************************************)

\* limitedFU(): whether a unit of kind u is left when count[u] of them are taken.
\* When all limits are -1 (unlimitedMode()) the code only counts, for reports, in
\* which it includes loads, stores and branches.
LimitedFU(count, u) == config.limit[u] = -1 \/ count[u] < config.limit[u]

\* A round of the loop over the compute queue, at node n.  The unit is looked up
\* with reservation.at(i), where i is a place in the compute queue: it is the unit
\* of some node that waits, and an exception ends the loop when the reservation
\* table is shorter.  rest is what stays in the queue.
CheckNode(s, n) ==
  LET u == Instr(reservation[s.i + 1]).unit
      more == [s.count EXCEPT ![u] = @ + 1]
  IN  IF s.out \/ s.i >= Len(reservation) THEN [s EXCEPT !.out = TRUE]
      ELSE IF ~LimitedFU(s.count, u)
        THEN [s EXCEPT !.i = @ + 1, !.rest = Append(@, n)]
      ELSE IF node[n].cycle >= Instr(n).cycles
        THEN [s EXCEPT !.count = more, !.commit = @ \cup {n}]
        ELSE [s EXCEPT !.count = more, !.age = @ \cup {n}, !.i = @ + 1,
                       !.rest = Append(@, n)]

\* The loop: after[j] is its state after j rounds.
CheckCompute ==
  LET after[j \in 0..Len(computeQueue)] ==
        IF j = 0
          THEN [i |-> 0, count |-> [u \in Units |-> 0], commit |-> {}, age |-> {},
                rest |-> <<>>, out |-> FALSE]
          ELSE CheckNode(after[j - 1], computeQueue[j])
  IN  after[Len(computeQueue)]

\* clearFU() and the loop over the compute queue, the first block, and the start
\* of the loop over the reservation table.
Cycle(go) ==
  /\ go /\ scan = 0
  /\ \E c \in {CheckCompute} :
       LET aged == [n \in 1..Len(node) |->
                      IF n \in c.age THEN [node[n] EXCEPT !.cycle = @ + 1] ELSE node[n]]
           busy == c.rest # <<>> \/ readQueue # <<>> \/ writeQueue # <<>>
           first == reservation = <<>>
       IN  IF c.out
             THEN /\ aborted' = TRUE
                  /\ running' = FALSE
                  /\ UNCHANGED <<node, queues, register, blocks, scan, used, worked>>
             ELSE /\ register' = Written(register, c.commit)
                  /\ computeQueue' = c.rest
                  /\ node' = IF first
                               THEN ScheduleBB(currBB, prevBB, Committed(aged, c.commit))
                               ELSE Committed(aged, c.commit)
                  /\ reservation' = IF first THEN NewNumbers(currBB) ELSE reservation
                  /\ entered' = IF first THEN entered + 1 ELSE entered
                  /\ scan' = IF config.lockstep /\ busy THEN 0 ELSE 1
                  /\ running' = TRUE
                  /\ used' = c.count /\ worked' = c.commit \cup c.age
                  /\ UNCHANGED <<readQueue, writeQueue, currBB, prevBB, aborted>>
  /\ UNCHANGED <<mem, finished, config>>

\* initialize(), called by the communications interface: the first cycle.
Initialize == Cycle(~running /\ ~finished /\ ~aborted)

\* The tick event.
Tick == Cycle(running)

Current == reservation[scan]
Scanning == scan > 0 /\ scan <= Len(reservation)
Launchable == Scanning /\ node[Current].active = 0
Without(q, i) == SubSeq(q, 1, i - 1) \o SubSeq(q, i + 1, Len(q))

\* compute(): a phi and a branch read their registers now, the others use the
\* operands they were handed.
Operands(n) ==
  LET deps == Dependencies(Instr(n), node[n].prev)
  IN  IF Instr(n).op \in {"phi", "br"}
        THEN [j \in 1..Len(deps) |-> register[deps[j]]]
        ELSE node[n].ops

Computed(n) == [node EXCEPT ![n].ops = Operands(n)]

LaunchLoad ==
  /\ Launchable /\ Instr(Current).op = "load"
  /\ readQueue' = Append(readQueue, Current)
  /\ reservation' = Without(reservation, scan)
  /\ UNCHANGED <<node, computeQueue, writeQueue, register, mem, blocks, status, scan, hardware>>

\* Mutant: the store stays in the table.
LaunchStoreKept ==
  /\ Launchable /\ Instr(Current).op = "store"
  /\ writeQueue' = Append(writeQueue, Current)
  /\ scan' = scan + 1
  /\ UNCHANGED <<node, reservation, computeQueue, readQueue, register, mem, blocks, status, hardware>>

LaunchStore ==
  /\ Launchable /\ Instr(Current).op = "store"
  /\ writeQueue' = Append(writeQueue, Current)
  /\ reservation' = Without(reservation, scan)
  /\ UNCHANGED <<node, computeQueue, readQueue, register, mem, blocks, status, scan, hardware>>

Computes(n) == Instr(n).op \in {"op", "phi", "gep"}

\* A node of no cycles commits at once.
LaunchImmediate ==
  /\ Launchable /\ Computes(Current) /\ Instr(Current).cycles = 0
  /\ node' = Committed(Computed(Current), {Current})
  /\ register' = Written(register, {Current})
  /\ reservation' = Without(reservation, scan)
  /\ UNCHANGED <<computeQueue, readQueue, writeQueue, mem, blocks, status, scan, hardware>>

\* Others enter the compute queue if there is a unit left; the commit() at launch
\* counts as a cycle.
LaunchCompute ==
  /\ Launchable /\ Computes(Current) /\ Instr(Current).cycles > 0
  /\ LimitedFU(used, Instr(Current).unit)
  /\ used' = [used EXCEPT ![Instr(Current).unit] = @ + 1]
  /\ worked' = worked \cup {Current}
  /\ node' = [Computed(Current) EXCEPT ![Current].cycle = @ + 1]
  /\ computeQueue' = Append(computeQueue, Current)
  /\ reservation' = Without(reservation, scan)
  /\ UNCHANGED <<readQueue, writeQueue, register, mem, blocks, status, scan, config>>

\* A branch whose condition is known, below the threshold, can bring in block b.
\* The bound MaxBlocks makes branches leave the loops in the end.
CanBranch(b) ==
  /\ Launchable /\ Instr(Current).op = "br"
  /\ Len(reservation) < Threshold
  /\ b \in Instr(Current).dests
  /\ entered < MaxBlocks \/ Code[b][Len(Code[b])].op = "ret"

\* It leaves the table, and the block comes in.
Branch(b) ==
  /\ CanBranch(b)
  /\ LET n == Current
         rest == Without(reservation, scan)
     IN  /\ node' = [ScheduleBB(b, currBB, node) EXCEPT
                       ![n].ops = Operands(n), ![n].committed = TRUE]
         /\ reservation' = rest \o NewNumbers(b)
  /\ prevBB' = currBB /\ currBB' = b /\ entered' = entered + 1
  /\ UNCHANGED <<computeQueue, readQueue, writeQueue, register, mem, status, scan, hardware>>

Quiet == computeQueue = <<>> /\ readQueue = <<>> /\ writeQueue = <<>>

\* Mutant: the ret does not wait for requests and operations under way.
ReturnEarly ==
  /\ Scanning /\ Instr(Current).op = "ret"
  /\ scan = 1
  /\ reservation' = Without(reservation, scan)
  /\ running' = FALSE /\ finished' = TRUE
  /\ scan' = scan + 1
  /\ UNCHANGED <<node, computeQueue, readQueue, writeQueue, register, mem, blocks, aborted, hardware>>

\* ret ends the computation once it is alone; finish() of the interface.
Return ==
  /\ Scanning /\ Instr(Current).op = "ret"
  /\ scan = 1 /\ Quiet
  /\ reservation' = Without(reservation, scan)
  /\ running' = FALSE /\ finished' = TRUE
  /\ scan' = scan + 1
  /\ UNCHANGED <<node, computeQueue, readQueue, writeQueue, register, mem, blocks, aborted, hardware>>

\* A node that waits for parents or for a unit, a branch above the threshold, a ret
\* that is not alone.
Skip ==
  /\ Scanning
  /\ \/ node[Current].active # 0 /\ (Instr(Current).op = "ret" => ~(scan = 1 /\ Quiet))
     \/ node[Current].active = 0 /\ Instr(Current).op = "br" /\ Len(reservation) >= Threshold
     \/ /\ node[Current].active = 0 /\ Computes(Current) /\ Instr(Current).cycles > 0
        /\ ~LimitedFU(used, Instr(Current).unit)
  /\ scan' = scan + 1
  /\ UNCHANGED <<node, queues, register, mem, blocks, status, hardware>>

EndScan ==
  /\ scan > Len(reservation)
  /\ scan' = 0
  /\ UNCHANGED <<node, queues, register, mem, blocks, status, hardware>>

----------------------------------------------------------------------------
(***************************************************************************)
(* The memory serves the requests in flight in any order; readCommit() and *)
(* writeCommit() follow when the answer has come back.                     *)
(***************************************************************************)

\* The address of a request: the value that the node was handed for its pointer,
\* _Ops.at(0) in Load::compute() and Store::compute().
Address(n) == Addr(Instr(n).ptr, node[n].ops[1])

Word(a) == IF a \in DOMAIN mem THEN mem[a] ELSE 0

\* The memory reads or writes the word of a request (value is what was read or
\* written).
ServeRead(i) ==
  /\ scan = 0 /\ i \in 1..Len(readQueue)
  /\ node[readQueue[i]].value = Unset
  /\ node' = [node EXCEPT ![readQueue[i]].value = Word(Address(readQueue[i]))]
  /\ UNCHANGED <<queues, register, mem, blocks, status, scan, hardware>>

ServeWrite(i) ==
  /\ scan = 0 /\ i \in 1..Len(writeQueue)
  /\ node[writeQueue[i]].value = Unset
  /\ node' = [node EXCEPT ![writeQueue[i]].value = writeQueue[i]]
  /\ mem' = [a \in DOMAIN mem \cup {Address(writeQueue[i])} |->
               IF a = Address(writeQueue[i]) THEN writeQueue[i] ELSE mem[a]]
  /\ UNCHANGED <<queues, register, blocks, status, scan, hardware>>

ReadCommit(i) ==
  /\ scan = 0 /\ i \in 1..Len(readQueue)
  /\ LET n == readQueue[i]
     IN  /\ node[n].value # Unset
         /\ node' = Committed(node, {n})
         /\ register' = Written(register, {n})
  /\ readQueue' = Without(readQueue, i)
  /\ UNCHANGED <<reservation, computeQueue, writeQueue, mem, blocks, status, scan, hardware>>

WriteCommit(i) ==
  /\ scan = 0 /\ i \in 1..Len(writeQueue)
  /\ node[writeQueue[i]].value # Unset
  /\ node' = Committed(node, {writeQueue[i]})
  /\ writeQueue' = Without(writeQueue, i)
  /\ UNCHANGED <<reservation, computeQueue, readQueue, register, mem, blocks, status, scan, hardware>>

Reads == \E i \in 1..Len(readQueue) : ServeRead(i) \/ ReadCommit(i)
Writes == \E i \in 1..Len(writeQueue) : ServeWrite(i) \/ WriteCommit(i)

Turn ==
  \/ LaunchLoad \/ LaunchStore \/ LaunchImmediate \/ LaunchCompute
  \/ Return \/ Skip \/ EndScan

Scan == Turn \/ \E b \in Blocks : Branch(b)

Next == Initialize \/ Tick \/ Scan \/ Reads \/ Writes

Spec == Init /\ [][Next]_vars

\* WF_vars(\E b \in Blocks : Branch(b)): the step is enabled when CanBranch(b) holds
\* for a block b, and always adds nodes.  TLC is slow to find that out by itself.
FairBranch ==
  \/ []<>(\A b \in Blocks : ~CanBranch(b))
  \/ []<><<\E b \in Blocks : Branch(b)>>_vars

\* The engine is started; a running engine ticks, a scan comes to its end, and
\* the communications interface serves every request (EveryRequestCommits of
\* CommInterface).
FairSpec ==
  /\ Spec
  /\ WF_vars(Initialize) /\ SF_vars(Tick) /\ WF_vars(Turn) /\ FairBranch
  /\ SF_vars(Reads) /\ SF_vars(Writes)

----------------------------------------------------------------------------
(***************************************************************************)
(* Properties                                                              *)
(***************************************************************************)
Nodes == 1..Len(node)
Elements(q) == {q[i] : i \in 1..Len(q)}
Waiting(n) == n \in Elements(reservation)

\* The last node of S in program order; 0 if S is empty.
Latest(S) == IF S = {} THEN 0 ELSE CHOOSE m \in S : \A k \in S : k <= m

LastWriter(r, n) == Latest({m \in 1..(n - 1) : Instr(m).ret = r})

\* The address of an access in sequential execution, and the last store to an
\* address before node n.
Target(n) == Addr(Instr(n).ptr, LastWriter(Instr(n).ptr, n))
Stores == {n \in Nodes : Instr(n).op = "store"}
LastStore(a, n) == Latest({m \in Stores : m < n /\ Target(m) = a})

\* Every node is in at most one queue, a node that is in none has committed, and
\* operands and registers hold numbers of nodes.
TypeOK ==
  /\ Elements(reservation) \cup Elements(computeQueue) \cup Elements(readQueue)
       \cup Elements(writeQueue) \subseteq Nodes
  /\ \A n \in Nodes :
       /\ node[n].active \in Nat
       /\ node[n].committed \/ Instr(n).op = "ret" \/
            Cardinality({q \in {"w", "c", "r", "s"} :
               n \in CASE q = "w" -> Elements(reservation) [] q = "c" -> Elements(computeQueue)
                       [] q = "r" -> Elements(readQueue) [] q = "s" -> Elements(writeQueue)}) = 1
       /\ \A j \in DOMAIN node[n].ops : node[n].ops[j] \in {Unset} \cup 0..Len(node)
  /\ register \in [Regs -> 0..Len(node)] /\ \A a \in DOMAIN mem : mem[a] \in Nodes
  /\ scan \in Nat /\ entered \in 0..(MaxBlocks + 1)
  /\ config \in Configs /\ used \in [Units -> Nat] /\ worked \subseteq Nodes

\* A node is launched with the values that the program, run one instruction
\* after the other, would give it: each operand comes from the last earlier
\* node that returns to its register (findParent(), fetchDependency() and the
\* registers that br reads at launch).  For a phi see PhiReadsOnEntry.
OperandsInProgramOrder ==
  \A n \in Nodes : ~Waiting(n) /\ Instr(n).op # "phi" =>
    LET deps == Dependencies(Instr(n), node[n].prev)
    IN  \A j \in 1..Len(deps) : node[n].ops[j] = LastWriter(deps[j], n)

\* A load that has committed returned what the last earlier store to its
\* address wrote (detectRAW()).
LoadsInProgramOrder ==
  \A n \in Nodes : Instr(n).op = "load" /\ node[n].committed =>
    node[n].value = LastStore(Target(n), n)

\* _ActiveParents counts exactly the links to parents that have not committed,
\* and the extra one of a ret: no parent is signalled twice or forgotten.
ActiveParentsExact ==
  \A n \in Nodes : Waiting(n) =>
    node[n].active = Links(node[n], {m \in Nodes : ~node[m].committed})
                     + (IF Instr(n).op = "ret" THEN 1 ELSE 0)

\* When the engine has called finish(), every node has committed and no request
\* is in flight (the ret waits in tick() until it is alone).
FinishedMeansDone ==
  finished =>
    /\ Quiet /\ reservation = <<>>
    /\ \A n \in Nodes : node[n].committed \/ Instr(n).op = "ret"

\* Then the memory holds what the program, run one instruction after the other,
\* leaves in it (detectRAW() and the operands of stores).
FinalMemory ==
  finished =>
    \A a \in DOMAIN mem \cup {Target(n) : n \in Stores} :
      Word(a) = LastStore(a, Len(node) + 1)

\* A register is never written by an older instance of its instruction after a
\* younger one (the link scheduleBB() makes to the previous instance).
RegisterWritesInOrder == [][\A r \in Regs : register'[r] >= register[r]]_vars

\* An engine that runs finishes (tick() and the commits of the interface).
EngineFinishes == running ~> finished

\* Every node in the compute queue is looked at in every tick without an
\* exception ("Each node should have its cycle count incremented").
EveryNodeIsChecked == ~aborted

\* No more nodes work on units of a kind in a cycle than the configuration has
\* ("Available ... functional units. -1 indicates unlimited resources").
UnitsWithinLimit ==
  \A u \in Units : config.limit[u] # -1 =>
    Cardinality({n \in worked : Instr(n).unit = u}) <= config.limit[u]

\* A phi takes the value that its register has when its block is entered
\* (scheduleBB(): "if the the BB includes Phi instructions, ... commit them
\* immediately").
PhiReadsOnEntry ==
  \A n \in Nodes : Instr(n).op = "phi" /\ ~Waiting(n) =>
    LET deps == Dependencies(Instr(n), node[n].prev)
    IN  \A j \in 1..Len(deps) : node[n].ops[j] = LastWriter(deps[j], n)

Accesses == {n \in Nodes : Instr(n).op \in {"load", "store"}}

\* The order of the accesses that the engine leaves to the program: scheduleBB()
\* links a load to one earlier store through the same register (detectRAW()), and
\* nothing else.  So accesses to an address use one register, the data that a store
\* waits for come after all earlier accesses to its address, and two stores through
\* the register of a load follow one another if one is to the address of the load.
AccessesInOrder ==
  /\ \A c, d \in {<<Instr(n).ptr, Target(n)>> : n \in Accesses} : c[2] = d[2] => c[1] = d[1]
  /\ \A m, n \in Accesses :
       m < n /\ ~node[m].committed /\ Instr(n).op = "store" /\ ~Waiting(n) =>
         Target(m) # Target(n)
  /\ \A m, k \in Stores : m < k /\ ~node[m].committed /\ ~Waiting(k) =>
       \A n \in Accesses :
         k < n /\ Instr(n).op = "load" /\ Instr(m).ptr = Instr(n).ptr /\ Instr(k).ptr = Instr(n).ptr
           => Target(n) \notin {Target(m), Target(k)}

\* No later node commits to the register of a phi that still waits: the phi reads
\* the register when it is launched, not when its block is entered.
PhisInOrder ==
  \A n \in Nodes : Instr(n).op = "phi" /\ Waiting(n) =>
    LET deps == Dependencies(Instr(n), node[n].prev)
    IN  \A j \in 1..Len(deps) : \A m \in (n + 1)..Len(node) :
          Instr(m).ret = deps[j] => ~node[m].committed

\* The part of the order that scheduleBB() leaves to the program.
ProgramInOrder == AccessesInOrder /\ PhisInOrder

\* Phis, loads and the final memory are those of sequential execution, although
\* iterations overlap and the memory answers in any order.
SequentialResults == PhiReadsOnEntry /\ LoadsInProgramOrder /\ FinalMemory

\* A getelementptr is launched with the value of its base register ("signal
\* children to fetch associated register after commit").
BaseIsFetched ==
  \A n \in Nodes : Instr(n).op = "gep" /\ ~Waiting(n) =>
    node[n].base = LastWriter(Instr(n).base, n)
=============================================================================
