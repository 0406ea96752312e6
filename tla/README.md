# TLA+ models of the gem5-SALAM accelerators

gem5-SALAM simulates hardware accelerators inside gem5. An accelerator executes
the LLVM IR of a kernel; it talks to the system through a communications
interface, to scratchpad memories and stream buffers beside it, and DMA engines
move its data in and out of the system's memory. The accelerator code is
`src/src/hwacc/` (the DMA read FIFO it uses is in `src/src/dev/`); the rest of
the tree is gem5. Paths below are relative to `src/src/hwacc/` unless they start
with `src/`.

## 1. Inventory

gem5 is a discrete-event simulator: one event runs at a time, and all
concurrency is that of the order of events. What is hard in this code is what
happens *between* events: a request, a response or a retry arrives when other
state has moved on, and every wait must be ended by somebody scheduling an event.

| Part | State | Operations | Interaction | Correct when |
|---|---|---|---|---|
| `CommInterface` (`comm_interface.cc/.hh`, `LLVMRead/src/mem_request.cc`) | request queues, requests under way, one read and one write request per port, refused packets, flag byte, interrupt flag, tick event | host `write`; `enqueueRead/Write`, `finish` from the engine; `tick`; `recvReqRetry`, `recvPacket` from the peers | called by the engine, calls its `readCommit`, `writeCommit`, `initialize`; packets to memories | no request lost, held twice or committed early; bytes in place; never asleep with work; done means quiet |
| `LLVMInterface` (`llvm_interface.cc`, `LLVMRead/src/base_instruction.cc`, `instructions.cc`) | reservation table, compute, read and write queue, registers, current and previous block | `initialize`, `tick`, `scheduleBB`, `readCommit`, `writeCommit` | requests to `CommInterface`, `finish` at the end | same operands, loads and final memory as sequential execution; it finishes |
| `ScratchpadMemory` | ready bits, per port busy and retry flags, response queue, release and dequeue events | `canAccess`, `recvTimingReq`, `release`, `dequeue`, `recvRespRetry`, `setAllReady` | private ports to `CommInterface`s, a generic port to the bus | producer and consumer alternate; no retry, no response lost |
| `NoncoherentDma`, `DmaWriteFifo`, `DmaReadFifo` | registers, flags, active transfer; per FIFO a buffer, an address range, pending requests | host `write`, `tick`; `startFill/Empty`, `tryGet`, `fill`, `dmaDone` | requests to a `DmaPort`, completion events back, interrupt | bytes in order, no overrun, done means copied, ends |
| `StreamBuffer`, stream ports (`stream_port.hh`), `StreamDma` | a FIFO of bytes; per port busy and retry flags; per direction of the engine flags, frame count, FIFO | `tvalid`, `streamRead/Write`, `recvTimingReq`, `release`; host `write`, `read`, `tick` | ready/valid handshake of `CommInterface`s with buffers and engine | no byte lost or repeated, back-pressure ends, not running means written |
| `IOAcc` | older fixed-function device | | no longer built | |
| `DmaPort` (`src/src/dev/dma_device.cc`) | list of packets, retry flag, send event, byte count per action | `dmaAction`, `trySendTimingReq`, `recvReqRetry`, `handleResp` | below the FIFOs | every action answered once |
| IR front end, functional units, power, statistics, `AccCluster`, configuration | built before a run, or only reported | | | |

The hazards that follow from this are listed in `PROJECT.json`, each at its line
with the properties that would catch it.

## 2. Modules

### CommInterface, RequestService, CommInterfaceProofs, CommControlProofs

`CommInterface` has one variable per field that matters; `MemoryRequest`s are
elements of `Reqs`, each with an address and a length given by constants, and
they may be handed over again after they were committed. Actions and code:

| Action | Code |
|---|---|
| `Write(v)` | `write()`: the host overwrites the flag byte |
| `EnqueueRead`, `EnqueueWrite` | `enqueueRead()`, `enqueueWrite()` with the constructor of `MemoryRequest` |
| `Finish` | `finish()`; the engine calls it with nothing live (`FinishedMeansDone` below) |
| `Tick` | `tick()`, `checkMMR()`, start of `processMemoryRequests()` |
| `IssueRead/Write`, `SkipRead/Write`, `EndReads/Writes` | an iteration of the loops of `processMemoryRequests()` with `getValid*Port()` and `tryRead()`/`tryWrite()` |
| `RecvReqRetry` | `recvReqRetry()` |
| `RecvRead`, `RecvWrite` | `recvPacket()` with `findMemRequest()` and `clearMemRequest()` |

The loop is cut into steps to keep actions small; no other event can run before
it is over (`scan = Idle`). `moved` is a history variable: the pairs of an
address and a buffer index between which bytes were transferred. Whether a
stream or scratchpad lets itself be accessed (`streamValid()`, `canAccess()`) is
an arbitrary answer here. Refusals, retries that are refused again, and answers
in any order are the peers' choice.

`RequestService` is what the engine relies on: the bytes of a request move in
order, and it is committed with the last of them. `ImplementsService` says that
`CommInterface` implements it, with `status` and `moved` as the mapping.

### ScratchpadMemory, ScratchpadMemoryProofs

Time is abstracted: an event that is scheduled may run at any later moment, and
the random latency of a response appears as the place where the insertion sort
of `recvTimingReq()` puts it. The requesters are the environment: that of a
private port behaves as a `CommInterface` port (asks `canAccess()`, keeps a
refused packet, sends it from the retry), the bus may also refuse responses and
then owes a retry. `unread` is a history variable: writes less reads of a byte.

### DmaFifos, NoncoherentDma, BlockCopy, DmaFifosProofs, NoncoherentDmaProofs

`DmaFifos` has the two FIFOs as values and their methods as functions from a
FIFO to a FIFO; `NoncoherentDma` holds four of them in its variables. `Tick` is
the composition of the three parts of `tick()`; the host writes registers at any
moment, also while a transfer runs; the memories answer in any order.
`last_flag`, which the code never initialises, has any initial value.
`BlockCopy` is the promise to the host: memory changes only inside the
destination of the running job, only to the bytes of its source, and the job ends
when the copy is complete.

### DmaPort, DmaService, DmaPortProofs

`DmaPort` is the port below the FIFOs, in timing mode. An action is identified
with its completion event; `DmaAction` is `dmaAction()` with `queueDma()` of all
packets and `sendDma()`, `SendEvent` the event of the next cycle, `RecvReqRetry`
the call-back of the bus after a refusal, `RecvTimingResp` an answer with
`handleResp()`, `Process` the completion event. `moved` is a history variable.
`DmaService` is what the FIFOs rely on, and what `NoncoherentDma` and
`StreamPipeline` assume of the memory: bytes are transferred once each, in any
order, and the completion event comes once, with the last of them.

### StreamPort, StreamBuffer, StreamDma, StreamPipeline, StreamPipelineProofs

`StreamBuffer` (a bounded FIFO of bytes), `StreamPort` (the port template: busy
after a packet, retry promised to a packet refused while busy) and `StreamDma`
(the two directions of the engine: start bit, frames, ring of frame buffers,
interrupts) hold values and operators on them; `StreamDma` stands on `DmaFifos`.
`StreamPipeline` composes them as `configs/SALAM/vector.py` does: memory, the
engine's read FIFO, a chain of accelerators with stream buffers between them, the
engine's write FIFO, memory. An accelerator is what `CommInterface` shows to a
stream port: it asks `tvalid()`, sends one packet, keeps a refused one for the
retry. The host is `top()` of `benchmarks/vector`. A byte is the address it was
first at, so that the whole path can be compared with the source.

### LLVMInterface, LLVMInterfaceProofs

Values are abstracted to their origin: a register, an operand or a memory word
holds the number of the node, in program order, that produced it. That is what a
scheduler can get wrong; the arithmetic of `compute()` is left out. A program is
the constant `Code`; which way a branch goes is open until `MaxBlocks` blocks were
entered, then branches leave the loop. `Cycle` is `tick()` up to its loop over the
reservation table; `LaunchLoad`, `LaunchStore`, `LaunchImmediate`,
`LaunchCompute`, `Branch`, `Return`, `Skip` and `EndScan` are the cases of that
loop. `ServeRead` and `ServeWrite` are the memory, in any order; `ReadCommit` and
`WriteCommit` the call-backs. `Configs` are the settings of the hardware: lockstep
or not, and a limit for each kind of functional unit, with -1 for none.
`CheckCompute` is the loop over the compute queue at the start of `tick()`, with
`CheckNode` for one round; it asks `LimitedFU` about the node at the same place in
the reservation table, as the code does (see 5). `SSAAssumption` states of `Code`
what LLVM's static single assignment form gives: one instruction for each register,
and only a phi depends on the register that it returns.

The address of an access is the value that the node was handed for its pointer, so a
`getelementptr` in a loop moves the address behind its register from one iteration to
the next. As values are origins, `Addr(r, v)` says which address is in pointer register
`r` when node `v` has written it; the programs of the runs choose it, and in the proofs
it is any operator. `Target` is the address in sequential execution. A value does not
depend on the operands of the node that produced it, so a wrong base (`engine_base`)
is seen at the `getelementptr` itself and not again in the accesses through it.

`MCCommInterface`, `MCScratchpadMemory`, `MCDmaPort`, `MCStreamPipeline` and
`MCLLVMInterface` hold the instances; `NoncoherentDma` needs none. Definitions marked "Mutant" are variants of the
definition after them with a plausible mistake in it; no specification uses
them. They show that the property named for them in `PROJECT.json` depends on
that piece of code.

## 3. Runs

| Run | Instance | Question |
|---|---|---|
| `comm_mixed` | a gated scratchpad port and two overlapping global ports; a read and a write that cross from one range to the other and a read that competes with them; interrupt on | the interface loses, doubles or misplaces nothing and implements `RequestService`; never asleep with work; done means quiet; every request is committed, every start noticed |
| `spm_handoff` | producer, consumer, host; ranges cut differently by writer and reader; reads take the ready bits | `HandOff`, `NoPanic` |
| `spm_bus` | bus and accelerator, two addresses, resets | retries and responses are never lost, every access answered |
| `spm_resp_retry` | two reads on two ports | violation, see 5 |
| `dma_copy` | blocks of 5 bytes, requests of 2, buffers of 4, two requests pending; sources on both sides | order, bounds, done, `ImplementsCopy`, every transfer ends |
| `dma_port` | unaligned blocks of one to three packets, three actions sharing the port | one and only one thing sends what waits; every byte accounted for; `ImplementsDmaService`; every action completes |
| `stream_pipeline` | two accelerators that read and write 1 and 2 bytes at a time; three frames of 2 bytes in, two of 3 bytes out; buffers of 3; two starts | the stream is intact, a refused packet is always called for, no overrun, not running means written, every start ends |
| `engine_loop` | a loop with a dependence carried in memory through a pointer that goes to one word, to another and back, and one carried by a phi, threshold 5; one adder, no limits, or lockstep; three iterations | accesses and phis stay in order, and operands, phis, loads and final memory are as in sequential execution; parent counts, register order, nothing under way at the end; it finishes |
| `engine_index`, `engine_base`, `engine_units`, `engine_phi` | see 5 | violations |

**Bounds.** Three requests are the least that has two of one direction compete
for a port while one of the other shares it; the two that cross ranges have two
packets each, on different ports. In the DMA a block of 5 is longer than a buffer
and ends in a short request, and two pending requests can complete out of order.
In `dma_port` the list can hold the packets of all actions, and answers of all of
them mix. In `stream_pipeline` frames, requests, packets and buffers have different sizes,
so that every buffer is met full, empty and between; both rings wrap. In `engine_loop`
`MaxBlocks` of 4 gives three iterations in flight with the block before, the least
in which the pointer comes back to its first word with a store to the other in
between, and states are reached in which the first store is still in flight then.
`unread` is clipped to -1..2, beyond which `HandOff` has failed already. The engine runs and `stream_pipeline` switch deadlock checking off, because a finished
accelerator and a host that has started often enough stop; the other systems
never do.

**Fairness.** The event queue runs every scheduled event, so ticks, releases,
dequeues and the steps of a loop are weakly fair. `Tick` of `CommInterface` and
of the engine is strongly fair because steps of the model's environment can
disable it in between without ever unscheduling the event (a loop in progress,
for instance). Peers are assumed to answer what they took, to retry what they
refused and to take it in the end, and a gate not to stay shut for ever: these
are the contracts of gem5's ports and, for scratchpads, what `spm_bus` checks.
`EveryRequestCommits` and `EveryAccessAnswered` are stated for programs and
traffic that end. Without that, reads issued for ever can keep the port of a
write stalled (reads are tried first), and, as latencies have no bound in the
model, a response can be overtaken for ever. The engine's memory is fair because
of `EveryRequestCommits`. `FairBranch` is the weak fairness of its branches with the
condition under which they are enabled written out, which TLC is slow to find. In `dma_port` the bus calls back after a refusal, takes
the packet in the end and answers what it took; in `stream_pipeline` the ticks, the
memory and the host's polling are fair, and of the ports and stages it is only
assumed that they do not all stop while one can go on.

## 4. Proofs

All results below hold for every value of the constants that satisfies the named
assumptions of the modules, and for all behaviours of hosts, memories and buses.
Each invariant was checked by TLC on the run of its module before it was proved.

| Module | Theorems | Inductive invariant |
|---|---|---|
| `CommInterfaceProofs` | `TypeCorrect`; `Safety`: `OneHolder`, `OneOutstanding`, `PacketHasRequest`, `ChunksTileRequest`, `CommitComplete`; `Refinement`: `ImplementsService` | `IInv` |
| `CommControlProofs` | `ChunksAlwaysTile`, `TickNeverLost`, `DoneIsQuiet`, `ContinuationsFirst` | `TickInv`, `ControlInv`, `QueuesContinued` |
| `ScratchpadMemoryProofs` | `TypeCorrect`, `RetryIsPromised`, `ResponsesNotLost`, `HandOffSafe`, `NeverPanics` | `BaseInv`, `RespInv`, `HandInv` |
| `LLVMInterfaceProofs` | `EngineInvariant`, `TypeCorrect`, `ParentsExact`, `OperandsInOrder`, `RegistersInOrder`, `FinishedIsDone`; `AccessesInSequence`, `PhisInSequence`, `SequentialExecution`: `SequentialResults` | `Inv`, `AccessesNow`, `PhisNow` |
| `DmaPortProofs` | `SenderExists`: `SomebodySends`; `EveryByteCounted`: `BytesAccountedFor`; `Refinement`: `ImplementsDmaService` | `IInv` |
| `NoncoherentDmaProofs` | `TypeCorrect`, `IdleIsDrained`, `BuffersBounded`, `InterruptFollowsDone`, `PipelineOrdered`, `DoneIsHonest`; `Refinement`: `ImplementsCopy` | `DmaInv` |
| `StreamPipelineProofs` | `RefusedPackets`: `RefusedIsRetried`; `NothingOverruns`: `NoOverrun`; `IdleIsWritten`: `IdleMeansWritten`; `StreamStaysIntact`: `StreamIntact` | `IInv` |

**CommInterface.** Assumed: lengths and the line size are positive, addresses
natural numbers, the null pointer is no request or port, and every byte of a
request is in some port's range (the code panics otherwise). `IInv` is the
conjunction of `TypeOK` and the five properties of `Safety`. `CommitComplete` is
not inductive: when an answer arrives, that the last bytes complete the request
follows from `ChunksTileRequest`, for the packet that `PacketHasRequest` says is
the one recorded for the request; that the port it frees is the one that carried
it needs `OneHolder`; and that a retry sends the packet of the port's own request
needs `OneOutstanding`. Each of these has its own step lemma (`HolderStep`,
`PacketStep`, `ByteStep`) and lemmas for the ways the state changes: a request is
appended, issued, put back, committed; a packet is sent, refused, retried,
answered. The relevant parts of the state are arguments of `HeldOnce`, `Placed`
and `Tiled`, so that these lemmas speak of plain values. `Refinement` follows from
`IInv`: an issue or a retry changes neither `status` nor `moved`, an enqueue is
`Submit`, and an answer is `Transfer` or `Commit`.

`CommControlProofs` adds what the tick event, the flags and the order of the queues
do. `NoLostTick` is not inductive: the end of the loop schedules a tick for waiting
requests only. `TickInv` adds that no unseen start bit is there while the loop is
under way, because `tick()` calls `checkMMR()` before it. `DoneMeansQuiet` needs
`ControlInv`: the interrupt line is up only with the flag that makes `write()` lower
it, a start bit or a computation excludes the done bit, and only a computation has
live requests. `QueuesContinued` is `ContinuationFirst` as a property of plain
queues, kept together with `IInv`.

**ScratchpadMemory.** Even `TypeOK` is not inductive alone: a retry sends the access
that the refused requester kept, and it takes `RetryPromised` to know that there is
one (`BaseInv`). `NoLostResponse` needs `RespInv`: only the bus refuses responses,
and while its retry is owed the refused response is the head of the queue, so that
a dequeue scheduled meanwhile finds another one behind it. `HandOffSafe` and `NeverPanics` are stated under the
hypothesis `OneProducerOneConsumer`: ready mode, reads that take the ready bits, no
resets, all writes from one private port and all private reads from one. Without it
both are false, as a refused requester's retry does not ask `canAccess()`
again; `HandInv` says that what such a requester keeps is still allowed. The
instance of `spm_handoff` meets the hypothesis.

**DmaPort.** `SomebodySends` and `BytesAccountedFor` are inductive together with the
types (`IInv`): the packets in the list and at the bus are distinct, belong to live
actions, are counted in `pendingCount`, and complete the bytes already transferred to
those of their action. The lemmas are about this last fact for sets of packets: a
packet is added, sent, answered. An answer is then the abstract `Transfer`.

**NoncoherentDma.** Assumed: positive request size and number of pending
requests, FIFOs that hold a request of full size, and registers, those that were
never written included, that describe blocks inside the memory, with source and
destination equal or disjoint (a copy between overlapping blocks has no meaning
for an engine with several requests under way).

`DmaFifosProofs` has the lemmas about the FIFOs as values. `GoodRead` says of a
read FIFO that it stands for a part of a block: the bytes in the buffer and the
answered requests are those of the block at their place, requests tile the
addresses up to `nextAddr`, and buffer and requests together fit the buffer.
`GoodWrite` says the same of a write FIFO, with `Unwritten`, the addresses it has
still to write. There is one lemma for each operation: start, resume, get or fill,
answer, retire. The loops of `resumeFill()`, `resumeEmpty()` and `handlePending()`
are `Cardinality` of the set of rounds whose condition holds: `NoGap` shows this
set to be an interval, and `GoRound` carries a property of the first round along
it, which replaces induction (the prover cannot use the library's induction
theorems) and gives the bytes that the recursive function `RetiredData` collects.

`DmaInv` says that a running engine's FIFOs are good for the source and
destination of the job, at the same distance from their starts (`InStep`), that all
other FIFOs are empty, that every byte of the destination is either still to be
written or already equal to its source (`Landed`), and how flags and interrupt line
relate. `PipelineOrdered` and `DoneIsHonest` follow from the state at the end of
the block: the write FIFO inactive means nothing is left unwritten. In
`Refinement`, a tick is the abstract `Start`, `Finish`, both of them or nothing,
and the completion of a write request is `Land`.

**StreamPipeline.** Assumed: the host asks for at least one frame, reads as many
bytes as it writes, a number that every stage's tokens divide, and reads and writes
in different places; a FIFO holds a request of full size. There may be any number of
stages and starts.

Everything the host ever asks for is one stream, numbered from 0, and `IInv` says
where in it everything is. `SidesOK`: the read FIFO stands for the part of the stream
up to the end of its frame (`GoodRead` again, for a block that would have started
where the stream did), the write FIFO for the part it has accepted, and the counters
of the engine agree with the addresses of the frame. `ChainOK`: there are places
`pos[0]`, ..., `pos[Stages]` in the stream, the first where the read FIFO gives its
next byte, the last where the write FIFO issues its next request, and what a channel,
the packets of a stage and the stage hold is the piece between two neighbours. Each
action of a port or stage moves bytes between neighbours or moves one `pos[i]`.
`PortsOK` has `RefusedIsRetried` and the sizes of buffers; `HostOK` says that the read
direction never outlasts the write direction, so that a new start finds nothing in
between: this is where equal totals are needed. `Landed` says of every byte issued
that it is in memory, has a request under way, or belongs where a later one belongs,
too: the ring of frame buffers makes places coincide, `PlaceOfByte` relates the
division in `Place` to the frame counter, and since all requests under way are of one
frame, a late answer never overwrites the byte of a later one. `MemOK` (the source is never
overwritten) comes from the disjoint places. `StreamIntact` is about the recursive
concatenation `Stream`; the proof gives the function explicitly, as pieces of the
stream between the `pos[i]`, and shows it to be the one that the recursion defines.

**LLVMInterface.** Assumed: `CodeAssumption` (the shape of blocks and instructions),
`SSAAssumption`, a threshold above 1, limits of units that are not 0. The theorems
hold for every program of this form, every configuration, every choice of the
branches, all addresses that pointers take and every order in which the memory serves requests.

`Inv` has three parts. `StateOK` is about the nodes, the registers and the queues:
`Linked` (a parent is an earlier store or the last earlier node that returns to its
register), `Counted` (`active` is the number of links to nodes that have not
committed), `Chained` (of the instances of one instruction only the first that has
not committed can have left the table, and each of the others is linked to the one
before it), `Filled` (an operand is there or its producer is under way and linked),
`Ready` (a node leaves the table after its parents have committed), registers hold
the last value committed to them, and every node under way is in one queue. `LastOK`
says that the last node is the branch or ret of the current block and waits.
`Chained` is what the operands need: `findParent()` looks in the table, then in the
compute queue, then among the loads, and this order finds the last writer only
because instances of an instruction cannot overtake each other. It also makes
`fetchDependency()`, which compares registers and not nodes, fill in the right value.

The parts of `StateOK` are predicates of plain values (the sequence of nodes and the
set of those that wait), and the lemmas are about what happens to these:
`CommitKeeps` and `CommitRegisters` when nodes commit, `LeaveKeeps` when nodes leave
the table, `ScheduleKeeps` when a block comes in (`FoundIs` is what `findParent()`
finds, `RawIs` what `detectRAW()` finds, `NewLinks` how many links a new node has),
`CheckComputeIs` for the loop over the compute queue. `LoopExists` shows that the
recursive function of that loop is defined; the induction it takes, as that of
`CheckComputeIs`, is on the least number of rounds for which the claim would fail.
Each action then has one lemma, which also shows that no register is set back
(`Forward`).

Phis, loads and the final memory are not those of sequential execution for every
program (see 5): the engine links a load to one earlier store through the same
register, and leaves every other order of accesses to the program. `AccessesInOrder`
and `PhisInOrder` say what it leaves:

- accesses to an address use one register;
- no store is launched before the earlier accesses to its address have committed;
- of two stores through the register of a later load, the second is not launched before
  the first has committed if one of them is to the address of the load. (With a pointer
  that does not move this follows from the second condition; with one that moves it
  does not, see 5.)
- no later node commits to the register of a phi that still waits.

These are properties of an execution, since they depend on the data flow and the
latencies; `engine_loop` checks that its program has them (`ProgramInOrder`).
`AccessesInSequence` and `PhisInSequence` prove that they are enough for the results
of sequential execution, in every program and with pointers that move, and
`SequentialExecution` puts the two together. None of the conclusions is a hypothesis:
that the link of `detectRAW()` and the operands suffice for the rest is what is proved.

The argument adds two parts to `Inv`. `AccessesOK`: a request has a value exactly from
the moment the memory serves it, which is between launch and commit (`ValuesOK`), a
word holds the last store to it that was served (`MemoryOK`), and a load is linked to
a store through its register that comes after every earlier one under way to its
address, and has read the last earlier store if it has been served (`LoadsOK`). The
link is where `detectRAW()` goes wrong in general: it compares registers, looks in the
table before it looks at the stores that were sent, and takes the last it finds;
`RawFinds` shows that under the third condition (`Ordered`) this is late enough. That
an access goes to its sequential address (`AccessAddress`) comes from the operands. A
load is served after its parents
have committed, so by then exactly the earlier stores to its address have been served
(`ServedBefore`: no later store has, since it waits for the load). `PhisOK`: a phi that
has left the table has its sequential operands; `PhiOperands` gets them from
`RegistersOK`, as the last value committed to the register is that of the last earlier
writer. Every other step fits `AccessStep` and `PhiStep`, which keep the two parts.

`OneHolder`, `OneOutstanding` and `PacketHasRequest` are proved and not listed in a
run. Only model-checked: all liveness (the prover has no fairness reasoning), and that
the program of `engine_loop` keeps its accesses and phis in order.

## 5. Where the code disagrees with its own text

- `spm_resp_retry`: the decision to schedule a dequeue looks at the retry flag of
  the port a request came in on, not of the port whose response is at the head of
  the queue, so the assertion of `recvRespRetry()` can fail.
- `engine_index`: the loop over the compute queue indexes the reservation table,
  and `at()` throws when that is shorter: two operations of three cycles before a
  `ret` are enough.
- `engine_base`: a `getelementptr` whose base pointer is being computed when its
  block is scheduled is launched without a base address.
- `engine_units`: the same loop counts the units of the nodes that wait, not of
  those that compute; with one adder, and multipliers without a limit, two additions
  work in one cycle.
- `engine_phi`: comments have phis commit at once, but a phi of one cycle or more
  (`CycleCounts.py` has 1 as default) goes to the compute queue, the next instance
  waits for it, and since it reads its register only at launch, the instruction
  that writes the register for the next iteration can overtake it. The
  configurations of the benchmarks set 0 cycles, and so does `engine_loop`. That
  alone is not enough for `PhisInOrder`, though: when the value with which a loop is
  entered takes long, the first instance of a phi of 0 cycles waits for it, the later
  ones wait for the first, and the loads that write their register go on.

Some facts met on the way, which no run states. With `reset_spm` on (the
default of `CommInterface.py`), `finish()` of one accelerator can clear ready
bits under a read that another had been allowed, which then panics at its retry.
`HandOff` and `NoPanic` are checked and proved for `reset_spm` off only, as
`configs/SALAM/validate_acc.py` and `validate_acc_new.py` set it.
`configs/SALAM/mobilenetv2.py` shares the ready-mode `ReshapeOut` between `Reshape` and
`AvgPool` with the default left on; for such a configuration they show nothing.

`detectRAW()` links a load to the last store through its register. When the pointer was
at one word, then at another and is back at the first, that is the store to the other
word: once it has committed the load may be served, and read the first word, although
the older store to it is still in flight. Nor does the engine order accesses to one
address through different registers, a load before a store, or two stores. In the
program of `engine_loop` each address has one register and the other pairs are ordered
by data, which is what the run checks as `AccessesInOrder`.

## 6. Not modelled

The IR parser (text processing before a run), arithmetic of instructions, power
and statistics with the counts of used units (nothing depends on them), object
construction (`AccCluster`, Python), checkpoint draining, atomic mode and
functional accesses, and gem5 itself, which is the environment. `IOAcc` is not
built any more. Of `StreamDma`, a host that rewrites registers while
a direction runs (no driver does) is left out, and so is the buffer access range
behind the registers, through which an accelerator reads and writes the FIFOs without
the stream ports: the older way, which `configs/common/MultiHWAcc.py` maps (40 bytes)
and `benchmarks/streamdmatest` uses. There is no handshake on it: `get()` and
`fill()` panic when the bytes or the room are not there.

## 7. Plan

1. Proofs: conditions on the text of a program from which `AccessesInOrder` and
   `PhisInOrder` follow.
2. Compositions: `CommInterface` with `ScratchpadMemory`, so that `canAccess()`
   is no longer arbitrary; the engine with `RequestService` in place of its free
   memory; `NoncoherentDma` on `DmaService`.
