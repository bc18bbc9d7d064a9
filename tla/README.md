# A TLA+ model of the Beethoven runtime

The Beethoven runtime stands between user programs and an accelerator: a
simulated one (Verilator, VCS, Icarus) or an FPGA (AWS, Kria). User programs talk to it
through two shared-memory files; the runtime carries commands to the
accelerator, responses back, and data in both directions. In simulation it also
plays the accelerator's DRAM.

This directory models the parts of the runtime in which threads, pins and
queues interact. TLC checks the models on small instances; TLAPS proves their
safety properties for every instance. Paths below are relative to the
repository root, `PROJECT.json` maps every definition to its lines.

## The system

| part | state | operations | talks to |
|---|---|---|---|
| command server (`src/cmd_server.cc`) | shared file (command, free list of response slots, responses, semaphores), `cmds`, `in_flight` per core, `cmdserverlock` | take a command, allocate a slot, queue it, note the waiter; `register_reponse`; shutdown | clients (shared file), front-bus controller (`cmds`, `register_reponse`) |
| response poller and main (`src/response_poller.cc`, `src/fpga_main.cc`), FPGA only | semaphore `processes_waiting`, `bus_lock`, `main_lock` | poll RESP_VALID, read three words, register | command server, MMIO |
| front-bus controller (`include/sim/axi/state_machine.h`) | three state machines, `bus_occupied`, `cmds_inflight`, `ready_for_command` | one case per clock cycle and machine | `cmds`, accelerator pins |
| memory model (`include/sim/mem_ctrl.h`, `src/sim/mem_ctrl.cc`, `src/sim/tick.cc`) | AXI channels, `ddr_read_q`, `ddr_write_q`, in-flight maps, DRAMsim3 | AXI handshakes, `try_to_enqueue_ddr`, two callbacks | accelerator pins, DRAMsim3, address translator |
| data server (`src/data_server.cc`) | shared file, `at.mappings`, `dma_*` globals, `dma_lock`, `dma_wait_lock` | ALLOC, FREE, MOVE_TO_FPGA, MOVE_FROM_FPGA; on Kria four coherence commands | clients, simulation thread (DMA part of `tick.cc`), XDMA library, coherence manager (MMIO under `bus_lock`) |
| ChipKit UART (`include/sim/chipkit/state_machine.h`) | `in_stream`, state, baud counter, bit counter | one step per clock cycle | the chip's serial pins |

What is hard: mutexes are used as semaphores, locked by one party and unlocked by
another; the shared command is read many times while clients wait to overwrite
it; responses are matched to commands by order only; the simulation thread takes
locks inside a clock cycle; three state machines share one bus through a flag;
DRAM answers in any order; burst parameters cross threads in globals. What makes
each part correct is stated by the properties below. `hazards` in
`PROJECT.json` lists the places where it could go wrong and what covers them.

## Modules

**CommandService** is the abstract specification: one line of commands per core,
answered in order, each at most once, each answer collected by its issuer. CmdServer
refines it, and so does FpgaRuntime, as far as the answer.

**CmdServer** is the command server of the simulation build. An action is a piece
of code between two operations on locks. `spc` is the server thread's position
(stall on `server_mut`, allocate, lock, deliver, reply, release), `mpc` the simulation
thread's. Where `register_reponse` stores, notifies and pops, there are three
actions, since a woken client runs between them. The client library is external:
it locks the file, writes the command, wakes the server, waits for
`cmd_recieve_server_resp_lock`, keeps the slot as a handle, and puts the slot back
on the free list after reading. With `MayBeEarly` a client may come before the
server's first lock of `server_mut`. Cores answer their commands in order.
`frontend` is the simulator of the build; `TellSimulator` and `Stopped` say how a run
can end under it: Verilator's loop watches `kill_sig`, VCS is told to finish through
`vpi_control`, Icarus is never told (`tick_calltf` ignores `kill_sig`). `Service` is the
refinement mapping to CommandService. MCCmdServer adds symmetry of the clients.

**AXIControl** is the front-bus controller. `tick()` runs three machines in order;
`phase` is the position in that sequence and every case of every switch is an
action; RESPT_READY_WRITE, which has no break, runs on into the next case as in the code. In AXIControl the
accelerator's pins are arbitrary. **AXIBus** extends it
with an accelerator: an AXI-Lite slave that may hold back each offer, six
registers, and hardware that assembles commands and, when `HwDepth` commands are unanswered,
accepts no further one. **FrontBus** is what the two promise together: commands leave the queue in order,
every one that asks for a response has it registered exactly once, and until a FLUSH
neither is put off for ever. `Bus` in AXIBus is the refinement mapping; it hides words, handshakes and polls. MCAXIBus gives the set of bus values.

**FpgaRuntime** is the same service on an FPGA: the server writes the command over
MMIO itself, under `bus_lock`; the poller reads responses under the same lock;
main sleeps on `main_lock`. Slots are the subject of CmdServer and are
represented by the command's tag. `Service` is the refinement mapping to CommandService: a command
joins its core's line when the server records it, and is answered when the poller registers the
response. What clients collect is left to CmdServer, so the mapping keeps `received` empty. With `MayFail`, set-up may exit and every MMIO
access may throw, which ends the process in any state of the threads.

**KriaRuntime** extends FpgaRuntime with the data server of a Kria board: a third thread
that takes `bus_lock` and spins on MMIO, to hand five-word commands to the
coherence manager. ALLOC and copies are answered without being done, FREE finds no mapping
and ends the process, requests are drawn by the server directly (how they come in, or come too early, is in DataServer), and IDs are taken from `available_ids` until reading past its end
yields anything.

**MemRead** and **MemWrite** are the two halves of the memory model. Addresses
count DRAM blocks; one action is one AXI cycle, one request to DRAMsim3, or one
callback. DRAMsim3 may refuse any request and answers in any order. MemWrite starts
after the first cycle of the simulation, in which the accelerator is still in reset.
The accelerator of MemWrite never offers data ahead of its address. Reads may have a tail
that is less than a block: it is not fetched, and whether its beats are released
depends on a read past the end of `ddr_bus_beats_retrieved`, in the model a free choice.

**DataServer** is the data server of four builds, chosen in Init: a simulation with DMA
(with the DMA part of `tick_signals`), one without (copies do nothing), AWS F1 (start-up
check, blocking XDMA calls that may fail) and AWS F2 (the XDMA wrappers do nothing and
report success). Clients may come as soon as the file is initialised, also before the server's first lock of
`server_mut` and during the start-up check. `fate` says how the process ended, `junk` is host memory that was filled
from an undefined buffer. Addresses count 64-byte beats, and the contents of a beat are named
by the place it comes from. The device allocator may return any free range; the host file of an
allocation, whose name is a random number, is taken to be new.

**ChipkitUart** is the transmitter of the ChipKit front end, bit by bit and cycle
by cycle, against a UART that samples the middle of each bit and sees a start bit up to
`Latency` cycles late, which is assumed to be less than half a bit. Of the loaders only the queueing of bytes is
modelled (`Feed`): one at any time, where the Verilator loader queues a file at once.

The theorems about module M are in **MProofs**, which extends M: CmdServerProofs,
AXIBusProofs (its first part is about AXIControl alone), FpgaRuntimeProofs,
KriaRuntimeProofs (on top of FpgaRuntimeProofs), MemReadProofs, MemWriteProofs,
DataServerProofs and ChipkitUartProofs.

Definitions whose comment begins with "Fault" are not part of a model: each is the
changed form of the definition after it, as a plausible mistake would have it,
and a property is worth keeping only if such a change breaks it (`mutants` in `PROJECT.json`).

## Runs

`tlc -config X.cfg M` in this directory. "Deadlock off" means that the
system really may stop (after shutdown, or once all bounded work is done).

| run | instance | properties | shows |
|---|---|---|---|
| cmdserver_safety | 2 clients, 2 cores and one pair that is no core, 3 slots, 2 commands each, a stray response; Verilator | SlotsNeverShared, ResponseHasWaiter, RoutedToIssuer, CommandStable, ImplementsService | slots are recycled while old ones are still being popped, and never shared; the command is stable; responses reach their issuers; refinement of CommandService |
| cmdserver_live | 1 client with 2 handles, 1 core and one pair that is no core, 3 slots, 3 commands, shutdown, FLUSH, a stray response, early client; Verilator, VCS and Icarus; fairness; deadlock off | FreeListInBounds, EveryCommandAnswered, QuitStopsOrHangs | the free list is not underrun as long as one slot stays unused; every command is answered unless its wake-up was swallowed by the server's first lock; shutdown works, or hangs in exactly the ways named |
| axicontrol_any | arbitrary pins, 2 words per command and response, 2 commands; deadlock off | TypeOK, BusExclusive, PollsOnlyWhenExpected, BuffersInBounds, OneDriver | one machine on the bus at a time, whatever the accelerator does |
| axibus | 3 commands of 5 words, 3-word responses, hardware that holds 2 commands, a slave that stalls, FLUSH; fairness; deadlock off | CommandsIntact, ResponsesIntact, InflightExact, ImplementsFrontBus | commands and responses cross whole and once; refinement of FrontBus with its liveness |
| fpga | 2 cores, 3 commands of 5 words, 3-word responses, a device that holds 2 commands, shutdown, one stray response, failing set-up and MMIO; fairness; deadlock off | ResponseHasWaiter, SemaphoreBalanced, DrainedUnlessDeadlocked, QuitEndsMain, ImplementsService | refinement of CommandService; the poller may run ahead of the record, never past it; spinning on CMD_READY with `bus_lock` held while the device is full never ends, and nothing else that leaves the process alive loses a response; shutdown ends main |
| kria | 1 core, 2 commands, a device that holds 1; 3 data requests (ADD, a command on a given ID, ALLOC, FREE), 2 coherence IDs, 2-word commands and responses; fairness; deadlock off | CoherenceIntact, DataAnsweredUnlessDeadlocked | coherence commands are whole and carry the ID the client was told; they are held up only by the deadlock fpga describes |
| memread | 3 reads of 1, 3 or 4 beats, 2 IDs, 2 blocks, 2 beats per block, queue of 2; fairness | CallbackHasOwner, QueueBounded, BeatsInOrder, ReadsComplete | beats in order under any DRAM order; every read completes as far as it was fetched |
| memread_same_id | 2 reads with one ID | SameIdSerialized is violated | see Findings |
| memwrite | 3 writes of 1 or 2 beats, limit 2, 2 IDs, 2 blocks; fairness | DataIntact, WReadyFollowsBursts, InFlightExact, OneResponsePerBurst, WritesAcknowledged | no beat lost, one response per burst, every write acknowledged |
| dataserver | 4 builds, 2 clients, 6 beats of memory, segments of 1 and 4 beats, bursts below 3, 4 requests, copies from segment starts and from inside, with and without a tail shorter than a beat; fairness; deadlock off | CopyExact, WakeUpMatched, SegmentsMapped, BurstStable, RequestsAnswered | copies are exact however they are cut; a request is answered unless it ends the process or its wake-up was swallowed by the server's first lock, and which requests end it is stated |
| uart_safety | divisors 6, 5 and 4, up to 7 cycles until the start bit is seen, 3 bytes; fairness | BytesIntact, BytesDelivered | bytes arrive although bits are too long |
| uart_baud | divisor 4, 1 byte; fairness | BitsAtBaudRate is violated | see Findings |

**Bounds.** Every bound is a constant of its module with a comment. They let each
interesting case occur: more commands than slots in circulation (reuse), a stray
response before and after the pair's first command, both polls in flight with a command
waiting, a queue at and at one below its limit (reads 2 of 40, writes 2 of 32), two
bursts on one block, bursts of one, of several and of a fraction of a block, copies of several bursts
and free ranges between segments, one more coherent segment than there are IDs. Payload
lengths are shortened where TLC needs it (2 words instead of 5 and 3 in axicontrol_any and kria);
the theorems cover all lengths, as they cover any number of clients, cores,
slots, IDs, blocks and commands. EveryCommandAnswered,
DrainedUnlessDeadlocked and DataAnsweredUnlessDeadlocked say that all
work is done over and over; since an instance has finitely many commands, this is
the same as saying that each of them is served.

**Fairness.** Threads are scheduled (weak fairness of each thread's step). A mutex
that is released again and again is obtained (strong fairness of the lock
steps): pthread mutexes do not promise it, but the holders run for microseconds
and the scheduler is preemptive. In CmdServer strong fairness of the two things
the controller does in turn stands for its alternating polls, which axibus
shows. The simulation loop ticks for ever; hardware and DRAMsim3 answer in the end. No fairness is assumed of a client starting
anything, only of finishing what it began. Steps of one thread, of which at most one is
possible at a time, share one fairness condition; where several are possible (DRAM
requests and answers in MemRead) the bound on the work makes one condition for all of them as strong as one for each.

## Findings

* **Same-ID reads are not serialised** (`src/sim/mem_ctrl.cc:80-109`). The comment
  there wants the data of reads with the same ID returned in order. The check
  covers `ddr_read_q` only, which a read leaves with its last DRAM request, long
  before its data is back. memread_same_id is the counterexample. An accelerator
  that has at most one read per ID outstanding is not affected (theorem SerializedIfCareful).
* **UART bits are longer than the baud rate table says**
  (`include/sim/chipkit/state_machine.h:95-121`). A data bit lasts `baud_div + 1`
  cycles and the start bit `baud_div - 1` (theorem SymbolLengths). BytesKept shows that bytes survive this
  at all the divisors `set_baud` accepts; with divisor 2 the last bit would be sampled
  one bit early, which explains the remark that setting 15 "isn't working".

Properties that hold but describe something to know about:

* QuitStopsOrHangs: shutdown can leave the simulation thread waiting for
  `cmdserverlock`, which the server never gives back; under Icarus it always does.
* EveryCommandAnswered: a client that is quicker than the server's first lock of
  `server_mut` is never served, nor is anyone after it. RequestsAnswered: the data server has the same window
  (`src/data_server.cc:97-146`), on F1 for as long as the DMA check takes.
* DrainedUnlessDeadlocked: a device that needs its responses read before it takes a
  command hangs the FPGA runtime. SemaphoreBalanced: a stray response costs an expected one.
* CoherenceIntact: coherence IDs run out for good, and the next ADD reads an empty vector.
* SegmentsMapped: a copy that starts inside a segment ends a simulation, and so does, with
  DMA, one that is no whole number of 64-byte beats.
* CopyExact: on F2, MOVE_FROM_FPGA overwrites the client's segment with an unwritten buffer.
* ReadsComplete: the tail of a read that is longer than a DRAM block and no whole number of
  blocks is not fetched and may never be returned.

## Theorems

`tlapm M.tla` for each of the eight proof modules; the longest, CmdServerProofs and
AXIBusProofs, take a few minutes. Every invariant and action property of the passing
runs is a theorem; so are the refinement of CommandService, by CmdServer and by FpgaRuntime, and the
safety part of the refinement of FrontBus. The only assumptions are those of the
constants, in the module that declares them; SerializedIfCareful has a hypothesis on the accelerator. The bounds on the number of commands, requests and bursts are constants like the
others, so that the theorems hold for every bound.

Every proof has the same plan. `IInv` is a conjunction of named parts that holds
initially and that every action preserves; one lemma per action, or per action and part where
the action disturbs it; the theorems then follow from `Spec => []IInv`. What each
invariant adds to the property, and why the property is not inductive without it:

*AXIBusProofs, first part*, about AXIControl and whatever the accelerator does with its pins: TypeCorrect, Exclusion, ExpectedResponses,
InBounds, SingleDriver. That a machine is busy must imply that it holds the bus. `Holder` says so, with its one
exception, the update machine in CMD_WAIT, and adds that while a response is read the update machine
rests in IDLE_CMD, so that no response poll can start before `cmds_inflight` is decremented.
`Driven` says that pins driven earlier in the cycle were driven by a machine that excludes the later
ones; OneDriver follows from it.

*AXIBusProofs, second part*, with the accelerator: CommandsKept, ResponsesKept, InflightCounted, FrontBusSafe. The
controller and the slave never see each other's state, only pins. `InStep` says that the slave is where the
machines believe it to be once the handshakes of the cycle are counted, `Sampled` that what was read is still so
when it is used. On the command side `Assembled` relates the words the hardware has to
`cmd_progress`, `BitsRight` says that CMD_BITS holds the next word when CMD_VALID is written,
`ReadyKept` that hardware seen ready is ready until it has taken the word. On the response
side `Offered` relates the words in the hardware, those in `resbuf` and `rsp_progress`, and `Tracked` says that every command that
asks for a response is at exactly one place: due, in the response register, in `resbuf`, or registered. FrontBusSafe is the step
simulation: a push, a fetch and a registration are steps of FrontBus, all others change nothing it sees.

*CmdServerProofs*: SlotsExclusive, FreeListSafe, WaiterFound, ResponsesRouted, CommandKept,
ServiceImplemented. Assumed of the constants: fewer commands outstanding than slots, since the server takes a slot without looking
and one more on its way out (IdsSuffice); fewer than 2^16 slots, since 0xffff stands for none (SlotsAreNumbered); no client is called "nobody"
(ClientsAreNamed). `Slots` says that free, client-held and pending slots partition the set, where a slot is pending from its
allocation until the client has been told of it; `Handshake` and `Told` say which steps of the two mutexes this spans, and
`Room` bounds what clients hold. Routing rests on `InOrder`: a core's line in `in_flight` and its commands on their
way (the response being registered, those in the core, those in `cmds`) agree one by one and in order. `Named` makes tags unique, `QueuedOnce`
keeps a slot out of two lines, `Opened` says that an open slot holds the response to the command that owns it. CommandService
has no fairness, so ServiceImplemented is the whole of ImplementsService. CommandStable speaks of the time until a shutdown is
asked for: it makes the server work on the last command once more while a client may write the next.

*FpgaRuntimeProofs*: SemaphoreExact, WaiterFound, ResponsesRouted, LocksExclude, ServiceImplemented. The poller may
hold a whole response before the server has recorded its command. `Tracking` says that a response is outstanding (due in the device, in its queue,
or in the poller's buffer) if and only if its command is in `in_flight` or is the one the server is about to record; that the server holds
`cmdserverlock` meanwhile (`Locks`) keeps the poller from registering too early. `Framing` says that the words in the
device continue the response the poller has begun, `InOrder` that tags grow along every line. The constants'
assumption that no core is called "none" separates stray responses from others. For ServiceImplemented `Past` adds that
only recorded commands have been answered, so that none joins its line a second time; every step but a
record and a registration leaves the service as it is (`Silent`).

*KriaRuntimeProofs*: CoherenceKept, CommandsUndisturbed, ServiceUndisturbed, BusExclusive. The invariant of
FpgaRuntime is preserved by the third thread, which adds `BusHeld` (that thread has `bus_lock` while it writes words),
`Heard` (the manager has the words written so far), `Told` (one command per answered request) and `IdsTaken` (the IDs gone
from `available_ids` are those of the ADDs, each once, as long as any are left).

*MemReadProofs*: OwnerFound, QueueLimited, BeatsOrdered, SerializedIfCareful. `Admission` says that `ar_ready` is up only while another burst
fits; `Counted` that `axi_bus_beats_progress` is the number of beats that left, `Numbered` that each beat has
the number of beats before it, `Arrived` that its block is back (unless it is in a tail that is never fetched). SerializedIfCareful is what remains of
SameIdSerialized, which fails in general: `OneReadPerId` is the hypothesis that the accelerator requests a burst only when
it has the last beat of every earlier one with that ID. Then `OnlyYoungest` is inductive, which says that only the youngest
burst of an ID has beats left to send, and so a beat never follows one of a younger burst.

*MemWriteProofs*: WReadySound, CountExact, WritesLimited, DataKept, ResponsesCounted. `Owed` says that DRAMsim3 owes a
block as often as a burst waits for it, so the callback's front() exists, `Limit` that `aw_ready` is up only while another
write fits. That `w_ready` equals `aw_ready` while no burst waits is what makes WReadyFollowsBursts provable: an address accepted
in a cycle finds `w_ready` up. For the data `Cursor` and `Waiting` say that the bursts that wait for data are exactly
those whose last beat the accelerator has not sent, oldest first, and `Finished` that only complete bursts
get to DRAMsim3 and count down.

*DataServerProofs*, in all four builds: SegmentsKept, WakeUpsMatched, CopiesExact, BurstsStable. `Handshake` says that a client
waits while the server works on its request, so the request stands still; `Apart` and `InTransit` that segments are disjoint and one that is being allocated or
freed belongs to nobody; `CopiesWithin` that a copy stays in a segment of its client; `Ended` that a
process that failed is still at the request that made it fail. `Transfers` ties the `dma_*` globals and the port to the burst under way, and `Copying` says that the beats that have
crossed are the first ones of the copy and that pointers, remaining amount and burst continue where they end.

*ChipkitUartProofs*: BytesKept, SymbolLengths. `Line` says what is on the line in each state of the transmitter and for how many cycles,
`Stream` that `in_stream` is what is left to send, `Chip` where the chip may be in each of them. `InFrame` carries the
argument: the chip is behind the line by at most `Latency` cycles, and has sampled exactly the bits whose middle has passed, each
from its own bit. The start bit is one cycle short and each data bit one cycle long, which adds up to less than 8 cycles over a
byte; that this stays within half a bit needs `baud_div` of at least 16, and `set_baud` accepts no less (`Rate`). The assumption
on the latency is tight: with a start bit seen 8 cycles late at `baud_div` 16, TLC finds a byte that is not intact.

Only model-checked is liveness: EveryCommandAnswered, QuitStopsOrHangs, DrainedUnlessDeadlocked, QuitEndsMain,
DataAnsweredUnlessDeadlocked, ReadsComplete, WritesAcknowledged, RequestsAnswered, BytesDelivered and the fairness in
ImplementsFrontBus. Fairness and ENABLED are beyond the prover.

## Not modelled

* **ChipKit loaders and front ends.** They do not run as they stand: `tick_chip` takes its interfaces
  by value, so what it queues for the UART is lost with the copies; in the Verilator variant the
  locals `trace_file` and `dma_file` of main hide the globals that `run_verilator` reads;
  `readMemFile2ChipkitDMA` is called without its namespace; the VCS variant includes
  `sim/axi/vcs_handle.h`, which is not in the repository. The UART receiver is
  never enabled.
* **VPI front end**, apart from how a run ends: pin handles and registration of tasks are calls of
  the simulator. Under VPI an unmapped address does not end the process; `tick_signals` returns
  early, in the write path with a lock held, until the simulator finishes. MemRead and MemWrite
  leave unmapped addresses out.
* **Pin wrappers, option parsing, tracing, printing**: no state of the runtime. Data values are
  represented by their origin; strobes, FIXED bursts and beats narrower than the bus are left out.
* **System calls that fail at start-up** (`shm_open`, `ftruncate`, `mmap`, `/dev/mem` on Kria): the
  process ends before a client can be served. (In the Kria build `fpga_setup` is compiled in as well,
  since `AWS` is defined, as 0.)
* **Two allocations with one file name.** `ServerAlloc` takes the name drawn by `rand()` to be unused; the file is opened
  without `O_EXCL`, so that segments with the same name would share their memory.
* **Unlocked access to the address translator** by the simulation thread while the data server adds or
  removes a mapping: a data race on a `std::set`, whose outcomes are not bounded by anything in the code.
* The kill utility (one call of `shutdown()`), the trace reader and the deprecated sanity
  programs (not part of the runtime), tests, build files and DRAM configurations.

## Plan

Built, in the order of importance: CommandService and CmdServer, AXIControl
and AXIBus with FrontBus, FpgaRuntime and KriaRuntime, MemRead and MemWrite, DataServer in
its builds, ChipkitUart, and the proofs of the safety properties of all of them. Left: shorter proofs, in which
the lemmas on sequences and counting that several proof modules state for themselves are shared.
