# Build-A-PIM in TLA+

A verification development for [Build-A-PIM](../src/README.md), a cycle-level
simulator of processing-in-memory devices: a host puts arrays into the banks of
a DRAM device, queues commands, and small cores beside the banks expand each
command into a kernel and run it, with DRAMsim3 timing the banks. The modules
model the logic of `lib/`: what the simulator must get right for its results to
be those of the program it simulates.

Paths below are relative to `src/`.

## 1. Inventory

| Component | State | Operations | What makes it correct |
|---|---|---|---|
| **Address mapper** `lib/address/address_mapper.py` | three parallel lists (boundaries, indices, offsets), a dirty flag, numpy copies | `add_mapping`, `remove_mapping`, `__getitem__` (bakes), `contains_mapping`, `get_end_of_range` | an address has one owner; a mapping changes its own range only; lookups never use an old copy |
| **Memory system** `lib/memsys.py` | an address mapper, the stored objects, per bank a log of completions, the event flag, transactions inside DRAMsim3 | `get`, `set`, `add_transaction*`, `tick`, `mmap`, `munmap`, the completion callback | a Box becomes READY when its own transaction was served, a read with the data of its address, a write having stored what its item holds |
| **Boxes** `lib/containers.py` | COLD or READY, an update callback, a buffer | `is_ready`, `update_status` | polled until READY, never after |
| **Instructions** `lib/cores/instructions.py` | state COLD/WARM/DONE, completion time, operand values, Box | `clone`, `start`, `is_done`, `tick` | started once; clones do not disturb each other |
| **Pipeline** `lib/cores/components/pipeline.py` | one instruction per stage | `tick`: drain, propagate (last stage first), tick of the stages; `flush` | same result as one instruction at a time; never wedges |
| **SIMD core** `lib/cores/bank_simd_scratch.py`, `components/base.py` | pc, registers, GDL, pipeline, instruction cache, scratchpad | `tick`: pipeline, command handler, instruction handler; `call_start_setter`, the retirement callback | kernels run in command order, to their end |
| **Instruction-stream cores** `lib/cores/ins_stream_bank_simd.py`, `ins_stream_bank_simd_scratch.py` | as the SIMD core, with a queue of instructions and no pc | the same; kernels are straight lines | as the SIMD core |
| **Scratchpad** `components/scratchpad.py` | a byte array | `read_bytes`, `write_bytes`: a Box with a deadline in core cycles | a chunk read is the one last written in program order |
| **Instruction semantics** `components/functional.py` | none | one function per class of operation, in place on the buffer of the first operand | registers as the operation says |
| **Kernels** `components/functional.py` | none | six generators: vector-vector, vector-scalar and reduction, as loops and as straight lines | memory and result as the command says; nothing outside its objects; an end |
| **Instruction cache** `components/instruction_cache.py` | slots with programs, an address mapper | `load_prog`, `drop_prog_starting_at`, `fetch` | an address leads to the instruction that was loaded there unless a load or a drop has damaged its program; jumps stay in their program |
| **Device** `lib/device/` | mapping of object ids, default location, transaction queue, cycle | `instant_place_data`, `add_transaction`, `tick`, `all_cores_idle` | accepted commands reach every core once, in order; the host's loop ends |
| **Allocation** `lib/address/allocation.py` | none | `pim_device_place_data` | every chunk on exactly one core; the swept range mapped on all |
| Controller records, errors, types, DRAMsim3 binding | none | none | none of their own |

How they interact. Everything is synchronous Python in one thread: the host
calls `BaseDevice.tick`, which pops a command, ticks each core (pipeline, then
command handler, then instruction handler) and then the memory. Concurrency is
that of the simulated hardware: five instructions in flight in a core, several
transactions in a bank, and many cores. The parts share state through
callbacks: DRAMsim3 calls `log_cb` for a served transaction, the poll of a Box
(from an instruction's `is_done`, from a propagation rule) takes the entry off
the bank's log or accesses the scratchpad, an instruction's `is_done` takes a
jump and flushes stages while they are being propagated.

Hard behaviours: the overlap of reading, executing and retiring (hazards,
shared operand dictionaries, flushes in the middle of a propagation); buffers
that several registers name; completions matched by address and not by
transaction; data copied at issue and delivered at completion, and data taken
at completion or at a deadline, which others may have worked on meanwhile; interval lists under long sequences of calls; loops without a
check for a rest, with counters of the data's type; commands that arrive while
a kernel runs; exceptions in the middle of a tick; two clock domains. Each is
listed at its line under "hazards" in `PROJECT.json`.

## 2. Modules

| Module | Models | State and actions |
|---|---|---|
| `IntervalTable` | the interval lists as pure operators | a table is one function from boundaries to (index, offset); `Mapped` is the splice followed by the cleanup loop; the bisections are comparisons with the set of boundaries |
| `AddressMapper` | the address mapper | `table`, `dirty`, `baked`, last `answer`; `AddMapping`, `RemoveMapping`, `Lookup` |
| `IntervalMap` | its abstract specification: an owner per address | `Map`, `Lookup` |
| `MemSystem` | memory system and Boxes | `table`, `store`, `inflight`, `log`, `box`, `item` (the buffers of callers, which a set refers to), `event`, and the history variables `foreign` (was there a transaction without a Box?) and `edited` (the waiting sets whose item was worked on); `Get`, `GetFails`, `Set`, `Modify`, `HostAccess`, `Poll` (a set stores what its item holds NOW), `Drop`, `Tick`, `TickUntilEvent`, `Mmap`, `Munmap` |
| `Instructions` | instruction set, what each operation computes, well-formedness, relocation | operators only |
| `SequentialCore` | abstract core: one instruction at a time | registers, sharing of vector buffers (`alias`), bank, scratchpad; `Load`, `Step` |
| `Pipeline` | the core with its pipeline, its bank and its scratchpad | one action per call of a core tick (`Drain`, `PropagateWriteback`, `PropagateMem`, `PropagateExecute`, `PropagateDecode`, `TickStages`, `Handle` or `HandleCommand`), and `Serve` for DRAMsim3 |
| `Kernels` | the kernel generators | operators only: a program for a core's registers and columns and a command's ranges |
| `KernelCore` | the three cores from a command to its result | `HandleCommand`, `RefuseCommand`, `Step`; instructions run one at a time (they are those of `SequentialCore`), on typed counters and on chunks that may be padding; `goal` is what the commands ask for |
| `InstructionCache` | the instruction cache, over `IntervalTable` | `table`, `slots`, `last`, jump `target` of each list, `overwritten`, and history variables: `loads` of each list, and the addresses that are `shifted` (behind a load into their program) or `dangling` (left by a drop to a slot that was freed); `LoadProg` and `DropProg` at any address, `Generate` for a caller that makes a list anew |
| `ProgramMemory` | its abstract specification: per address an instruction, none, or one that is damaged | `Load`, `Drop`, `DropDamaged` |
| `Allocation` | `pim_device_place_data`, over `IntervalTable` | operators only (`PlaceData` is the loop over the cores) |
| `Device` | host, device, queue, clock, cores seen from outside | `InstantPlaceData`, `AddTransaction`, `TickCommand`, `TickRaises`, `TickIdle` |
| `IntervalTableProofs` | lemmas about the interval lists, for the modules below | |
| `AddressMapperProofs`, `MemSystemProofs`, `PipelineProofs`, `PipelineRefinementProofs`, `InstructionCacheProofs`, `KernelCoreProofs`, `DeviceProofs` | the proofs | |
| `MC*` | instances for TLC | |

How the modules rest on each other:

- `IntervalTable` is used by four modules, as `AddressMapper` is in the code.
- `MemSystem` shows (and `MemSystemProofs` proves) that Boxes are sound when the
  callers of a bank keep at most one waiting (`MaxOutstanding = 1`); `Pipeline`,
  which contains the bank at that level of detail (address log, `pop` of the
  last entry, reads copied at issue, writes stored at the poll), shows that a core keeps it so (`OwnTransaction`,
  `OneMemOp`).
- `Pipeline` implements `SequentialCore`: that is why `KernelCore` may run the
  kernels one instruction at a time. The programs of `MCPipeline` are made by
  the generators of `Kernels`, so that what `KernelCore` runs in order is also
  run with all overlaps.
- `Device` keeps of a core that commands run one after the other and that an
  empty pipeline means they have run to their end; `Pipeline` checks that
  (`IdleMeansFinished`, `NeverWedged`), and `KernelCore` that kernels have an
  end (`KernelsEnd`). `Device` also shows that the ranges a kernel sweeps are
  mapped on every core (`Resident`), on which `KernelCore` builds.

Abstractions. A chunk of the width of the global data line is one value; a
vector register has one lane (lanes never mix before a reduction); arithmetic
is modulo `Width`, unsigned. A bank and a local address replace the bits of a
DRAM address. A program in `InstructionCache` is a name for a list with a length and one
jump. Vector registers are references to buffers, because arithmetic in the
code works in place: the sharing it causes is part of `SequentialCore`, so that
the refinement does not hide it. A Box of the scratchpad waits for the core's
cycle to pass a deadline; in `Pipeline` the cycles it has still to wait take the
place of the completion time in its clone. The queue of an instruction-stream
core is the part of the cache behind pc: it takes straight lines only, so that
nothing is fetched twice. In `Pipeline` a core tick is atomic only per call, but
the memory is served between ticks only, as in the code. In `KernelCore` data
has the dtype of the command or is `Mixed`, the result of reading bytes in
another type, which equals no number; a chunk of padding is `Empty`. Mutated
definitions (`...Quietly`, `...First`, ...) stand before the definition they
vary, marked "Mutant of"; no specification uses them.

## 3. Runs

All runs use `tlc -config <cfg> <module>`.

| Run | Checks | Bounds |
|---|---|---|
| `mapper` | `TypeOK`, `NormalForm`, `BakedIsCurrent`, `QueriesAgree`, `BelowUntouched`, `FreshMappingAddressed`, `ImplementsIntervalMap` | addresses 0..4, indices 0 and -2, offsets 0 and 1: five boundaries allow a range to start, end and lie inside, at the edge of and across two others. Every reachable table is tried against every next call. The view drops numpy copies that the dirty flag forbids reading |
| `memory` | `TypeOK`, `ReadyMeansServed`, `OwnCompletion`, `ReadyIsCurrent`, `BoxEventuallyReady` | two banks of one address each, whose users keep at most one Box waiting on a bank, so that one bank is written and remapped while a read of the other waits; an item that is worked on while a set waits for it (`Modify`); a host's transactions on one bank, and failing accesses that leave log entries nobody owns. A second address in a bank would add nothing: with one waiting Box and no foreign transaction the address always matches, and with foreign ones only properties of the data are claimed. A READY Box is let go before anything is issued (`MaxReady` = 0), as it is not polled again. Larger banks and more of them, Boxes and items are covered by the proofs |
| `pipeline` | `OneMemOp`, `OwnTransaction`, `HazardFree`, `StartedOnce`, `WritesSettled`, `ImplementsSequentialCore` | all 15^3 straight lines of three instructions that meet every interlock rule, bank and scratchpad (two chunks) among them, every delay of the memory: three instructions fill the stages between read and retirement |
| `pipeline_loops` | `TypeOK`, `OperandsAreOwn`, `IdleMeansFinished`, `NeverWedged`, `ImplementsSequentialCore` | what the generators make of `PIM_MUL` and `PIM_RED_SUM` (loops, a window of one chunk) and of streamed commands with a shorter last window; tight loops, an endless one, every kind of jump taken and not taken, a loop through the scratchpad; two of these at any time |
| `kernels` | `TypeOK`, `KernelsCompute`, `KernelsStayInRange`, `KernelsEnd` | fourteen cores, eight with loops and six with straight lines, which run alike in the two instruction-stream cores: registers above, at and below the chunks of an object, with and without a common divisor, columns fewer than registers, objects with and without padding and of padding only, 8-bit data whose counters wrap (`Narrow` = 8, lengths below it); three of eleven commands in a row, also while a kernel runs; a cache of 30 instructions, into which some second and third kernels no longer fit |
| `cache` | `TypeOK`, `FetchDefined`, `JumpsStayInside`, `CareIsEnough`, `ImplementsProgramMemory` | four addresses, lists of one and of three instructions, two slots, each list loaded up to twice before it is made anew: the short one splits the long one, loads replace heads and tails, drops are by any address, freed slots are reused while something is still mapped to them, neighbours merge |
| `device` | `TypeOK`, `Delivery`, `Resident`, `LoopEnds` | three cores of three chunks each, up to two objects of 1, 4 or 5 chunks (fewer chunks than cores, ragged shares, a core with no share), three commands, a queue of two, a cache for two kernels: a full queue, commands with missing operands, a load that fails |

Runs that show a disagreement between the code and what it says of itself
(`PROJECT.json`, "findings"):

| Run | Violates | Because |
|---|---|---|
| `mapper_split` | `RemovalIsLocal` | the tail of a split interval gets the offset of its head (`address_mapper.py:32-40`) |
| `memory_early` | `ReadyMeansServed` | completions are matched at the head of the log and removed at its tail (`memsys.py:136-137, 182-183`) |
| `pipeline_scalar` | `ImplementsSequentialCore` | the interlock looks at `dst`, which the operation of `vec_scalar_kernel` does not name (`pipeline.py:236`); with a window of one chunk its WRITE follows at once and is started before the operation has retired. The bank still gets the result, as what is stored is the live buffer (`memsys.py:183`); stale is the copy taken at issue, which the data line latches (`memsys.py:192`). `streamed_vec_scalar_kernel` does the same when its last window has one chunk |
| `kernels_min` | `KernelsCompute` | no core carries out VEC_MIN, of which the kernel of `PIM_RED_MIN` is made (`bank_simd_scratch.py:151-160, 194`) |
| `device_slow` | `Delivery` | commands are popped in cycles in which cores are not ticked (`device/base.py:116-126`) |

`memory_early` needs two waiting Boxes of one bank, which the cores never have;
it concerns other users of `MemSystem`. The clock rate of `device_slow` is 1 by
default.

### What the passing runs leave out

Where the code does something else than its kernels, hosts or callers rely on,
the case is named by a constant, left out of the passing runs, and shown when it
is allowed:

| Constant and value | Case | TLC then shows violated |
|---|---|---|
| `KernelCore`, `Deviations = {"min"}` | minimum over several chunks (run `kernels_min`) | `KernelsCompute` |
| `{"short"}` | a looped reduction of one or two chunks: the body runs once whatever the length (`functional.py:443`) | `KernelsStayInRange` |
| `{"narrow"}` | counters of the data's type that reach its end (`functional.py:673`); reductions that fold 8-bit data as the default int32 | `KernelsCompute` |
| `{"uneven"}` | a vector-scalar loop over ranges of different lengths (`functional.py:699`) | `KernelsStayInRange` |
| `{"full"}` | a kernel that fills the cache to its last instruction: pc wraps to the first one (`bank_simd_scratch.py:216`) | `KernelsEnd` |
| `{"ragged"}` | operands padded in different places (`functional.py:366`), with a fifth object that has such padding | `KernelsCompute` |
| `MemSystem`, `MaxOutstanding = 2` | two waiting Boxes of a bank (run `memory_early`) | also `BoxEventuallyReady`: the other Box waits for ever |
| `Device`, `Careless = {"overlap"}` | placements over older objects: an explicit address below one moves the default back in front of it (`device/base.py:94`) | `Resident` |
| `Device`, `Careless = {"overflow"}` | placements past the end of a bank, which `mmap` does not check (`memsys.py:480`) | `Resident` |

Four more things the models show without a constant:

- By its docstring `tick(until_event=True)` progresses "until an event has
  fired" (`lib/memsys.py:533-534`), but a flag that an earlier `tick()` left up
  ends it at once, without a cycle (`lib/memsys.py:540`; action
  `TickUntilEvent`).
- Relocation changes the jump targets in the caller's list, so a list that is
  loaded a second time jumps too far (`instruction_cache.py:48`). Every caller
  in `lib/` loads a list it has just made. Second loads are in the model, and
  `JumpsStayInside` claims the right jump for lists loaded once since
  `Generate`; without that hypothesis TLC finds it violated after two loads.
- A load into the middle of a program leaves a tail that is fetched from the
  program's first instruction on (`instruction_cache.py:65`, the offset of
  `address_mapper.py:40`; `shifted`). A drop by an inner address leaves a head
  mapped to a free slot, which the next load may get (`dangling`), although by
  the docstring "any program which contains an instruction at the passed address
  will be dropped" (`instruction_cache.py:73`) and a test drops by such an
  address (`test_instruction_cache.py:47`, which looks at the slots only). A program
  loaded into that slot right behind the head merges with it, and its own
  instructions are then counted from the head's first address. Nothing else is
  ever damaged (`FetchDefined`, `ImplementsProgramMemory`), and nothing at all by
  callers that load over whole programs and drop by the address of a load
  (`CareIsEnough`), as the cores do.
- The interlock knows only destinations that are named, so an operation without
  `dst` is not seen by what follows it. Kernels are safe where such operations
  have something between them and the next use of the register. The programs of
  `MCPipeline` are likewise; a buffer that is changed under another register's
  name and then written at once (`VEC_MUL v0 := v1 * v0`, `WRITE v1`) meets the
  same hole: the copy the data line latches is the old one. On the way to the
  scratchpad nothing is copied, and its deadline leaves the older operation the
  time to retire.

`FreshMappingAddressed` has a hypothesis the code needs: if the interval just
below carries the same index and offset, the cleanup loop merges the two, and
the new range is addressed as the continuation of the old one.

### Fairness

`MemSystem`: a bank that is ticked serves what it accepted (weak fairness of
ticks that serve the bank), and the holder of a Box keeps polling (the pipeline
asks `is_done` on every tick). `Pipeline`: the simulation loop keeps ticking
(weak fairness of `Next`) and DRAMsim3 serves after finitely many ticks; `Serve`
is possible between ticks only, hence strong fairness. `KernelCore`: the core is
ticked while it is not idle (weak fairness of `Step`). `Device`: the host loop
keeps ticking (weak fairness), and a kernel ends if its core keeps being ticked
(strong fairness per core, as it can only end in ticks in which cores run).
That a kernel ends is a property of the kernel, `KernelsEnd`; `Pipeline` shows
the part that is the core's, that it never wedges.

### Assumptions about callers

Named in the modules at the guard: hosts keep objects apart and inside the bank
unless `Careless` (`Device`); nobody remaps a bank while a Box waits on it, and
a chunk has one address (`MemSystem`); programs are well formed, the form the cores assert
(`Instructions`), and set a scalar register before they read it; hosts drop
exceptions and go on (`Device`, `TickRaises`; `KernelCore`, `RefuseCommand`).

## 4. Proofs

`IntervalTableProofs` says what the operations on the interval lists do to any
proper table (boundaries inside the address space, address 0 one of them).
There is one lemma per stage of `add_mapping`: what an entry is after the splice
(`SplicedEntry`), that the cleanup loop changes no entry although it deletes
boundaries (`CleanedEntry`, by the least boundary of a run of equal entries)
and leaves nothing redundant (`CleanedIrredundant`); together `MappedEntry`, the
address-by-address meaning of a call. An entry is what the lists hold, an index
and an offset as stored. The position inside an object adds the distance to the
boundary before the address, so behind a range that splits an interval it moves
(run `mapper_split`).

Its last part relates boundaries and addresses: in a table without redundant
boundaries they are exactly where the entry changes (`ChangeIsBoundary`,
`BoundaryIsChange`), a run of equal entries has its first address as floor
(`RunStart`) and its end as `get_end_of_range` (`RunEnd`), `contains_mapping`,
which looks at boundaries, means addresses (`ContainsMeans`), and two tables
that agree up to an address have the same floor there (`SameFloor`).

`AddressMapperProofs`, for every number of addresses and all sets of indices
and offsets: the type invariant, `NormalForm`, `BakedIsCurrent`, `QueriesAgree`,
the refinement of `IntervalMap`, and what a range that is mapped does to
positions: none below it moves (`BelowUntouched`), and those of a fresh range
count from its first address (`FreshMappingAddressed`). The inductive invariant adds to the type that
address 0 is a boundary and no boundary lies below it (so every address has a
floor), and that the last interval is unmapped; `MappedEntry` gives each step
of the refinement.

`MemSystemProofs`, for every number and size of banks, every store and any
number of Boxes: `TypeOK` without further hypotheses; `ReadyIsCurrent`,
`OwnCompletion` and `ReadyMeansServed` when callers keep one waiting Box per
bank (`MaxOutstanding = 1`), the last two as long as no transaction without a
Box was submitted, which `foreign` records. `ReadyIsCurrent`
says of a Box that turns READY that its address holds the data of the Box, unless
it is a set whose item was worked on in between, and that after a set the address
holds what the item holds then, worked on or not. The invariant for the data says
that a waiting read holds what its address still contains (`Latest`): no other
Box waits on its bank (`Sole`), a Box of another bank writes another chunk
(`ChunksApart`: canonical addresses of banks differ, and no chunk has two
addresses), and no mapping moves meanwhile; and that the copy in a waiting set is
its item's value unless the item was worked on (`Copied`). The invariant for the completions
(`OwnInv`) is a two-state description of each bank, idle or waiting for one
Box; it needs that what a Box waits for is mapped, since a write that raises
uses up the log entry and leaves the Box COLD.

`PipelineProofs`, for all sets of registers, all sets of well-formed programs,
every cache, memory and scratchpad size: `TypeOK`, `OneMemOp`, `OwnTransaction`,
`HazardFree`, `StartedOnce`, `IdleMeansFinished`; and, for programs whose
immediate operations and reductions name a destination (`Declares`),
`OperandsAreOwn`. None but `IdleMeansFinished` is inductive alone. The interlock is asked
once, when an instruction enters decode, so the invariant relates the
instruction in decode to the three stages past it in advance; who may wait on
the bank follows from the state of the clone in mem; a clone that retires into
a register holds a buffer (`Boxed`); and that a fresh buffer always exists needs
a count of all references (the registers, and at most twelve held by three
clones). One lemma per action, under it one step per conjunct the action can
disturb. For `OperandsAreOwn` the invariant gains that what a clone past decode
read is still in the registers (`OwnCurrent`): then a second clone of its
instruction overwrites the shared dictionary with equal values. The retirement
of an older clone keeps that, by `HazardFree` and `OneMemOp` and because an
operation in place leaves its register the same buffer. The hypothesis is
needed: in a loop of an `IMM_ADD` without destination and a jump back to it, a
clone retires with the operand its successor read. No kernel loops over such an
operation; the streamed reductions, whose last fold names no destination, are
left to the run.

`PipelineRefinementProofs`: `Pipeline` implements `SequentialCore`, for all sets
of registers, all sets of well-formed programs with `Declares`, and every size,
under the hypothesis `[]WritesSettled`: no WRITE is started while an operation
that works in place on the buffer it takes is still in writeback. The interlock
does not ensure that, since it compares registers and not buffers; the run
`pipeline` checks that no straight line of its programs violates it, and where
it fails (`pipeline_scalar`) the refinement does too. A clone takes effect for
`SequentialCore` when it enters writeback, a jump when it is taken. Seven parts
are added to the invariant. `Path` says that the clones in the stages and `pc`
follow each other as the program does when no conditional jump among them is
taken, which makes the `pc` of the abstract core that of the oldest clone not
yet in writeback; `NotTaken` that a jump in mem was decided rightly; `Addressed`
and `Sources` that an index or a source register read in decode is unchanged;
`Private` that what is being read lies in a buffer no register refers to; and
`Contents` that what an operation found when it was started (the chunk of a
READ, the value of a WRITE, either access to the scratchpad) is what it finds
when it is done and everything before it has retired. For a SCRATCH_WRITE that
is a matter of time: `Deadlines` follows the two cycles its deadline leaves, in
which whatever works in place before it leaves writeback. `Steps` and the `...Does` lemmas say what
each call of a tick does to the stages; each kind of instruction has a lemma
that its retirement is the step of `SequentialCore` (`ReadRetires` to `Controls`), with
`ReboundClasses` and `JoinedClasses` for what rebinding and in-place results do
to the partition of the registers by buffers.

Its second part gets rid of the hypothesis for the programs that matter. `Spaced`
is a condition on the text of the programs, each instruction and the next: an
operation in place that a WRITE follows uses the GDL, or names as its destination
the register that is written, or, in programs that never make two registers share
a buffer (`Apart`), works on another register. `WritesAlwaysSettled` proves
`WritesSettled` from it, and `SpacedRefinement` the refinement. A WRITE is started
while an older operation is in writeback only if nothing lies between the two, so
the invariant says that behind the clone in writeback comes the instruction that
follows it (`Following`; a jump that is taken leaves nothing behind it), and that
registers which never came to share a buffer do not (`Unshared`).
`LoopKernelsPipelined` applies this to the generators, instruction by
instruction: for every core, all ranges, scalars and dtypes, and any number of
kernels in any order, what `vec_vec_kernel`, `red_kernel` and `vec_scalar_kernel`
with a window of more than one chunk emit runs on the pipeline as it does one
instruction at a time. The exception is the one of `pipeline_scalar`. On the way
`WindowFacts` shows that `sel_window` returns a divisor of every length.

`KernelCoreProofs`, for every core of the three kinds, every layout of objects,
any scalars and any sequence of commands sent at any time: `TypeOK`, also where
`Deviations` allows the commands that do not do as they say, and
`KernelsStayInRange` for `Deviations \subseteq {"min", "ragged"}`. `"short"` and
`"uneven"` break it (section 3 has the runs); `"narrow"` is left out because a
counter that wraps never meets its limit as the loop expects, and `"full"`
because pc then wraps to the kernel of another command. The argument has three
layers.

- About the generators alone: every instruction is one the cores carry out, and
  a program has one of three shapes (`Shaped`): a loop whose body accesses
  windows at an offset register (`IsLoop`), the unrolled loop of a reduction,
  which folds two chunks a round and one more after it if the length is even
  (`IsFold`), or a straight line whose addresses are all inside the operands
  (`Direct`). That every window is inside its object is `WindowFacts` again: the
  window divides the length.
- `TypeInv` is inductive. It adds to `TypeOK` that every cached instruction is
  legal, that jumps lead into the cache, and that scalar registers hold naturals
  or the mixture of types that the model calls `Mixed`. The classes of registers that share a buffer stay a partition under
  reads, operations in place and releases (`Separated`, `Joined`).
- `StayInv` is inductive. The cache is a row of such programs, relocated, in the
  order of `jobs`, that covers it without gaps (`Laid`, `Stay`); and wherever pc
  is in one of them, the registers that count are what the shape says: at an
  instruction of a loop the first register is a multiple of the window that
  leaves room for one more (`Turn`), in a reduction the second is odd at the head
  of the loop and below the even limit in the third (`Round`). `ProgramStep` says
  that a step keeps this, through the body, the jump back and the exit into the
  program behind; `StayLoads` that a command accepted while another runs only
  adds a program at the end. `StayInRange` concludes from the counters at pc.

The counters must be facts about the program at pc and no other: the next kernel
finds the registers as the last one left them, and what makes its first access
right is that a head sets them. The proof needs assumptions on the constants
that TLC did not: three scalar registers and a vector register at least, objects
of at least one chunk (`SetupAssumption`; `functional.py:423` asserts the three
registers, and a placement of nothing maps nothing), commands that name
existing objects and a scalar that is not negative (`CommandAssumption`; the
device refuses others, and signed numbers are not modelled).

`InstructionCacheProofs`, for every cache size, every set of lists, any number of
slots and any loads and drops: `TypeOK`, `FetchDefined`, `JumpsStayInside`,
`CareIsEnough` and the refinement of `ProgramMemory`. What a fetch finds is
counted from the boundary before the address (`Base`); `FloorMeans` and
`FloorAfter` say how the boundaries move when a range is mapped. The invariant
is about what is not damaged. Damage reaches to the end of its interval
(`InvDamaged`), so an intact address is counted from an intact beginning; outside
`dangling` a fetch is inside a program (`InvSound`); what is intact in a slot is
one interval (`InvOnce`), so two intact addresses of a slot belong to one copy;
and a list loaded once has the jump of that load (`InvLoads`). A load is done for
the addresses in its range (`LoadInside`) and outside it (`LoadOutside`): those
outside keep what they had or, behind a split, become `shifted`; those inside are
the program's, or all `dangling` where the range has merged with the leftover of
the program whose slot it got. The
abstract memory tells copies of one program apart by the address their first
instruction has or would have; `SameCopyMeans` shows that this is the boundary
intact addresses are counted from. A slot whose program was overwritten stays in use although nothing
reaches it; the invariant allows for such orphans.

`DeviceProofs`, for every number of cores, objects and commands and any host,
also the careless ones: `Delivery`, under the hypothesis `Rate = 1`, without
which it does not hold (`device_slow`). `Delivery` compares
what a core was handed with what `to_command` would make of the command NOW; it
is inductive together with the facts that placements only append to
`_id_mapping` and that a command that left the queue for the cores named placed
objects (`InvPlaced`, `InvQueue`, `InvHanded`). The exception paths remove one
command in the middle of the accepted ones (`RemoveAtElements`).

The second part of `DeviceProofs`, for every number and size of the banks, every clock rate and
any sequence of placements: `TypeOK` for hosts that stay inside the banks
(`"overflow" \notin Careless`), `Resident` for hosts that also keep objects apart
(`Careless = {}`); section 3 lists the runs that show what the others break. What
the loop of `PlaceData` computes is shown round by round: `LoopExists` and
`LoopResult` give the tables between the rounds, a least round at which
`Reached` fails cannot exist (`ReachedNext`), and so every core's share and its
padding are mapped and no other address is (`PlaceDataFacts`). `Lies` is the
address-by-address form of `Resident`: `Entry` has what the object's place says,
and no other address names the object. The second half is what makes `Resident`
follow: a position inside an object is counted from the boundary below it, so
the interval just below a share must not carry the same entry. It may be the
share of the same object on the core before (banks are adjacent, and a share may
fill its bank), which then differs in its offset, or another object, which
differs in its index.

The assumptions are those named in the modules (`ProgramAssumption`,
`BufferAssumption`, `ScratchAssumption`, ...), and TLC evaluates them in the
runs.

Only model-checked: liveness (`BoxEventuallyReady`, `NeverWedged`, `KernelsEnd`,
`LoopEnds`), which is beyond the prover; `OperandsAreOwn` and the refinement for
the streamed reductions, whose last fold has no `dst` (`Declares`); what the
kernels compute (`KernelsCompute`), which is an induction over the chunks of an
object through recursive folds, and out of the prover's reach;
`KernelsStayInRange` in cores that do raise the other deviations, where it is
false.

## 5. Not modelled

The bits of DRAM addresses; the bytes of a chunk, with the conversions of
`bank_read` and `bank_write` and the bounds of `frombuffer`; signed and
floating-point numbers; the check of the device for bits on the data line, which
never applies as no core's `tick` returns a response; the `nd_log=False` mode, in
which the attribute `nd_log` is never set, so that `get` and `set` raise an
AttributeError; `Ptr`, iteration and element access of
Boxes; statistics and configuration; the operations of `OpType` that no core
carries out (VEC_MIN stands for them). Kernels run over SIMD cores with the
default five stages.

## 6. Plan

Done: `IntervalTable`, `AddressMapper`, `IntervalMap` and proofs; `MemSystem` and
proofs; `Instructions`, `SequentialCore`, `Pipeline` with the scratchpad and
proofs; `Kernels`, `KernelCore` and proofs; `InstructionCache`, `ProgramMemory`;
`Allocation`, `Device`; proofs about the instruction cache, the device and the
placement of objects; the refinement of `SequentialCore`, without hypotheses on
behaviours for the looped kernels.

Next: that the windows of the streamed kernels partition their ranges; what the
looped element-wise kernels compute, whose windows are independent, as an
invariant on the chunks already written.
