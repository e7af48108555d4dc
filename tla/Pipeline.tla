------------------------------ MODULE Pipeline ------------------------------
(* A SIMD core with its five-stage pipeline: lib/cores/components/         *)
(* pipeline.py (Stage, Pipeline, mkDefaultStages), the cores that run it   *)
(* (lib/cores/bank_simd_scratch.py, components/base.py) and the semantics  *)
(* of components/functional.py, with the core's bank behind MemSystem.     *)
(*                                                                         *)
(* A core tick is one Python call; phase walks through the calls it makes  *)
(* (drain, propagate of each stage from the last to the first, tick of the *)
(* stages, command and instruction handlers), one action each.  The memory *)
(* is only ticked between core ticks.                                      *)
EXTENDS Instructions, FiniteSets

CONSTANTS Programs,   \* what a command's kernel may expand to
          MaxLoads,   \* bound: commands the core is sent
          ScratchSize,  \* chunks the scratchpad holds
          Buffer      \* bound: vector buffers alive at one time (naturals)

\* Every program is well formed.
ASSUME ProgramAssumption ==
  Programs \subseteq Program
\* Buffers for the registers and for all that the clones past decode hold.
ASSUME BufferAssumption ==
  /\ IsFiniteSet(Vector) /\ IsFiniteSet(Buffer) /\ Buffer \subseteq Nat \ {0}
  /\ Cardinality(Buffer) > Cardinality(Vector) + 12
ASSUME LoadAssumption == MaxLoads \in Nat
ASSUME ScratchAssumption == ScratchSize \in Nat \ {0}

VARIABLES
  phase,      \* the call of the core tick that comes next
  cache,      \* instruction_cache: the instructions loaded so far
  loads,      \* bound: commands handled
  pc,         \* core.pc
  ins,        \* the instruction in each stage
  opVals,     \* Instruction._op_vals of the cached instruction at a position
  sreg,       \* scalar registers
  vreg,       \* vector registers and gdl: the buffer each refers to
  heap,       \* contents of the buffers
  scratch,    \* the scratchpad's data
  mem,        \* the bank's stored data
  inflight,   \* transactions DRAMsim3 holds for the bank (local addresses)
  log         \* nd_log of the bank

regs == <<sreg, vreg, heap, scratch>>
bank == <<mem, inflight, log>>
vars == <<phase, cache, loads, pc, ins, opVals, regs, bank>>

Scratch == 0..(ScratchSize - 1)
Stages == {"fetch", "decode", "execute", "mem", "writeback"}
Phases == {"drain", "writeback", "mem", "execute", "decode", "tick", "handle"}
NoBuf == 0

\* A clone of the cached instruction at pc.  left is completion_time (never
\* counted below 0), data and ready its Box, src the Box a WRITE was given.
\* A SCRATCH_WRITE has a src too.  own and was are history variables: the
\* operand values this clone itself captured, and what it overwrote.
Captured == [in1 : Nat, in2 : Nat]
Clone == [pc : Pc, state : {"COLD", "WARM", "DONE"}, left : 0..2, addr : Nat,
          src : Buffer \cup {NoBuf}, data : Buffer \cup {NoBuf},
          ready : BOOLEAN, own : Captured, was : Value]
None == [pc |-> -1]

Nothing == [in1 |-> 0, in2 |-> 0]

\* Where the model starts: a kernel has read a chunk into every vector register
\* (before its first READ one is empty, and no kernel computes with it then),
\* a last READ left its own in gdl, and the contents differ.
FirstBuffers == CHOOSE f \in [Vector -> Buffer] :
                  \A r, s \in Vector : r # s => f[r] # f[s]

Init ==
  /\ phase = "drain"
  /\ cache = <<>> /\ loads = 0 /\ pc = 0
  /\ ins = [s \in Stages |-> None]
  /\ opVals = [p \in Pc |-> Nothing]
  /\ sreg = [r \in SReg |-> 0]
  /\ vreg = FirstBuffers
  /\ heap = [b \in Buffer |-> b % Width]
  /\ mem = [a \in Addr |-> (a + 1) % Width]
  /\ scratch = [a \in Scratch |-> 0]
  /\ inflight = <<>> /\ log = <<>>

-----------------------------------------------------------------------------
Full(s)  == ins[s] # None
Code(c)  == cache[c.pc + 1]
Older    == {"execute", "mem", "writeback"}

At(p)   == phase = p
Goto(p) == phase' = p

\* Box.is_ready: a READY Box stays READY, a COLD one polls the log.
BoxReady(c) == c.ready \/ (log # <<>> /\ Head(log) = c.addr)

\* Mutant of IsDone: a memory operation looks at completion_time too.
IsDoneAtOnce(c) == c.left = 0

\* Instruction.is_done.  A memory operation asks its Box (before it was
\* started: an empty Box, never ready), the others look at completion_time; a
\* scratchpad operation's Box waits for a core cycle, and left counts to it.
IsDone(c) == IF IsMem(Code(c)) THEN c.state # "COLD" /\ BoxReady(c) ELSE c.left = 0

\* conditional_jump, called from is_done once: only while state is not DONE.
Jumps(c) == /\ Code(c).op \in CondJumps
            /\ c.state # "DONE"
            /\ Taken(Code(c), opVals[c.pc].in1, opVals[c.pc].in2)

-----------------------------------------------------------------------------
(* instruction_side_effect_callback: the registers after clone c retires.  *)
Latched(i) == {Gdl} \cup ({i.dst} \ {NoReg})

SRegAfter(c) ==
  LET i == Code(c)
      o == opVals[c.pc]
  IN  CASE i.op = "MOV" /\ i.in1 = NoReg -> [sreg EXCEPT ![i.dst] = i.imm]
        [] i.op = "MOV" /\ i.in1 \in SReg -> [sreg EXCEPT ![i.dst] = o.in1]
        [] Immediate(i) -> [sreg EXCEPT ![Dest(i)] = Combine(i, o.in1, i.imm)]
        [] Folding(i) ->
             \* dst is reset first, then fold_vec reads the live registers
             [sreg EXCEPT ![Dest(i)] =
               Combine(i, IF Dest(i) = i.in1 THEN Neutral(i) ELSE sreg[i.in1],
                       heap[vreg[i.in2]])]
        [] OTHER -> sreg

\* In place: reg0 is a view of the first operand's buffer.
HeapAfter(c) ==
  LET i == Code(c)
      o == opVals[c.pc]
  IN  IF Vectorial(i)
        THEN [heap EXCEPT ![o.in1] =
               Combine(i, @, IF i.op \in ScalarOps THEN o.in2 ELSE heap[o.in2])]
        ELSE heap

VRegAfter(c) ==
  LET i == Code(c)
      o == opVals[c.pc]
  IN  CASE i.op = "SCRATCH_READ" -> [vreg EXCEPT ![i.dst] = c.data]
        [] IsMem(i) -> [r \in Vector |-> IF r \in Latched(i) THEN c.data ELSE vreg[r]]
        [] i.op = "MOV" /\ i.in1 \in Vector -> [vreg EXCEPT ![i.dst] = o.in1]
        [] Vectorial(i) -> [vreg EXCEPT ![Dest(i)] = o.in1]
        [] OTHER -> vreg

\* Pipeline.tick, leaf nodes: what is done in writeback takes effect and goes.
Drain ==
  /\ At("drain") /\ Goto("writeback")
  /\ IF Full("writeback") /\ IsDone(ins["writeback"])
       THEN LET c == ins["writeback"] IN
            /\ sreg' = SRegAfter(c) /\ vreg' = VRegAfter(c) /\ heap' = HeapAfter(c)
            /\ ins' = [ins EXCEPT !["writeback"] = None]
            /\ UNCHANGED scratch
       ELSE UNCHANGED <<regs, ins>>
  /\ UNCHANGED <<cache, loads, pc, opVals, bank>>

-----------------------------------------------------------------------------
(* Stage.propagate, from the last stage to the first.  Each takes the      *)
(* instruction of the stage before it if it is empty itself and its rule   *)
(* allows it; entry and exit side effects run in the same call.            *)
Moves(from, to, c) == ins' = [ins EXCEPT ![from] = None, ![to] = c]

\* writeback_prop: the instruction is done.  For a memory operation the poll
\* that finds this out takes the last entry off the log and, for a WRITE,
\* stores what the given Box refers to NOW.
PropagateWriteback ==
  LET c == ins["mem"] IN
  /\ At("writeback") /\ Goto("mem")
  /\ IF ~Full("writeback") /\ Full("mem") /\ IsDone(c)
       THEN /\ Moves("mem", "writeback", [c EXCEPT !.state = "DONE", !.ready = IsMem(Code(c))])
            /\ IF IsMem(Code(c)) /\ ~c.ready
                 THEN /\ log' = SubSeq(log, 1, Len(log) - 1)
                      /\ mem' = IF Code(c).op = "WRITE"
                                  THEN [mem EXCEPT ![c.addr] = heap[c.src]]
                                  ELSE mem
                 ELSE UNCHANGED <<log, mem>>
       ELSE UNCHANGED <<ins, log, mem>>
  /\ UNCHANGED <<cache, loads, pc, opVals, regs, inflight>>

\* A buffer nobody refers to: not a register, not a clone, not an operand a
\* clone past decode captured.
Held(c) == {c.src, c.data, c.own.in1, c.own.in2}
References ==
  {vreg[r] : r \in Vector} \cup UNION {Held(ins[s]) : s \in {t \in Older : Full(t)}}
Fresh == CHOOSE b \in Buffer : b \notin References

\* The buffer a WRITE takes: that of its operand, or what the GDL holds.
Source(c) == vreg[IF Code(c).in1 = NoReg THEN Gdl ELSE Code(c).in1]

\* Mutant of Started: start() forgets to make the instruction WARM.
StartedCold(c) ==
  [c EXCEPT !.data = Fresh,
            !.src = IF Code(c).op = "WRITE" THEN Source(c) ELSE NoBuf]

\* mem_entry, the start of a memory operation: MemSystem.get copies the chunk
\* now, MemSystem.set keeps the Box it was given and returns a copy.
Started(c) ==
  [c EXCEPT !.state = "WARM", !.data = Fresh,
            !.src = IF Code(c).op = "WRITE" THEN Source(c) ELSE NoBuf]

Issue(c) ==
  LET i == Code(c) IN
  /\ inflight' = Append(inflight, c.addr)
  /\ heap' = [heap EXCEPT ![Fresh] =
                IF i.op = "READ" THEN mem[c.addr] ELSE heap[Started(c).src]]

\* Scratchpad.read_bytes and write_bytes: at the poll that finds the deadline
\* past, a read copies the chunk into a Box of its own and a write stores what
\* its source refers to NOW.
Accessed(c) ==
  [c EXCEPT !.state = "DONE",
            !.data = IF Code(c).op = "SCRATCH_READ" THEN Fresh ELSE @,
            !.was = scratch[c.addr]]
Access(c) ==
  IF Code(c).op = "SCRATCH_READ"
    THEN /\ heap' = [heap EXCEPT ![Fresh] = scratch[c.addr]]
         /\ UNCHANGED scratch
    ELSE /\ scratch' = [scratch EXCEPT ![c.addr] = heap[c.src]]
         /\ UNCHANGED heap

\* What a taken jump flushes.  Mutant: decode is left alone.
FlushedFew == {"fetch", "execute"}
Flushed == {"fetch", "decode", "execute"}

\* mem_prop: done, or a memory operation.  Asking a conditional jump whether
\* it is done takes it: pc changes and fetch, decode and execute are flushed,
\* the jump itself included.  A memory operation outside the mapped addresses
\* raises PimAccessOutOfBoundsError and ends the simulation: no step here; so
\* does frombuffer for one outside the scratchpad.
PropagateMem ==
  LET c == ins["execute"] IN
  /\ At("mem") /\ Goto("execute")
  /\ IF Full("mem") \/ ~Full("execute") \/ ~(IsDone(c) \/ IsMem(Code(c)))
       THEN UNCHANGED <<ins, pc, heap, scratch, inflight>>
     ELSE IF IsMem(Code(c))
       THEN /\ c.addr \in Addr
            /\ Moves("execute", "mem", IF c.state = "COLD" THEN Started(c) ELSE c)
            /\ IF c.state = "COLD" THEN Issue(c) ELSE UNCHANGED <<heap, inflight>>
            /\ UNCHANGED <<pc, scratch>>
     ELSE IF IsScratch(Code(c))
       THEN /\ c.addr \in Scratch
            /\ Moves("execute", "mem", Accessed(c))
            /\ Access(c)
            /\ UNCHANGED <<pc, inflight>>
     ELSE IF Jumps(c)
       THEN /\ pc' = Code(c).addr
            /\ ins' = [s \in Stages |-> IF s \in Flushed THEN None ELSE ins[s]]
            /\ UNCHANGED <<heap, scratch, inflight>>
     ELSE /\ Moves("execute", "mem", [c EXCEPT !.state = "DONE"])
          /\ UNCHANGED <<pc, heap, scratch, inflight>>
  /\ UNCHANGED <<cache, loads, opVals, sreg, vreg, mem, log>>

\* read_exit: operands are read, and an indexed address is formed, when the
\* instruction leaves decode.  _op_vals is shared by the clones of a cached
\* instruction (clone() copies the reference), the address is the clone's own.
Operand(r, kept) == CASE r = NoReg -> kept [] r \in SReg -> sreg[r] [] OTHER -> vreg[r]
ReadOperands(c) == [in1 |-> Operand(Code(c).in1, opVals[c.pc].in1),
            in2 |-> Operand(Code(c).in2, opVals[c.pc].in2)]
Indexed(c) == IF IsMem(Code(c)) /\ OffsetReg(Code(c)) # NoReg
                THEN c.addr + sreg[OffsetReg(Code(c))] ELSE c.addr

\* Mutant of PastDeadline: the access is over when its deadline is reached.
AtDeadline == 1

\* Cycles a scratchpad operation stays in execute: its deadline is cycle +
\* ceil(access_time / tCK), one cycle on at 5 ns, and must have passed.
PastDeadline == 2

\* exe_entry starts everything but memory operations, which start on entering
\* mem: a scratchpad operation takes its deadline, and its source if it has one.
Entered(c) ==
  LET i == Code(c) IN
  [c EXCEPT !.own = ReadOperands(c), !.addr = Indexed(c),
            !.left = IF IsScratch(i) THEN PastDeadline ELSE @,
            !.src = IF i.op = "SCRATCH_WRITE" THEN vreg[i.in1] ELSE @,
            !.state = IF IsMem(i) THEN @ ELSE "WARM"]

\* exe_prop: cold or a memory operation.
PropagateExecute ==
  LET c == ins["decode"]
      i == Code(c)
  IN
  /\ At("execute") /\ Goto("decode")
  /\ IF ~Full("execute") /\ Full("decode") /\ (c.state = "COLD" \/ IsMem(i))
       THEN /\ opVals' = [opVals EXCEPT ![c.pc] = ReadOperands(c)]
            /\ i.op = "SCRATCH_WRITE" => c.addr \in Scratch
            /\ Moves("decode", "execute", Entered(c))
       ELSE UNCHANGED <<ins, opVals>>
  /\ UNCHANGED <<cache, loads, pc, regs, bank>>

\* read_prop, the interlock: an instruction does not enter decode while an
\* older one past decode names one of its inputs as dst, nor while both use
\* the bank or the GDL.

\* Mutants of Conflict: without the GDL rule; without the second operand;
\* without the destinations.
ConflictNoGdl(i, older) ==
  \E r \in {i.in1, i.in2} : r # NoReg /\ r = older.dst
ConflictFirst(i, older) ==
  (i.in1 # NoReg /\ i.in1 = older.dst) \/ (UsesGdl(i) /\ UsesGdl(older))
ConflictGdl(i, older) == UsesGdl(i) /\ UsesGdl(older)

Conflict(i, older) ==
  \/ \E r \in {i.in1, i.in2} : r # NoReg /\ r = older.dst
  \/ UsesGdl(i) /\ UsesGdl(older)
Interlocked(c) == \E s \in Older : Full(s) /\ Conflict(Code(c), Code(ins[s]))

PropagateDecode ==
  LET c == ins["fetch"] IN
  /\ At("decode") /\ Goto("tick")
  /\ IF ~Full("decode") /\ Full("fetch") /\ ~Interlocked(c)
       THEN Moves("fetch", "decode", c)
       ELSE UNCHANGED ins
  /\ UNCHANGED <<cache, loads, pc, opVals, regs, bank>>

\* Stage.tick: only execute counts down.
TickStages ==
  /\ At("tick") /\ Goto("handle")
  /\ IF Full("execute") /\ ins["execute"].left > 0
       THEN ins' = [ins EXCEPT !["execute"].left = @ - 1]
       ELSE UNCHANGED ins
  /\ UNCHANGED <<cache, loads, pc, opVals, regs, bank>>

-----------------------------------------------------------------------------
\* ins_queue_handler: clone the instruction at pc into fetch and move pc on;
\* an unconditional jump redirects pc at once.
FetchFrom(code) ==
  IF pc < Len(code) /\ ~Full("fetch")
    THEN LET i == code[pc + 1] IN
         /\ ins' = [ins EXCEPT !["fetch"] =
              [pc |-> pc, state |-> "COLD", left |-> i.time, addr |-> i.addr,
               src |-> NoBuf, data |-> NoBuf, ready |-> FALSE, own |-> Nothing, was |-> 0]]
         /\ pc' = IF i.op = "JMP" THEN i.addr ELSE Succ(pc)
    ELSE UNCHANGED <<ins, pc>>

\* BaseCore.tick without a command: the instruction handler alone.
Handle ==
  /\ At("handle") /\ Goto("drain")
  /\ FetchFrom(cache)
  /\ UNCHANGED <<cache, loads, opVals, regs, bank>>

\* Mutant of HandleCommand: the instruction handler runs before cmd_handler.
HandleCommandLate(p) ==
  LET code == cache \o Relocated(p, Len(cache)) IN
  /\ At("handle") /\ Goto("drain")
  /\ Len(code) <= CacheSize
  /\ cache' = code /\ loads' = loads + 1
  /\ FetchFrom(cache)
  /\ UNCHANGED <<opVals, regs, bank>>

\* ... with a command: cmd_handler loads its kernel behind the programs in the
\* cache (load_prog raises when it does not fit), then the handler runs.
HandleCommand(p) ==
  LET code == cache \o Relocated(p, Len(cache)) IN
  /\ At("handle") /\ Goto("drain")
  /\ Len(code) <= CacheSize
  /\ cache' = code /\ loads' = loads + 1
  /\ FetchFrom(code)
  /\ UNCHANGED <<opVals, regs, bank>>

\* DRAMsim3 (external) serves the bank's oldest transaction between core ticks.
Serve ==
  /\ At("drain")
  /\ inflight # <<>>
  /\ inflight' = Tail(inflight)
  /\ log' = Append(log, Head(inflight))
  /\ UNCHANGED <<phase, cache, loads, pc, ins, opVals, regs, mem>>

CoreStep == \/ Drain \/ PropagateWriteback \/ PropagateMem \/ PropagateExecute
            \/ PropagateDecode \/ TickStages \/ Handle

Next == CoreStep \/ Serve
          \/ (loads < MaxLoads /\ \E p \in Programs : HandleCommand(p))

\* The simulation loop keeps ticking the core; DRAMsim3 serves what it
\* accepted, though it may take any number of core ticks over it.
Fairness == WF_vars(Next) /\ SF_vars(Serve)

Spec == Init /\ [][Next]_vars /\ Fairness

-----------------------------------------------------------------------------
(* Properties *)

TypeOK ==
  /\ phase \in Phases
  /\ cache \in Seq(Instruction) /\ Len(cache) <= CacheSize
  /\ loads \in 0..MaxLoads
  /\ pc \in Pc
  /\ ins \in [Stages -> Clone \cup {None}]
  /\ opVals \in [Pc -> Captured]
  /\ sreg \in [SReg -> Value]
  /\ vreg \in [Vector -> Buffer]
  /\ heap \in [Buffer -> Value]
  /\ scratch \in [Scratch -> Value]
  /\ mem \in [Addr -> Value]
  /\ inflight \in Seq(Nat) /\ log \in Seq(Nat)

\* Past decode at most one instruction uses the bank or the GDL: what the
\* interlock is for, and what MemSystem's Boxes need (OwnCompletion there).
OneMemOp ==
  \A s, t \in Older :
    /\ Full(s) /\ Full(t) /\ s # t
    => ~(UsesGdl(Code(ins[s])) /\ UsesGdl(Code(ins[t])))

\* No transaction of the bank is ever without its instruction: between issue
\* and poll there is at most one, and it is that of the memory operation in
\* mem.  So a poll never takes another Box's entry off the log, and a taken
\* jump never flushes an operation whose completion would be left behind.
Waiting == Full("mem") /\ IsMem(Code(ins["mem"])) /\ ~ins["mem"].ready
OwnTransaction ==
  IF Waiting
    THEN \/ inflight = <<ins["mem"].addr>> /\ log = <<>>
         \/ inflight = <<>> /\ log = <<ins["mem"].addr>>
    ELSE inflight = <<>> /\ log = <<>>

\* Past decode, no instruction reads a register an older one has yet to write.
Rank(s) == CASE s = "execute" -> 1 [] s = "mem" -> 2 [] s = "writeback" -> 3
HazardFree ==
  \A s, t \in Older :
    Full(s) /\ Full(t) /\ Rank(s) < Rank(t) =>
      LET young == Code(ins[s])
          old == Code(ins[t])
      IN  old.dst # NoReg => old.dst \notin {young.in1, young.in2}

\* Instruction.start never raises "already started", and writeback only holds
\* instructions that are done: is_done was asked by the rule that let them in.
StartedOnce ==
  /\ \A s \in {"fetch", "decode"} : Full(s) => ins[s].state = "COLD"
  /\ Full("execute") =>
       (ins["execute"].state = "COLD" <=> IsMem(Code(ins["execute"])))
  /\ Full("mem") => ins["mem"].state # "COLD"
  /\ Full("writeback") => ins["writeback"].state = "DONE" /\ IsDone(ins["writeback"])

\* The clones of one cached instruction share their operand dictionary, yet
\* each retires with the operands it read itself.
OperandsAreOwn ==
  \A s \in Older : Full(s) =>
    LET i == Code(ins[s]) IN
    /\ i.in1 # NoReg => opVals[ins[s].pc].in1 = ins[s].own.in1
    /\ i.in2 # NoReg => opVals[ins[s].pc].in2 = ins[s].own.in2

\* When a WRITE starts, no older operation has yet to change the buffer it
\* takes.  The interlock looks at destinations, but vector operations work in
\* place on their first operand, whatever register they name as destination.
WritesSettled ==
  At("mem") /\ ~Full("mem") /\ Full("execute") /\ Full("writeback")
    /\ Code(ins["execute"]).op = "WRITE" /\ Vectorial(Code(ins["writeback"]))
  => Source(ins["execute"]) # opVals[ins["writeback"].pc].in1

\* Between core ticks an empty pipeline has nothing left to fetch: when
\* all_cores_idle says so, the loaded programs really have run.
IdleMeansFinished ==
  At("drain") /\ (\A s \in Stages : ~Full(s)) => pc >= Len(cache)

\* Whatever the interlock and the memory do, the pipeline never wedges: for
\* ever again it retires something or is empty.
NeverWedged == []<>(Full("writeback") \/ \A s \in Stages : ~Full(s))

\* Refinement of the sequential core.  An instruction counts as executed when
\* it enters writeback (or is taken, for a jump): the registers are those
\* after writeback's instruction, pc is that of the oldest one behind it.
Front == CASE Full("mem") -> ins["mem"].pc
           [] ~Full("mem") /\ Full("execute") -> ins["execute"].pc
           [] ~Full("mem") /\ ~Full("execute") /\ Full("decode") -> ins["decode"].pc
           [] ~Full("mem") /\ ~Full("execute") /\ ~Full("decode") /\ Full("fetch")
                -> ins["fetch"].pc
           [] OTHER -> pc
W == ins["writeback"]
SRegNow == IF Full("writeback") THEN SRegAfter(W) ELSE sreg
VRegNow == IF Full("writeback") THEN VRegAfter(W) ELSE vreg
HeapNow == IF Full("writeback") THEN HeapAfter(W) ELSE heap

\* A SCRATCH_WRITE in mem has stored already.
M == ins["mem"]
ScratchNow == IF Full("mem") /\ Code(M).op = "SCRATCH_WRITE"
                THEN [scratch EXCEPT ![M.addr] = M.was] ELSE scratch

Sequential == INSTANCE SequentialCore WITH
  scratch <- ScratchNow,
  pc    <- Front,
  sreg  <- SRegNow,
  val   <- [r \in Vector |-> HeapNow[VRegNow[r]]],
  alias <- {{r \in Vector : VRegNow[r] = b} : b \in {VRegNow[r] : r \in Vector}}

\* Pipelining is invisible: every kernel leaves the registers and the bank as
\* if its instructions had run one after the other.
ImplementsSequentialCore == Sequential!Spec
=============================================================================
