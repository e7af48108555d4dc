----------------------------- MODULE KernelCore -----------------------------
(* A core and the kernels it expands commands to: cmd_handler and          *)
(* parse_cmd of lib/cores/bank_simd_scratch.py (kind "cached", loops in an *)
(* instruction cache) and of lib/cores/ins_stream_bank_simd.py and         *)
(* ins_stream_bank_simd_scratch.py ("stream", "stream_scratch", straight   *)
(* lines in a queue), on the instruction set of SequentialCore with typed  *)
(* scalars and with chunks of padding.                                     *)
EXTENDS Kernels

CONSTANTS
  Setups,      \* what a core may be built and its bank be filled with
  Commands,    \* what it may be sent
  MaxCommands, \* bound: commands sent
  Narrow,      \* numbers of the narrow dtype
  Empty,       \* the content of a chunk of padding: no bytes
  Deviations   \* commands known not to do as they say, by kind of deviation

ASSUME BoundAssumption == MaxCommands \in Nat
ASSUME NarrowAssumption == Narrow \in Nat \ {0} /\ Width <= Narrow
ASSUME EmptyAssumption == Empty \notin Int
\* Cores have three scalar registers and a vector register at least, and an
\* object at least one chunk on every core.
ASSUME SetupAssumption ==
  \A s \in Setups :
    /\ s.reg \in Seq(SReg) /\ Len(s.reg) >= 3
    /\ \A m, n \in DOMAIN s.reg : m # n => s.reg[m] # s.reg[n]
    /\ s.vec \in Seq(VReg) /\ Len(s.vec) >= 1 /\ s.nCol \in Nat \ {0}
    /\ s.object \in Seq([first : Nat, len : Nat \ {0}, used : Nat]) /\ Len(s.object) >= 1
    /\ \A o \in DOMAIN s.object :
         \A a \in 0..(s.object[o].first + s.object[o].len - 1) : s.data[a] \in Value
\* Commands name objects; one that does not is dropped by the device.
ASSUME CommandAssumption ==
  \A c \in Commands, s \in Setups :
    {c.op1, c.op2, c.dst} \subseteq DOMAIN s.object /\ c.scalar \in Nat
ASSUME DeviationAssumption ==
  Deviations \subseteq {"min", "short", "narrow", "uneven", "ragged", "full"}

VARIABLES
  setup,       \* the core and its objects, never changed
  cache,       \* cached: the instruction cache; stream: every instruction that
               \* was queued, the queue being the part from pc on
  pc,
  sreg, val, alias, mem,  \* as in SequentialCore
  sent,        \* bound: commands sent
  jobs,        \* history: commands accepted, and where their programs start
  goal         \* history: what they ask for, done in order and at once

vars == <<setup, cache, pc, sreg, val, alias, mem, sent, jobs, goal>>

Core == INSTANCE SequentialCore
          WITH Programs <- {}, MaxLoads <- MaxCommands, loads <- sent,
               ScratchSize <- 0, scratch <- <<>>

Cached == setup.kind = "cached"

\* Bytes of narrow data taken for a wider type: no number of its own.
Mixed == -1
NoResult == -2
Lane == Value \cup {Mixed}

\* An object has len chunks of the bank from first on, used of them data.
Objects == DOMAIN setup.object
RangeOf(o) == <<setup.object[o].first, setup.object[o].first + setup.object[o].len>>
In(a, r) == r[1] <= a /\ a < r[2]
Mapped == 0..(Max({RangeOf(o)[2] : o \in Objects}) - 1)
Padding(a) == \E o \in Objects :
  setup.object[o].first + setup.object[o].used <= a /\ a < RangeOf(o)[2]
InBounds == {a \in Mapped : ~Padding(a)}

TypeOK ==
  /\ setup \in Setups
  /\ pc \in 0..Len(cache) /\ (Cached => Len(cache) <= CacheSize)
  /\ sreg \in [SReg -> Int]
  /\ val \in [Vector -> Lane \cup {Empty}]
  /\ UNION alias = Vector /\ \A c, d \in alias : c = d \/ c \cap d = {}
  /\ mem \in [Mapped -> Lane \cup {Empty}]
  /\ \A a \in Mapped : mem[a] = Empty <=> Padding(a)
  /\ sent \in 0..MaxCommands /\ Len(jobs) <= sent

Init ==
  /\ setup \in Setups
  /\ cache = <<>> /\ pc = 0
  /\ sreg = [r \in SReg |-> 0]
  /\ val = [r \in Vector |-> Empty]
  /\ alias = {{r} : r \in Vector}
  /\ mem = [a \in Mapped |-> IF Padding(a) THEN Empty ELSE setup.data[a]]
  /\ sent = 0 /\ jobs = <<>>
  /\ goal = [mem |-> mem, result |-> NoResult]

-----------------------------------------------------------------------------
(* Commands.                                                               *)

\* parse_cmd: which generator, with which operations.
VecVec == [PIM_ADD |-> "VEC_ADD", PIM_SUB |-> "VEC_SUB",
           PIM_MUL |-> "VEC_MUL", PIM_DIV |-> "VEC_DIV"]
VecScalar == [PIM_SCALAR_ADD |-> "SCALAR_ADD", PIM_SCALAR_SUB |-> "SCALAR_SUB",
              PIM_SCALAR_MUL |-> "SCALAR_MUL", PIM_SCALAR_DIV |-> "SCALAR_DIV"]
Fold  == [PIM_RED_SUM |-> "VEC_ADD", PIM_RED_MAX |-> "VEC_MAX", PIM_RED_MIN |-> "VEC_MIN"]
Final == [PIM_RED_SUM |-> "RED_ADD", PIM_RED_MAX |-> "RED_MAX", PIM_RED_MIN |-> "RED_MIN"]

\* supported_cmds.
Supported ==
  DOMAIN VecVec \cup DOMAIN Fold \cup {"PIM_ABS"}
    \cup IF Cached THEN DOMAIN VecScalar ELSE {"PIM_SCALAR_ADD"}

\* DeviceCommand.to_command: the ranges of the objects named.
ToCommand(c) ==
  [type |-> c.type, r1 |-> RangeOf(c.op1), r2 |-> RangeOf(c.op2),
   dst |-> RangeOf(c.dst), scalar |-> c.scalar, dtype |-> setup.dtype]

ProgramOf(cmd) ==
  CASE cmd.type \in DOMAIN VecVec ->
         IF Cached THEN VecVecKernel(setup, cmd, VecVec[cmd.type])
                   ELSE StreamedVecVecKernel(setup, cmd, VecVec[cmd.type], InBounds)
    [] cmd.type \in DOMAIN VecScalar ->
         IF Cached THEN VecScalarKernel(setup, cmd, VecScalar[cmd.type])
                   ELSE StreamedVecScalarKernel(setup, cmd, VecScalar[cmd.type], InBounds)
    [] cmd.type \in DOMAIN Fold ->
         IF Cached THEN RedKernel(setup, cmd, Fold[cmd.type], Final[cmd.type])
                   ELSE StreamedRedKernel(setup, cmd, Fold[cmd.type], Final[cmd.type])

\* PimCmdNotSupportedError, PimCmdNotImplementedError, the assertions of the
\* generators, a cache that is full: nothing is loaded.
Even(cmd) == Extent(cmd.r1) = Extent(cmd.dst)
Accepted(cmd) ==
  /\ cmd.type \in Supported
  /\ \/ cmd.type \in DOMAIN VecVec /\ Even(cmd) /\ Extent(cmd.r1) = Extent(cmd.r2)
     \/ cmd.type \in DOMAIN VecScalar /\ (Cached \/ Even(cmd))
     \/ cmd.type \in DOMAIN Fold /\ (Cached => Len(setup.vec) >= 3)
  /\ Cached => Len(cache) + Len(ProgramOf(cmd)) <= CacheSize

-----------------------------------------------------------------------------
(* What a command asks for.                                                *)
Elementwise(m, cmd, op, Second(_)) ==
  [a \in Mapped |->
     LET k == a - cmd.dst[1]
         x == m[cmd.r1[1] + k]
     IN  IF In(a, cmd.dst) /\ k < Extent(cmd.r1) /\ Empty \notin {m[a], x, Second(k)}
           THEN Combine([op |-> op], x, Second(k)) ELSE m[a]]

Asked(g, cmd) ==
  CASE cmd.type \in DOMAIN VecVec ->
         [mem |-> Elementwise(g.mem, cmd, VecVec[cmd.type], LAMBDA k : g.mem[cmd.r2[1] + k]),
          result |-> NoResult]
    [] cmd.type \in DOMAIN VecScalar ->
         [mem |-> Elementwise(g.mem, cmd, VecScalar[cmd.type], LAMBDA k : cmd.scalar),
          result |-> NoResult]
    [] cmd.type \in DOMAIN Fold ->
         LET i == [op |-> Final[cmd.type]]
             chunks == {a \in Mapped : In(a, cmd.r1) /\ g.mem[a] # Empty}
         IN  [mem |-> g.mem,
              result |-> MapThenFoldSet(LAMBDA x, y : Combine(i, x, y), Neutral(i),
                           LAMBDA a : g.mem[a], LAMBDA S : CHOOSE a \in S : TRUE, chunks)]

\* Commands whose kernels do something else, by kind: "min" (VEC_MIN is not
\* retired), "short" (the loop of red_kernel runs once on one or two chunks),
\* "narrow" (counters of the data's type overflow, a final fold of the default
\* type), "uneven" (vec_scalar_kernel does not compare the ranges), "ragged"
\* (operands padded differently), "full" (pc wraps to the first program).
Deviates(cmd) ==
  LET reduces == cmd.type \in DOMAIN Fold
      used(r) == Cardinality({a \in r[1]..(r[2] - 1) : ~Padding(a)})
  IN  {d \in {"min", "short", "narrow", "uneven", "ragged", "full"} :
         \/ d = "min" /\ cmd.type = "PIM_RED_MIN"
         \/ d = "short" /\ Cached /\ reduces /\ Extent(cmd.r1) < 3
         \/ /\ d = "narrow" /\ setup.dtype # Int32
            /\ IF reduces THEN Cached \/ Len(setup.vec) < 3
                          ELSE Cached /\ Extent(cmd.r1) >= Narrow
         \/ d = "uneven" /\ ~reduces /\ ~Even(cmd)
         \/ /\ d = "ragged" /\ ~reduces /\ Even(cmd)
            /\ \/ used(cmd.r1) # used(cmd.dst)
               \/ cmd.type \in DOMAIN VecVec /\ used(cmd.r1) # used(cmd.r2)
         \/ d = "full" /\ Cached /\ Len(cache) + Len(ProgramOf(cmd)) = CacheSize}

-----------------------------------------------------------------------------
\* cmd_handler with a command that is accepted: its program goes behind all
\* that came before, whatever the core is doing.
HandleCommand(c) ==
  LET cmd == ToCommand(c) IN
  /\ sent < MaxCommands /\ sent' = sent + 1
  /\ Accepted(cmd)
  /\ Deviates(cmd) \subseteq Deviations
  /\ cache' = cache \o Relocated(ProgramOf(cmd), Len(cache))
  /\ jobs' = Append(jobs, [start |-> Len(cache), cmd |-> cmd])
  /\ goal' = Asked(goal, cmd)
  /\ UNCHANGED <<setup, pc, sreg, val, alias, mem>>

\* ... and with one that raises; the host drops the exception and goes on.
RefuseCommand(c) ==
  /\ sent < MaxCommands /\ sent' = sent + 1
  /\ ~Accepted(ToCommand(c))
  /\ UNCHANGED <<setup, cache, pc, sreg, val, alias, mem, jobs, goal>>

-----------------------------------------------------------------------------
(* Instructions, as SequentialCore has them but for types and padding.     *)
Cast(dtype, x) == IF dtype = Int32 THEN x ELSE x % Narrow
Typed(i, x, y) ==
  IF i.dtype # setup.dtype \/ Mixed \in {x, y} THEN Mixed ELSE Combine(i, x, y)

Read(i) == /\ i.op = "READ" /\ Core!At(i) \in Mapped
           /\ Core!Read(i)

\* Mutant of Write: padding is written like data.
WritePadding(i) ==
  LET a == Core!At(i)
      v == val[IF i.in1 = NoReg THEN Gdl ELSE i.in1]
  IN  /\ i.op = "WRITE" /\ a \in Mapped
      /\ Core!Latch(i, v)
      /\ mem' = IF v = Empty THEN mem ELSE [mem EXCEPT ![a] = v]

\* bank_write ignores padding; no bytes are written from an empty register.
Write(i) ==
  LET a == Core!At(i)
      v == val[IF i.in1 = NoReg THEN Gdl ELSE i.in1]
  IN  /\ i.op = "WRITE" /\ a \in Mapped
      /\ Core!Latch(i, v)
      /\ mem' = IF Empty \in {v, mem[a]} THEN mem ELSE [mem EXCEPT ![a] = v]

Add(i) == /\ i.op = "IMM_ADD"
          /\ Core!Scalar(Dest(i), Cast(i.dtype, Cast(i.dtype, sreg[i.in1])
                                                + Cast(i.dtype, i.imm)))

\* Mutant of MapVec: no check for empty operands.
MapVecEmpty(i) ==
  LET x == val[i.in1]
      y == val[i.in2]
  IN  Core!Shared(Dest(i), i.in1, IF Empty \in {x, y} THEN Empty ELSE Typed(i, x, y))

\* map_vec: an operand without bytes passes the other one through.
MapVec(i) ==
  LET x == val[i.in1]
      y == val[i.in2]
      d == Dest(i)
  IN  \/ /\ x = Empty /\ y = Empty
         /\ val' = [val EXCEPT ![d] = Empty]
         /\ alias' = Core!Rebound({d})
         /\ UNCHANGED <<sreg, mem>>
      \/ x = Empty /\ y # Empty /\ Core!Shared(d, i.in2, y)
      \/ x # Empty /\ y = Empty /\ Core!Shared(d, i.in1, x)
      \/ x # Empty /\ y # Empty /\ Core!Shared(d, i.in1, Typed(i, x, y))
MapScalarVec(i) ==
  LET x == val[i.in1] IN
  Core!Shared(Dest(i), i.in1, IF x = Empty THEN Empty ELSE Typed(i, x, sreg[i.in2]))

\* dst is reset to the neutral element, which an empty register leaves there.
FoldVec(i) ==
  LET acc == IF Dest(i) = i.in1 THEN Neutral(i) ELSE sreg[i.in1]
      v == val[i.in2]
  IN  Core!Scalar(Dest(i), IF v = Empty THEN Neutral(i) ELSE Typed(i, acc, v))

Target(i) ==
  IF i.op \in CondJumps /\ Taken(i, Cast(i.dtype, sreg[i.in1]), Cast(i.dtype, sreg[i.in2]))
    THEN i.addr
  ELSE IF Cached THEN Succ(pc) ELSE pc + 1

Step ==
  /\ pc < Len(cache)
  /\ LET i == cache[pc + 1] IN
       /\ pc' = Target(i)
       /\ \/ Read(i) \/ Write(i) \/ Core!Move(i) \/ Add(i) \/ Core!Control(i)
          \/ i.op \in VecOps /\ MapVec(i)
          \/ i.op \in ScalarOps /\ MapScalarVec(i)
          \/ i.op \in RedOps /\ FoldVec(i)
  /\ UNCHANGED <<setup, cache, sent, jobs, goal>>

Next == Step \/ \E c \in Commands : HandleCommand(c) \/ RefuseCommand(c)

\* The core is ticked for as long as it is not idle.
Spec == Init /\ [][Next]_vars /\ WF_vars(Step)

-----------------------------------------------------------------------------
(* Properties *)

Idle == pc >= Len(cache)

\* When the core is idle the bank holds what the commands ask for, done one
\* after the other, and nothing else was touched, padding included; the result
\* of a reduction is in the first scalar register until the next command.
KernelsCompute ==
  Idle => /\ mem = goal.mem
          /\ goal.result # NoResult => sreg[setup.reg[1]] = goal.result

\* A kernel reads and writes only chunks of the objects its command names, and
\* writes only those of the destination: nothing a core does on its own may hit
\* a neighbour, or an address without an object, which ends the simulation.
Running == LET started == {n \in DOMAIN jobs : jobs[n].start <= pc}
           IN  jobs[Max(started)].cmd
KernelsStayInRange ==
  ~Idle /\ IsMem(cache[pc + 1]) =>
    LET i == cache[pc + 1]
        a == Core!At(i)
    IN  \/ i.op = "READ" /\ (In(a, Running.r1)
                               \/ (Running.type \in DOMAIN VecVec /\ In(a, Running.r2)))
        \/ i.op = "WRITE" /\ Running.type \notin DOMAIN Fold /\ In(a, Running.dst)

\* Kernels end: loops leave on their counters, whatever their types.
KernelsEnd == []<>Idle
=============================================================================
