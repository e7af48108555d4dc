--------------------------- MODULE PipelineProofs ---------------------------
(* Theorems about Pipeline, for every core (any registers, word width,     *)
(* cache and bank size) and any well-formed programs.  The argument is one *)
(* inductive invariant, IInv: the types, the operands and Boxes the clones *)
(* carry, and the properties of the interlock (an instruction in decode    *)
(* was cleared against everything past it, DecodeClear, and stays cleared  *)
(* because only decode feeds execute).                                     *)
EXTENDS Pipeline, Functions, FiniteSetTheorems, TLAPS

-----------------------------------------------------------------------------
(* The strengthening. *)

\* What has been loaded is well formed and jumps inside the cache.
Programmed ==
  \A n \in DOMAIN cache :
    WellFormed(cache[n]) /\ (IsJump(cache[n]) => cache[n].addr < CacheSize)

\* A clone is a clone of something in the cache.
Fetched == \A s \in Stages : Full(s) => ins[s].pc < Len(cache)

\* The operands captured for clone c are of the kind its registers hold.
OperandsTyped(c) ==
  LET i == Code(c)
      o == opVals[c.pc]
  IN  /\ i.in1 \in SReg => o.in1 \in Value
      /\ i.in1 \in Vector => o.in1 \in Buffer
      /\ i.in2 \in SReg => o.in2 \in Value
      /\ i.in2 \in Vector => o.in2 \in Buffer
OperandTypes == \A s \in Older : Full(s) => OperandsTyped(ins[s])

\* A started operation of the bank or the scratchpad has its Boxes; that of a
\* memory operation is READY only in writeback.
Boxed ==
  /\ \A s \in Stages : Full(s) /\ s # "writeback" => ~ins[s].ready
  /\ \A s \in {"mem", "writeback"} : Full(s) =>
       /\ IsMem(Code(ins[s])) => ins[s].data \in Buffer
       /\ Code(ins[s]).op = "WRITE" => ins[s].src \in Buffer
       /\ Code(ins[s]).op = "SCRATCH_READ" => ins[s].data \in Buffer
  /\ Full("execute") /\ Code(ins["execute"]).op = "SCRATCH_WRITE"
       => ins["execute"].src \in Buffer
  /\ Full("writeback") /\ IsMem(Code(ins["writeback"])) => ins["writeback"].ready

\* The instruction in decode conflicts with nothing past decode.
DecodeClear == Full("decode") => ~Interlocked(ins["decode"])

IInv ==
  /\ TypeOK /\ Programmed /\ Fetched /\ OperandTypes /\ Boxed
  /\ DecodeClear /\ OneMemOp /\ HazardFree /\ StartedOnce /\ OwnTransaction

-----------------------------------------------------------------------------
(* Buffers. *)

LEMMA Twelve == IsFiniteSet(1..12) /\ Cardinality(1..12) = 12
<1> DEFINE C == Cardinality(1..12)
<1>1. 1 \in Int /\ 12 \in Int
  OBVIOUS
<1>2. IsFiniteSet(1..12) /\ C = IF 1 > 12 THEN 0 ELSE 12 - 1 + 1
  BY <1>1, FS_Interval, Zenon
<1>3. C = 12
  <2> HIDE DEF C
  <2> QED BY <1>2
<1> QED BY <1>2, <1>3, Zenon

\* There is always a buffer nobody refers to: the registers and the clones
\* past decode cannot hold all of them.
LEMMA FreshBuffer ==
  ASSUME TypeOK
  PROVE  Fresh \in Buffer /\ Fresh \notin References
<1> DEFINE V == {vreg[r] : r \in Vector}
           e == ins["execute"]
           m == ins["mem"]
           w == ins["writeback"]
           f == <<e.src, e.data, e.own.in1, e.own.in2,
                  m.src, m.data, m.own.in1, m.own.in2,
                  w.src, w.data, w.own.in1, w.own.in2>>
           E == {f[n] : n \in 1..12}
<1>1. IsFiniteSet(V) /\ Cardinality(V) <= Cardinality(Vector)
  <2>1. vreg \in Surjection(Vector, V)
    BY DEF TypeOK, Surjection
  <2> QED BY <2>1, FS_Surjection, BufferAssumption
<1>2. IsFiniteSet(E) /\ Cardinality(E) <= 12
  <2>1. [n \in 1..12 |-> f[n]] \in Surjection(1..12, E)
    BY DEF Surjection
  <2>2. IsFiniteSet(1..12) /\ Cardinality(1..12) = 12
    BY Twelve
  <2> HIDE DEF E
  <2> QED BY <2>1, <2>2, FS_Surjection
<1>3. References \subseteq V \cup E
  <2>1. \A s \in Older : Held(ins[s]) \subseteq E
    <3>1. Held(e) \subseteq E
      <4>1. e.src = f[1] /\ e.data = f[2] /\ e.own.in1 = f[3] /\ e.own.in2 = f[4]
        OBVIOUS
      <4> HIDE DEF f
      <4> QED BY <4>1 DEF Held
    <3>2. Held(m) \subseteq E
      <4>1. m.src = f[5] /\ m.data = f[6] /\ m.own.in1 = f[7] /\ m.own.in2 = f[8]
        OBVIOUS
      <4> HIDE DEF f
      <4> QED BY <4>1 DEF Held
    <3>3. Held(w) \subseteq E
      <4>1. w.src = f[9] /\ w.data = f[10] /\ w.own.in1 = f[11] /\ w.own.in2 = f[12]
        OBVIOUS
      <4> HIDE DEF f
      <4> QED BY <4>1 DEF Held
    <3> QED BY <3>1, <3>2, <3>3 DEF Older
  <2> HIDE DEF E
  <2> QED BY <2>1 DEF References
<1>4. ~(Buffer \subseteq References)
  <2> HIDE DEF V, E
  <2>1. IsFiniteSet(V \cup E) /\ Cardinality(V \cup E) <= Cardinality(Vector) + 12
    <3>1. /\ Cardinality(V) \in Nat /\ Cardinality(E) \in Nat
          /\ Cardinality(V \cap E) \in Nat /\ Cardinality(Vector) \in Nat
      BY <1>1, <1>2, FS_CardinalityType, FS_Intersection, BufferAssumption
    <3>2. /\ IsFiniteSet(V \cup E)
          /\ Cardinality(V \cup E)
               = Cardinality(V) + Cardinality(E) - Cardinality(V \cap E)
      BY <1>1, <1>2, FS_Union, Zenon
    <3> QED BY <1>1, <1>2, <3>1, <3>2
  <2>2. SUFFICES ASSUME Buffer \subseteq V \cup E PROVE FALSE
    BY <1>3
  <2>3. Cardinality(Buffer) <= Cardinality(V \cup E)
    BY <2>1, <2>2, FS_Subset
  <2>4. /\ Cardinality(V \cup E) \in Nat /\ Cardinality(Vector) \in Nat
        /\ Cardinality(Buffer) \in Nat
    BY <2>1, FS_CardinalityType, BufferAssumption
  <2> QED BY <2>1, <2>3, <2>4, BufferAssumption
<1> QED BY <1>4 DEF Fresh

\* Enough buffers to start with: one for each vector register.
LEMMA InitialBuffers ==
  /\ FirstBuffers \in [Vector -> Buffer]
  /\ \A r, s \in Vector : r # s => FirstBuffers[r] # FirstBuffers[s]
<1> DEFINE n == Cardinality(Vector)
           k == Cardinality(Buffer)
<1>1. n \in Nat /\ k \in Nat /\ n < k
  BY FS_CardinalityType, BufferAssumption
<1>2. PICK g \in Bijection(1..k, Buffer) : TRUE
  BY FS_CardinalityType, BufferAssumption DEF ExistsBijection
<1>3. PICK h \in Bijection(1..n, Vector) : TRUE
  BY FS_CardinalityType, BufferAssumption DEF ExistsBijection
<1> HIDE DEF n, k
<1> DEFINE at(r) == CHOOSE x \in 1..n : h[x] = r
           f == [r \in Vector |-> g[at(r)]]
<1>4. \A r \in Vector : at(r) \in 1..n /\ h[at(r)] = r
  BY <1>3 DEF Bijection, Surjection
<1>5. 1..n \subseteq 1..k
  BY <1>1
<1> HIDE DEF at
<1>6. f \in [Vector -> Buffer]
  BY <1>2, <1>4, <1>5 DEF Bijection, Surjection
<1>7. \A r, s \in Vector : r # s => f[r] # f[s]
  BY <1>2, <1>4, <1>5 DEF Bijection, Injection, IsInjective
<1> HIDE DEF f
<1> QED BY <1>6, <1>7 DEF FirstBuffers

-----------------------------------------------------------------------------
(* Values, instructions, clones. *)

LEMMA ModuloWidth == \A x \in Int : x % Width \in Value
  BY SizeAssumption DEF Value

LEMMA ValueFacts == 0 \in Value /\ Value \subseteq Nat
  BY SizeAssumption DEF Value

LEMMA CombineValue ==
  ASSUME NEW i, NEW x \in Nat, NEW y \in Nat PROVE Combine(i, x, y) \in Value
<1>1. x * y \in Int /\ x + y \in Int /\ x - y \in Int
  OBVIOUS
<1>2. y # 0 => x \div y \in Int
  OBVIOUS
<1>3. Width - 1 \in Value
  BY SizeAssumption DEF Value
<1> DEFINE most == IF x > y THEN x ELSE y
           least == IF x < y THEN x ELSE y
<1>4. most \in Int /\ least \in Int
  OBVIOUS
<1>5. (x + y) % Width \in Value /\ (x - y) % Width \in Value /\ (x * y) % Width \in Value
  BY <1>1, ModuloWidth
<1>6. y # 0 => (x \div y) % Width \in Value
  BY <1>2, ModuloWidth
<1>7. most % Width \in Value /\ least % Width \in Value
  BY <1>4, ModuloWidth
<1> HIDE DEF most, least
<1>8. CASE i.op \in {"SCALAR_DIV", "VEC_DIV", "IMM_DIV"}
  BY <1>3, <1>6, <1>8 DEF Combine
<1>9. CASE i.op \notin {"SCALAR_DIV", "VEC_DIV", "IMM_DIV"}
  BY <1>3, <1>5, <1>7, <1>9 DEF Combine, most, least
<1> QED BY <1>8, <1>9

\* The names: a register is scalar, a vector, or not supplied.
LEMMA Names ==
  /\ NoReg \notin SReg /\ NoReg \notin Vector
  /\ \A r \in SReg : r \notin Vector
  /\ Gdl \in Vector /\ Gdl \notin VReg /\ VReg \subseteq Vector
  BY RegisterAssumption DEF Vector

\* What sits in a stage is a clone of a well-formed instruction.
LEMMA CodeFacts ==
  ASSUME TypeOK, Programmed, Fetched, NEW s \in Stages, Full(s)
  PROVE  /\ ins[s] \in Clone
         /\ ins[s].pc + 1 \in DOMAIN cache
         /\ Code(ins[s]) \in Instruction
         /\ WellFormed(Code(ins[s]))
         /\ IsJump(Code(ins[s])) => Code(ins[s]).addr \in Pc
<1>1. ins[s] \in Clone
  BY DEF TypeOK, Full
<1>2. ins[s].pc \in Nat /\ ins[s].pc < Len(cache)
  BY <1>1, SizeAssumption DEF Clone, Pc, Fetched
<1>3. ins[s].pc + 1 \in 1..Len(cache) /\ DOMAIN cache = 1..Len(cache)
  BY <1>2 DEF TypeOK
<1>4. Code(ins[s]) \in Instruction
  BY <1>3 DEF TypeOK, Code
<1>5. Code(ins[s]).addr \in Nat
  BY <1>4 DEF Instruction
<1> QED BY <1>1, <1>3, <1>4, <1>5, SizeAssumption DEF Programmed, Code, Pc

\* Reading the operands of a clone gives values of the registers' kinds.
LEMMA OperandsRead ==
  ASSUME TypeOK, NEW c \in Clone, WellFormed(Code(c)), Code(c) \in Instruction
  PROVE  LET i == Code(c)
             o == ReadOperands(c)
         IN  /\ o \in Captured
             /\ i.in1 \in SReg => o.in1 \in Value
             /\ i.in1 \in Vector => o.in1 \in Buffer
             /\ i.in2 \in SReg => o.in2 \in Value
             /\ i.in2 \in Vector => o.in2 \in Buffer
<1>1. opVals[c.pc].in1 \in Nat /\ opVals[c.pc].in2 \in Nat
  BY DEF TypeOK, Clone, Captured
<1>2. ASSUME NEW r \in Reg, NEW kept \in Nat
      PROVE  /\ Operand(r, kept) \in Nat
             /\ r \in SReg => Operand(r, kept) \in Value
             /\ r \in Vector => Operand(r, kept) \in Buffer
  BY Names, ValueFacts, BufferAssumption DEF TypeOK, Operand, Reg
<1>3. Code(c).in1 \in Reg /\ Code(c).in2 \in Reg
  BY DEF Instruction
<1> QED BY <1>1, <1>2, <1>3 DEF ReadOperands, Captured

-----------------------------------------------------------------------------
(* The invariants that speak of the stages alone, and the two ways the     *)
(* stages change: something leaves, something moves one stage on.          *)

StageInv ==
  /\ Fetched /\ OperandTypes /\ Boxed
  /\ DecodeClear /\ OneMemOp /\ HazardFree /\ StartedOnce

\* Emptying stages disturbs nothing: what is left is as clear of the rest as
\* it was.
LEMMA Emptied ==
  ASSUME TypeOK, StageInv,
         UNCHANGED <<cache, opVals>>,
         \A s \in Stages : ins'[s] = ins[s] \/ ins'[s] = None
  PROVE  StageInv'
<1>1. \A s \in Stages : Full(s)' => Full(s) /\ ins'[s] = ins[s]
  BY DEF Full
<1>3. Older \subseteq Stages
  BY DEF Older, Stages
<1>4. Fetched' /\ Boxed'
  BY <1>1 DEF StageInv, Fetched, Boxed, Code, Stages
<1>5. OperandTypes'
  BY <1>1, <1>3 DEF StageInv, OperandTypes, OperandsTyped, Code
<1>6. DecodeClear'
  BY <1>1, <1>3 DEF StageInv, DecodeClear, Interlocked, Code, Stages
<1>7. OneMemOp' /\ HazardFree'
  BY <1>1, <1>3 DEF StageInv, OneMemOp, HazardFree, Code
<1>8. StartedOnce'
  <2>1. "fetch" \in Stages /\ "decode" \in Stages /\ "execute" \in Stages
        /\ "mem" \in Stages /\ "writeback" \in Stages
    BY DEF Stages
  <2>2. Full("writeback")' => IsDone(ins["writeback"])'
    <3> SUFFICES ASSUME Full("writeback")' PROVE IsDone(ins["writeback"])'
      OBVIOUS
    <3>1. Full("writeback") /\ ins'["writeback"] = ins["writeback"]
      BY <1>1, <2>1
    <3>2. IsMem(Code(ins["writeback"])) => ins["writeback"].ready
      BY <3>1 DEF StageInv, Boxed
    <3>3. IsDone(ins["writeback"])
      BY <3>1 DEF StageInv, StartedOnce
    <3> QED BY <3>1, <3>2, <3>3 DEF IsDone, BoxReady, Code
  <2> QED BY <1>1, <2>1, <2>2 DEF StageInv, StartedOnce, Code
<1> QED BY <1>4, <1>5, <1>6, <1>7, <1>8 DEF StageInv

-----------------------------------------------------------------------------
(* The actions. *)

LEMMA InitIInv == Init => IInv
<1> SUFFICES ASSUME Init PROVE IInv
  OBVIOUS
<1>1. \A s \in Stages : ~Full(s)
  BY DEF Init, Full
<1>2. Older \subseteq Stages /\ "decode" \in Stages /\ "execute" \in Stages
      /\ "mem" \in Stages /\ "writeback" \in Stages
  BY DEF Older, Stages
<1>3. TypeOK
  <2>1. /\ heap \in [Buffer -> Value] /\ mem \in [Addr -> Value]
        /\ scratch \in [Scratch -> Value]
    BY ModuloWidth, ValueFacts, BufferAssumption DEF Init, Addr
  <2>2. vreg \in [Vector -> Buffer]
    BY InitialBuffers DEF Init
  <2>3. cache \in Seq(Instruction) /\ Len(cache) <= CacheSize
        /\ inflight \in Seq(Nat) /\ log \in Seq(Nat)
    BY SizeAssumption DEF Init
  <2>4. loads \in 0..MaxLoads /\ pc \in Pc /\ phase \in Phases
    BY SizeAssumption, LoadAssumption DEF Init, Pc, Phases
  <2> QED BY <2>1, <2>2, <2>3, <2>4, ValueFacts
          DEF Init, TypeOK, Nothing, Captured
<1>4. Programmed
  BY DEF Init, Programmed
<1>5. OwnTransaction
  BY <1>1, <1>2 DEF Init, OwnTransaction, Waiting
<1>6. Fetched /\ OperandTypes /\ Boxed /\ DecodeClear /\ OneMemOp /\ HazardFree
      /\ StartedOnce
  BY <1>1, <1>2 DEF Fetched, OperandTypes, Boxed, DecodeClear, OneMemOp,
                   HazardFree, StartedOnce, Stages
<1> QED BY <1>3, <1>4, <1>5, <1>6 DEF IInv

\* What retires leaves registers and buffers of their kinds.
LEMMA RetireTyped ==
  ASSUME IInv, Full("writeback")
  PROVE  /\ SRegAfter(ins["writeback"]) \in [SReg -> Value]
         /\ HeapAfter(ins["writeback"]) \in [Buffer -> Value]
         /\ VRegAfter(ins["writeback"]) \in [Vector -> Buffer]
<1> DEFINE c == ins["writeback"]
           i == Code(c)
           o == opVals[c.pc]
<1>1. TypeOK /\ StageInv /\ Programmed /\ Fetched
  BY DEF IInv, StageInv
<1>2. /\ c \in Clone /\ i \in Instruction /\ WellFormed(i) /\ OperandsTyped(c)
      /\ IsMem(i) \/ i.op = "SCRATCH_READ" => c.data \in Buffer
      /\ o.in1 \in Nat /\ o.in2 \in Nat /\ i.imm \in Value
  <2>1. "writeback" \in Stages /\ "writeback" \in Older
    BY DEF Stages, Older
  <2>2. c \in Clone /\ i \in Instruction /\ WellFormed(i)
    BY <1>1, <2>1, CodeFacts
  <2> QED BY <1>1, <2>1, <2>2
          DEF StageInv, OperandTypes, Boxed, TypeOK, Clone, Captured, Instruction
<1>3. SRegAfter(c) \in [SReg -> Value]
  <2>1. CASE i.op = "MOV"
    BY <1>1, <1>2, <2>1, Names DEF SRegAfter, WellFormed, TypeOK, OperandsTyped,
       Operands, Vectorial, Folding, ScalarOps, VecOps, RedOps, Ignored,
       Immediate, ImmOps
  <2>2. CASE Immediate(i)
    <3>1. i.imm \in Nat
      BY <1>2, ValueFacts
    <3>2. Combine(i, o.in1, i.imm) \in Value
      BY <1>2, <3>1, CombineValue
    <3>3. SRegAfter(c) = [sreg EXCEPT ![Dest(i)] = Combine(i, o.in1, i.imm)]
      BY <2>2 DEF SRegAfter, Immediate, ImmOps, Folding, RedOps
    <3> QED BY <1>1, <3>2, <3>3 DEF TypeOK
  <2>3. CASE Folding(i)
    <3>1. i.in1 \in SReg /\ i.in2 \in Vector
      BY <1>2, <2>3 DEF WellFormed, Vectorial, Folding, ScalarOps, VecOps,
         RedOps, Ignored, MemOps, CondJumps, Immediate, ImmOps
    <3> DEFINE v == heap[vreg[i.in2]]
    <3>4. v \in Nat
      BY <1>1, <3>1, ValueFacts DEF TypeOK
    <3> DEFINE acc == IF Dest(i) = i.in1 THEN Neutral(i) ELSE sreg[i.in1]
    <3>2. acc \in Nat
      <4>1. sreg[i.in1] \in Nat
        BY <1>1, <3>1, ValueFacts DEF TypeOK
      <4>2. Neutral(i) \in Nat
        BY SizeAssumption DEF Neutral
      <4> QED BY <4>1, <4>2
    <3>3. Combine(i, acc, v) \in Value
      <4> HIDE DEF v, acc
      <4> QED BY <3>2, <3>4, CombineValue
    <3>5. SRegAfter(c) = [sreg EXCEPT ![Dest(i)] = Combine(i, acc, v)]
      BY <2>3 DEF SRegAfter, Folding, RedOps, Immediate, ImmOps
    <3> HIDE DEF acc, v
    <3> QED BY <1>1, <3>3, <3>5 DEF TypeOK
  <2>4. CASE i.op # "MOV" /\ ~Immediate(i) /\ ~Folding(i)
    BY <1>1, <2>4 DEF SRegAfter, TypeOK
  <2> QED BY <2>1, <2>2, <2>3, <2>4
<1>4. HeapAfter(c) \in [Buffer -> Value]
  <2>1. CASE ~Vectorial(i)
    BY <1>1, <2>1 DEF HeapAfter, TypeOK
  <2>2. CASE Vectorial(i)
    <3>1. o.in1 \in Buffer
          /\ (i.op \in ScalarOps => o.in2 \in Value)
          /\ (i.op \notin ScalarOps => o.in2 \in Buffer)
      BY <1>2, <2>2, Names DEF WellFormed, OperandsTyped, Vectorial,
         Folding, ScalarOps, VecOps, RedOps, Ignored, Operands,
         MemOps, CondJumps, Immediate, ImmOps
    <3>2. heap[o.in1] \in Nat
          /\ (IF i.op \in ScalarOps THEN o.in2 ELSE heap[o.in2]) \in Nat
      BY <1>1, <3>1, ValueFacts DEF TypeOK
    <3> QED BY <1>1, <2>2, <3>2, CombineValue DEF HeapAfter, TypeOK
  <2> QED BY <2>1, <2>2
<1>5. VRegAfter(c) \in [Vector -> Buffer]
  <2>5. CASE i.op = "SCRATCH_READ"
    <3>1. ~IsMem(i) /\ i.op # "MOV" /\ ~Vectorial(i)
      BY <2>5 DEF IsMem, MemOps, Vectorial, Folding, ScalarOps, VecOps, RedOps
    <3>2. VRegAfter(c) = [vreg EXCEPT ![i.dst] = c.data]
      BY <2>5, <3>1 DEF VRegAfter
    <3> QED BY <1>1, <1>2, <2>5, <3>2 DEF TypeOK
  <2>1. CASE IsMem(i)
    <3>1. i.op # "MOV" /\ ~Vectorial(i) /\ i.op # "SCRATCH_READ"
      BY <2>1 DEF IsMem, MemOps, Vectorial, Folding, ScalarOps, VecOps,
         RedOps, Ignored
    <3>2. VRegAfter(c) = [r \in Vector |-> IF r \in Latched(i) THEN c.data
                                                             ELSE vreg[r]]
      BY <2>1, <3>1 DEF VRegAfter
    <3> QED BY <1>1, <1>2, <2>1, <3>2 DEF TypeOK
  <2>2. CASE i.op = "MOV" /\ i.in1 \in Vector
    <3>1. o.in1 \in Buffer
      BY <1>2, <2>2 DEF OperandsTyped
    <3>2. ~IsMem(i) /\ ~Vectorial(i) /\ i.op # "SCRATCH_READ"
      BY <2>2 DEF IsMem, MemOps, Vectorial, Folding, ScalarOps, VecOps,
         RedOps, Ignored
    <3>3. VRegAfter(c) = [vreg EXCEPT ![i.dst] = o.in1]
      BY <2>2, <3>2 DEF VRegAfter
    <3> QED BY <1>1, <3>1, <3>3 DEF TypeOK
  <2>3. CASE Vectorial(i)
    <3>1. o.in1 \in Buffer
      BY <1>2, <2>3, Names DEF WellFormed, OperandsTyped, Vectorial,
         Folding, ScalarOps, VecOps, RedOps, Ignored, Operands,
         MemOps, CondJumps, Immediate, ImmOps
    <3> QED BY <1>1, <2>3, <3>1
            DEF VRegAfter, TypeOK, IsMem, MemOps, Vectorial, Folding,
                ScalarOps, VecOps, RedOps, Ignored
  <2>4. CASE /\ ~IsMem(i) /\ ~(i.op = "MOV" /\ i.in1 \in Vector) /\ ~Vectorial(i)
             /\ i.op # "SCRATCH_READ"
    BY <1>1, <2>4 DEF VRegAfter, TypeOK
  <2> QED BY <2>1, <2>2, <2>3, <2>4, <2>5
<1> QED BY <1>3, <1>4, <1>5

LEMMA DrainStep ==
  ASSUME IInv, Drain
  PROVE  IInv'
<1> DEFINE c == ins["writeback"]
<1>1. TypeOK /\ StageInv /\ Programmed /\ Fetched
  BY DEF IInv, StageInv
<1>2. CASE ~(Full("writeback") /\ IsDone(c))
  <2>1. StageInv'
    BY <1>1, <1>2, Emptied DEF Drain
  <2> QED BY <1>1, <1>2, <2>1
      DEF Drain, At, Goto, IInv, StageInv, regs, bank, TypeOK, Phases, Programmed,
          OwnTransaction, Waiting, Full, Code
<1>3. CASE Full("writeback") /\ IsDone(c)
  <2>1. /\ SRegAfter(c) \in [SReg -> Value] /\ HeapAfter(c) \in [Buffer -> Value]
        /\ VRegAfter(c) \in [Vector -> Buffer]
    BY <1>3, RetireTyped
  <2>2. /\ ins' = [ins EXCEPT !["writeback"] = None]
        /\ sreg' = SRegAfter(c) /\ vreg' = VRegAfter(c) /\ heap' = HeapAfter(c)
        /\ phase' = "writeback"
        /\ UNCHANGED <<cache, loads, pc, opVals, scratch, mem, inflight, log>>
    BY <1>3 DEF Drain, Goto, bank
  <2>3. ins \in [Stages -> Clone \cup {None}]
    BY <1>1 DEF TypeOK
  <2>4. StageInv'
    BY <1>1, <2>2, <2>3, Emptied
  <2>5. TypeOK'
    BY <1>1, <2>1, <2>2, <2>3 DEF TypeOK, Phases
  <2>6. Programmed' /\ OwnTransaction'
    <3>1. ins'["mem"] = ins["mem"]
      BY <2>2, <2>3 DEF Stages
    <3> QED BY <2>2, <3>1 DEF IInv, Programmed, OwnTransaction, Waiting, Full, Code
  <2> QED BY <2>4, <2>5, <2>6 DEF IInv, StageInv
<1> QED BY <1>2, <1>3

LEMMA PropagateWritebackStep ==
  ASSUME IInv, PropagateWriteback
  PROVE  IInv'
<1> DEFINE c == ins["mem"]
           moved == ~Full("writeback") /\ Full("mem") /\ IsDone(c)
           d == [c EXCEPT !.state = "DONE", !.ready = IsMem(Code(c))]
<1>1. TypeOK /\ StageInv /\ Programmed /\ Fetched /\ OwnTransaction
  BY DEF IInv, StageInv
<1>2. UNCHANGED <<cache, loads, pc, opVals, sreg, vreg, heap, scratch, inflight>>
      /\ phase' = "mem"
  BY DEF PropagateWriteback, Goto, regs
<1>3. CASE ~moved
  <2>1. UNCHANGED <<ins, log, mem>>
    BY <1>3 DEF PropagateWriteback
  <2>2. StageInv'
    BY <1>1, <1>2, <2>1, Emptied
  <2> QED BY <1>1, <1>2, <2>1, <2>2
      DEF IInv, StageInv, TypeOK, Phases, Programmed, OwnTransaction, Waiting,
          Full, Code
<1>4. CASE moved
  <2>1. /\ c \in Clone /\ Code(c) \in Instruction
        /\ IsMem(Code(c)) => c.data \in Buffer
        /\ Code(c).op = "WRITE" => c.src \in Buffer
        /\ Code(c).op = "SCRATCH_READ" => c.data \in Buffer
        /\ ~c.ready /\ c.state # "COLD"
    <3>1. "mem" \in Stages /\ "mem" \in Older
      BY DEF Stages, Older
    <3> QED BY <1>1, <1>4, <3>1, CodeFacts
            DEF StageInv, Boxed, StartedOnce, IsMem, MemOps
  <2>2. ins \in [Stages -> Clone \cup {None}]
    BY <1>1 DEF TypeOK
  <2>3. ins' = [ins EXCEPT !["mem"] = None, !["writeback"] = d]
    BY <1>4 DEF PropagateWriteback, Moves
  <2>4. /\ ins'["mem"] = None /\ ins'["writeback"] = d
        /\ ins'["fetch"] = ins["fetch"] /\ ins'["decode"] = ins["decode"]
        /\ ins'["execute"] = ins["execute"]
    BY <2>2, <2>3 DEF Stages
  <2>5. /\ d \in Clone /\ d.pc = c.pc /\ d.data = c.data /\ d.src = c.src
        /\ d.state = "DONE" /\ d.ready = IsMem(Code(c)) /\ d.left = c.left
    <3>1. PICK q \in BOOLEAN : q = IsMem(Code(c))
      <4>1. IsMem(Code(c)) \in BOOLEAN
        BY DEF IsMem
      <4> QED BY <4>1, Zenon
    <3>2. d = [c EXCEPT !.state = "DONE", !.ready = q]
      BY <3>1
    <3>3. /\ d \in Clone /\ d.pc = c.pc /\ d.data = c.data /\ d.src = c.src
          /\ d.state = "DONE" /\ d.left = c.left
      BY <2>1, <3>2 DEF Clone
    <3>4. d.ready = q
      BY <2>1, <3>2 DEF Clone
    <3> QED BY <3>1, <3>3, <3>4, Zenon
  <2>6. IsMem(Code(c)) =>
          /\ log' = SubSeq(log, 1, Len(log) - 1)
          /\ mem' = IF Code(c).op = "WRITE" THEN [mem EXCEPT ![c.addr] = heap[c.src]]
                                            ELSE mem
    BY <1>4, <2>1 DEF PropagateWriteback
  <2>7. ~IsMem(Code(c)) => UNCHANGED <<log, mem>>
    BY <1>4, <2>1 DEF PropagateWriteback
  <2>8. OwnTransaction'
    <3>1. CASE IsMem(Code(c))
      <4>1. log = <<c.addr>> /\ inflight = <<>>
        BY <1>1, <1>4, <2>1, <3>1 DEF OwnTransaction, Waiting, IsDone, BoxReady
      <4>2. log' = <<>>
        BY <2>6, <3>1, <4>1
      <4> QED BY <1>2, <2>4, <4>1, <4>2 DEF OwnTransaction, Waiting, Full
    <3>2. CASE ~IsMem(Code(c))
      BY <1>1, <1>2, <2>4, <2>7, <3>2 DEF OwnTransaction, Waiting, Full
    <3> QED BY <3>1, <3>2
  <2>9. TypeOK'
    <3>1. mem' \in [Addr -> Value]
      BY <1>1, <2>1, <2>6, <2>7 DEF TypeOK
    <3>2. ins' \in [Stages -> Clone \cup {None}]
      BY <2>2, <2>3, <2>5 DEF Stages
    <3>3. log' \in Seq(Nat)
      <4>1. log \in Seq(Nat)
        BY <1>1 DEF TypeOK
      <4>2. IsMem(Code(c)) => log = <<c.addr>>
        BY <1>1, <1>4, <2>1 DEF OwnTransaction, Waiting, IsDone, BoxReady
      <4> QED BY <2>6, <2>7, <4>1, <4>2
    <3> QED BY <1>1, <1>2, <3>1, <3>2, <3>3 DEF TypeOK, Phases
  <2>10. Fetched' /\ OperandTypes' /\ Boxed'
    <3>1. Fetched'
      BY <1>1, <1>2, <1>4, <2>4, <2>5 DEF Fetched, Full, Stages
    <3>2. OperandTypes'
      BY <1>1, <1>2, <1>4, <2>4, <2>5, ZenonT(40)
         DEF StageInv, OperandTypes, OperandsTyped, Full, Older, Code
    <3>3. Boxed'
      BY <1>1, <1>2, <1>4, ZenonT(40), <2>1, <2>4, <2>5 DEF StageInv, Boxed, Full, Stages, Code
    <3> QED BY <3>1, <3>2, <3>3
  <2>11. DecodeClear' /\ OneMemOp' /\ HazardFree'
    <3>1. DecodeClear'
      BY <1>1, <1>2, <1>4, <2>4, <2>5
         DEF StageInv, DecodeClear, Interlocked, Full, Older, Code
    <3>4. Full("execute") =>
            /\ ~(UsesGdl(Code(ins["execute"])) /\ UsesGdl(Code(c)))
            /\ Code(c).dst # NoReg => Code(c).dst \notin
                 {Code(ins["execute"]).in1, Code(ins["execute"]).in2}
      BY <1>1, <1>4 DEF StageInv, OneMemOp, HazardFree, Older, Rank
    <3>5. Code(ins["execute"])' = Code(ins["execute"])
          /\ Code(ins["writeback"])' = Code(c)
      BY <1>2, <2>4, <2>5 DEF Code
    <3>6. ~Full("mem")' /\ (Full("execute")' <=> Full("execute"))
      BY <2>4 DEF Full
    <3>2. OneMemOp'
      BY <3>4, <3>5, <3>6 DEF OneMemOp, Older
    <3>3. HazardFree'
      BY <3>4, <3>5, <3>6 DEF HazardFree, Older, Rank
    <3> QED BY <3>1, <3>2, <3>3
  <2>12. StartedOnce'
    BY <1>1, <1>2, <1>4, <2>1, <2>4, <2>5
       DEF StageInv, StartedOnce, Full, Code, IsDone, BoxReady
  <2> QED BY <1>1, <1>2, <2>8, <2>9, <2>10, <2>11, <2>12 DEF IInv, Programmed
<1> QED BY <1>3, <1>4

\* What a memory operation issues: the heap stays typed, and the clone gets a
\* fresh Box.
LEMMA IssueFacts ==
  ASSUME TypeOK, NEW c \in Clone, Code(c) \in Instruction, WellFormed(Code(c)),
         IsMem(Code(c)), c.addr \in Addr, Issue(c)
  PROVE  /\ heap' \in [Buffer -> Value]
         /\ inflight' = Append(inflight, c.addr)
         /\ Started(c) \in Clone
         /\ Started(c).pc = c.pc /\ Started(c).addr = c.addr
         /\ Started(c).state = "WARM" /\ Started(c).ready = c.ready
         /\ Started(c).data \in Buffer
         /\ Code(c).op = "WRITE" => Started(c).src \in Buffer
<1> DEFINE src == IF Code(c).op = "WRITE" THEN Source(c) ELSE NoBuf
<1>1. Code(c).op = "WRITE" => Source(c) \in Buffer
  <2> SUFFICES ASSUME Code(c).op = "WRITE" PROVE Source(c) \in Buffer
    OBVIOUS
  <2>1. Code(c).in1 \in Vector \cup {NoReg}
    BY DEF WellFormed, Vectorial, Folding, ScalarOps, VecOps, RedOps,
       Ignored, CondJumps, Immediate, ImmOps
  <2> QED BY <2>1, Names DEF TypeOK, Source
<1>2. src \in Buffer \cup {NoBuf} /\ (Code(c).op = "WRITE" => src \in Buffer)
  BY <1>1
<1>3. Started(c) = [c EXCEPT !.state = "WARM", !.data = Fresh, !.src = src]
  BY DEF Started
<1>4. Fresh \in Buffer
  BY FreshBuffer
<1> HIDE DEF src
<1>5. /\ Started(c) \in Clone
      /\ Started(c).pc = c.pc /\ Started(c).addr = c.addr
      /\ Started(c).state = "WARM" /\ Started(c).ready = c.ready
      /\ Started(c).data = Fresh /\ Started(c).src = src
  BY <1>2, <1>3, <1>4 DEF Clone
<1>6. heap' \in [Buffer -> Value]
  <2>1. Code(c).op # "READ" => Code(c).op = "WRITE"
    BY DEF IsMem, MemOps
  <2>2. (IF Code(c).op = "READ" THEN mem[c.addr] ELSE heap[Started(c).src]) \in Value
    BY <1>2, <1>5, <2>1 DEF TypeOK
  <2> QED BY <1>4, <2>2 DEF Issue, TypeOK
<1> QED BY <1>2, <1>4, <1>5, <1>6 DEF Issue

\* What the access of a scratchpad operation does.
LEMMA AccessFacts ==
  ASSUME TypeOK, NEW c \in Clone, IsScratch(Code(c)), c.addr \in Scratch, Access(c),
         Code(c).op = "SCRATCH_WRITE" => c.src \in Buffer
  PROVE  /\ heap' \in [Buffer -> Value] /\ scratch' \in [Scratch -> Value]
         /\ Accessed(c) \in Clone /\ Accessed(c).pc = c.pc
         /\ Accessed(c).ready = c.ready /\ Accessed(c).state = "DONE"
         /\ Code(c).op = "SCRATCH_READ" => Accessed(c).data \in Buffer
<1>1. Fresh \in Buffer
  BY FreshBuffer
<1>2. scratch[c.addr] \in Value
  BY DEF TypeOK
<1> DEFINE data == IF Code(c).op = "SCRATCH_READ" THEN Fresh ELSE c.data
<1>3. /\ data \in Buffer \cup {NoBuf}
      /\ Code(c).op = "SCRATCH_READ" => data \in Buffer
  BY <1>1 DEF Clone
<1>4. Accessed(c) = [c EXCEPT !.state = "DONE", !.data = data, !.was = scratch[c.addr]]
  BY DEF Accessed
<1> HIDE DEF data
<1>5. /\ Accessed(c) \in Clone /\ Accessed(c).pc = c.pc
      /\ Accessed(c).ready = c.ready /\ Accessed(c).state = "DONE"
      /\ Accessed(c).data = data
  BY <1>2, <1>3, <1>4 DEF Clone
<1>6. heap' \in [Buffer -> Value] /\ scratch' \in [Scratch -> Value]
  <2>1. CASE Code(c).op = "SCRATCH_READ"
    BY <1>1, <1>2, <2>1 DEF Access, TypeOK
  <2>2. CASE Code(c).op # "SCRATCH_READ"
    <3>1. heap[c.src] \in Value
      BY <2>2 DEF TypeOK, IsScratch, ScratchOps
    <3> QED BY <2>2, <3>1 DEF Access, TypeOK
  <2> QED BY <2>1, <2>2
<1> QED BY <1>3, <1>5, <1>6

\* From execute to mem, as itself, started, or DONE.
LEMMA IntoMem ==
  ASSUME IInv, UNCHANGED <<cache, opVals>>,
         ~Full("mem"), Full("execute"),
         NEW d \in Clone, d.pc = ins["execute"].pc, ~d.ready, d.state # "COLD",
         IsMem(Code(ins["execute"])) => d.data \in Buffer,
         Code(ins["execute"]).op = "WRITE" => d.src \in Buffer,
         Code(ins["execute"]).op = "SCRATCH_READ" => d.data \in Buffer,
         Moves("execute", "mem", d)
  PROVE  StageInv' /\ ins' \in [Stages -> Clone \cup {None}]
<1> DEFINE c == ins["execute"]
<1>1. TypeOK /\ StageInv /\ Programmed /\ Fetched
  BY DEF IInv, StageInv
<1>2. ins \in [Stages -> Clone \cup {None}]
  BY <1>1 DEF TypeOK
<1>3. ins' = [ins EXCEPT !["execute"] = None, !["mem"] = d]
  BY DEF Moves
<1>4. /\ ins'["execute"] = None /\ ins'["mem"] = d
      /\ ins'["fetch"] = ins["fetch"] /\ ins'["decode"] = ins["decode"]
      /\ ins'["writeback"] = ins["writeback"]
  BY <1>2, <1>3 DEF Stages
<1>5. ins' \in [Stages -> Clone \cup {None}]
  BY <1>2, <1>3 DEF Stages
<1>6. Fetched'
  BY <1>1, <1>4 DEF Fetched, Full, Stages
<1>7. OperandTypes'
  BY <1>1, <1>4 DEF StageInv, OperandTypes, OperandsTyped, Full, Older, Code
<1>8. Boxed'
  BY <1>1, <1>4 DEF StageInv, Boxed, Full, Stages, Code
<1>9. DecodeClear'
  BY <1>1, <1>4 DEF StageInv, DecodeClear, Interlocked, Full, Older, Code
<1>10. Full("writeback") =>
         /\ ~(UsesGdl(Code(c)) /\ UsesGdl(Code(ins["writeback"])))
         /\ Code(ins["writeback"]).dst # NoReg =>
              Code(ins["writeback"]).dst \notin {Code(c).in1, Code(c).in2}
  BY <1>1 DEF StageInv, OneMemOp, HazardFree, Older, Rank
<1>11. Code(ins["writeback"])' = Code(ins["writeback"]) /\ Code(ins["mem"])' = Code(c)
  BY <1>4 DEF Code
<1>12. ~Full("execute")' /\ (Full("writeback")' <=> Full("writeback"))
  BY <1>4 DEF Full
<1>13. OneMemOp'
  BY <1>10, <1>11, <1>12 DEF OneMemOp, Older
<1>14. HazardFree'
  BY <1>10, <1>11, <1>12 DEF HazardFree, Older, Rank
<1>15. StartedOnce'
  <2>1. Full("writeback") => (IsMem(Code(ins["writeback"])) => ins["writeback"].ready)
    BY <1>1 DEF StageInv, Boxed
  <2> QED BY <1>1, <1>4, <1>11, <2>1
          DEF StageInv, StartedOnce, Full, Code, IsDone, BoxReady
<1> QED BY <1>5, <1>6, <1>7, <1>8, <1>9, <1>13, <1>14, <1>15 DEF StageInv

LEMMA PropagateMemStep ==
  ASSUME IInv, PropagateMem
  PROVE  IInv'
<1> DEFINE c == ins["execute"]
           stays == Full("mem") \/ ~Full("execute") \/ ~(IsDone(c) \/ IsMem(Code(c)))
<1>1. TypeOK /\ StageInv /\ Programmed /\ Fetched /\ OwnTransaction
  BY DEF IInv, StageInv
<1>2. UNCHANGED <<cache, loads, opVals, sreg, vreg, mem, log>> /\ phase' = "execute"
  BY DEF PropagateMem, Goto
<1>3. CASE stays
  <2>1. UNCHANGED <<ins, pc, heap, scratch, inflight>>
    BY <1>3 DEF PropagateMem
  <2>2. StageInv'
    BY <1>1, <1>2, <2>1, Emptied
  <2> QED BY <1>1, <1>2, <2>1, <2>2
      DEF IInv, StageInv, TypeOK, Phases, Programmed, OwnTransaction, Waiting,
          Full, Code
<1>4. ASSUME ~stays
      PROVE  /\ ~Full("mem") /\ Full("execute") /\ (IsDone(c) \/ IsMem(Code(c)))
             /\ c \in Clone /\ Code(c) \in Instruction /\ WellFormed(Code(c))
             /\ (IsJump(Code(c)) => Code(c).addr \in Pc) /\ ~c.ready
             /\ (c.state = "COLD" <=> IsMem(Code(c)))
             /\ (Code(c).op = "SCRATCH_WRITE" => c.src \in Buffer)
  <2>1. "execute" \in Stages /\ "execute" # "writeback"
    BY DEF Stages
  <2> QED BY <1>1, <1>4, <2>1, CodeFacts DEF StageInv, Boxed, StartedOnce
<1>5. ~stays => inflight = <<>> /\ log = <<>>
  BY <1>1 DEF Waiting, OwnTransaction
<1>6. CASE ~stays /\ IsMem(Code(c))
  <2>1. c.addr \in Addr /\ Moves("execute", "mem", Started(c)) /\ Issue(c)
        /\ pc' = pc /\ scratch' = scratch
    BY <1>4, <1>6 DEF PropagateMem
  <2>2. /\ heap' \in [Buffer -> Value]
        /\ inflight' = Append(inflight, c.addr)
        /\ Started(c) \in Clone
        /\ Started(c).pc = c.pc /\ Started(c).addr = c.addr
        /\ Started(c).state = "WARM" /\ Started(c).ready = c.ready
        /\ Started(c).data \in Buffer
        /\ Code(c).op = "WRITE" => Started(c).src \in Buffer
    BY <1>1, <1>4, <1>6, <2>1, IssueFacts
  <2>3. StageInv' /\ ins' \in [Stages -> Clone \cup {None}]
    BY <1>2, <1>4, <1>6, <2>1, <2>2, IntoMem
  <2>4. inflight' = <<c.addr>> /\ log' = <<>> /\ c.addr \in Nat
    <3>1. c.addr \in Nat
      BY <1>4, <1>6 DEF Clone
    <3> QED BY <1>2, <1>5, <1>6, <2>2, <3>1
  <2>5. ins'["mem"] = Started(c)
    BY <1>1, <2>1 DEF Moves, TypeOK, Stages
  <2>6. OwnTransaction'
    <3>1. Code(ins["mem"])' = Code(c)
      BY <1>2, <2>2, <2>5 DEF Code
    <3>2. Waiting'
      <4>1. ins'["mem"] # None
        BY <2>2, <2>5, SizeAssumption DEF Clone, Pc, None
      <4> QED BY <1>4, <1>6, <2>2, <2>5, <3>1, <4>1 DEF Waiting, Full
    <3> QED BY <2>2, <2>4, <2>5, <3>2 DEF OwnTransaction
  <2>7. TypeOK'
    <3>1. inflight' \in Seq(Nat)
      BY <2>4
    <3> QED BY <1>1, <1>2, <2>1, <2>2, <2>3, <3>1 DEF TypeOK, Phases
  <2> QED BY <1>1, <1>2, <2>3, <2>6, <2>7 DEF IInv, StageInv, Programmed
<1>9. CASE ~stays /\ IsScratch(Code(c))
  <2>1. ~IsMem(Code(c))
    BY <1>9 DEF IsScratch, ScratchOps, IsMem, MemOps
  <2>2. /\ c.addr \in Scratch /\ Moves("execute", "mem", Accessed(c)) /\ Access(c)
        /\ UNCHANGED <<pc, inflight>>
    BY <1>4, <1>9, <2>1 DEF PropagateMem
  <2>3. /\ heap' \in [Buffer -> Value] /\ scratch' \in [Scratch -> Value]
        /\ Accessed(c) \in Clone /\ Accessed(c).pc = c.pc
        /\ Accessed(c).ready = c.ready /\ Accessed(c).state = "DONE"
        /\ Code(c).op = "SCRATCH_READ" => Accessed(c).data \in Buffer
    BY <1>1, <1>4, <1>9, <2>2, AccessFacts
  <2>4. StageInv' /\ ins' \in [Stages -> Clone \cup {None}]
    <3>1. Code(c).op # "WRITE"
      BY <2>1 DEF IsMem, MemOps
    <3> QED BY <1>2, <1>4, <1>9, <2>1, <2>2, <2>3, <3>1, IntoMem
  <2>5. ins'["mem"] = Accessed(c)
    BY <1>1, <2>2 DEF Moves, TypeOK, Stages
  <2>6. ~Waiting'
    BY <1>2, <2>1, <2>3, <2>5 DEF Waiting, Code
  <2>7. OwnTransaction'
    BY <1>2, <1>5, <1>9, <2>2, <2>6 DEF OwnTransaction
  <2>8. TypeOK'
    BY <1>1, <1>2, <2>2, <2>3, <2>4 DEF TypeOK, Phases
  <2> QED BY <1>1, <1>2, <2>4, <2>7, <2>8 DEF IInv, StageInv, Programmed
<1>7. CASE ~stays /\ ~IsMem(Code(c)) /\ ~IsScratch(Code(c)) /\ Jumps(c)
  <2>1. /\ pc' = Code(c).addr /\ UNCHANGED <<heap, scratch, inflight>>
        /\ ins' = [s \in Stages |-> IF s \in Flushed THEN None ELSE ins[s]]
    BY <1>4, <1>7 DEF PropagateMem
  <2>2. StageInv'
    BY <1>1, <1>2, <2>1, Emptied
  <2>3. pc' \in Pc
    BY <1>4, <1>7, <2>1 DEF Jumps, IsJump
  <2>4. ins' \in [Stages -> Clone \cup {None}]
    BY <1>1, <2>1 DEF TypeOK
  <2>5. ins'["mem"] = ins["mem"]
    BY <2>1 DEF Stages, Flushed
  <2>6. TypeOK'
    BY <1>1, <1>2, <2>1, <2>3, <2>4 DEF TypeOK, Phases
  <2>7. OwnTransaction'
    BY <1>1, <1>2, <2>1, <2>5 DEF OwnTransaction, Waiting, Full, Code
  <2> QED BY <1>1, <1>2, <2>2, <2>6, <2>7 DEF IInv, StageInv, Programmed
<1>8. CASE ~stays /\ ~IsMem(Code(c)) /\ ~IsScratch(Code(c)) /\ ~Jumps(c)
  <2> DEFINE d == [c EXCEPT !.state = "DONE"]
  <2>1. Moves("execute", "mem", d) /\ UNCHANGED <<pc, heap, scratch, inflight>>
    BY <1>4, <1>8 DEF PropagateMem
  <2>2. d \in Clone /\ d.pc = c.pc /\ d.ready = c.ready /\ d.state = "DONE"
    BY <1>4, <1>8 DEF Clone
  <2>3. StageInv' /\ ins' \in [Stages -> Clone \cup {None}]
    <3>1. Code(c).op # "WRITE" /\ Code(c).op # "SCRATCH_READ"
      BY <1>8 DEF IsMem, MemOps, IsScratch, ScratchOps
    <3> HIDE DEF d
    <3> QED BY <1>2, <1>4, <1>8, <2>1, <2>2, <3>1, IntoMem
  <2>4. ins'["mem"] = d
    BY <1>1, <2>1 DEF Moves, TypeOK, Stages
  <2>5. ~Waiting'
    BY <1>2, <1>8, <2>2, <2>4 DEF Waiting, Code
  <2>6. OwnTransaction'
    BY <1>2, <1>5, <1>8, <2>1, <2>5 DEF OwnTransaction
  <2>7. TypeOK'
    BY <1>1, <1>2, <2>1, <2>3 DEF TypeOK, Phases
  <2> QED BY <1>1, <1>2, <2>3, <2>6, <2>7 DEF IInv, StageInv, Programmed
<1> QED BY <1>3, <1>6, <1>7, <1>8, <1>9

LEMMA PropagateExecuteStep ==
  ASSUME IInv, PropagateExecute
  PROVE  IInv'
<1> DEFINE c == ins["decode"]
           i == Code(c)
           moved == ~Full("execute") /\ Full("decode") /\ (c.state = "COLD" \/ IsMem(i))
           d == Entered(c)
<1>1. TypeOK /\ StageInv /\ Programmed /\ Fetched /\ OwnTransaction
  BY DEF IInv, StageInv
<1>2. UNCHANGED <<cache, loads, pc, sreg, vreg, heap, scratch, mem, inflight, log>>
      /\ phase' = "decode"
  BY DEF PropagateExecute, Goto, regs, bank
<1>3. CASE ~moved
  <2>1. UNCHANGED <<ins, opVals>>
    BY <1>3 DEF PropagateExecute
  <2>2. StageInv'
    BY <1>1, <1>2, <2>1, Emptied
  <2> QED BY <1>1, <1>2, <2>1, <2>2
      DEF IInv, StageInv, TypeOK, Phases, Programmed, OwnTransaction, Waiting,
          Full, Code
<1>4. CASE moved
  <2>1. /\ c \in Clone /\ i \in Instruction /\ WellFormed(i)
        /\ ~c.ready /\ c.state = "COLD" /\ c.pc < Len(cache)
    <3>1. "decode" \in Stages
      BY DEF Stages
    <3> QED BY <1>1, <1>4, <3>1, CodeFacts
            DEF StageInv, Boxed, StartedOnce, Fetched
  <2>2. ins \in [Stages -> Clone \cup {None}] /\ opVals \in [Pc -> Captured]
    BY <1>1 DEF TypeOK
  <2>3. /\ ins' = [ins EXCEPT !["decode"] = None, !["execute"] = d]
        /\ opVals' = [opVals EXCEPT ![c.pc] = ReadOperands(c)]
    BY <1>4 DEF PropagateExecute, Moves
  <2>4. /\ ReadOperands(c) \in Captured
        /\ i.in1 \in SReg => ReadOperands(c).in1 \in Value
        /\ i.in1 \in Vector => ReadOperands(c).in1 \in Buffer
        /\ i.in2 \in SReg => ReadOperands(c).in2 \in Value
        /\ i.in2 \in Vector => ReadOperands(c).in2 \in Buffer
    BY <1>1, <2>1, OperandsRead
  <2>5. Indexed(c) \in Nat
    <3>1. c.addr \in Nat
      BY <2>1 DEF Clone
    <3>2. IsMem(i) /\ OffsetReg(i) # NoReg => OffsetReg(i) \in SReg
      BY <2>1 DEF WellFormed, OffsetReg, IsMem, MemOps, Vectorial, Folding,
         ScalarOps, VecOps, RedOps, Ignored, CondJumps, Immediate, ImmOps
    <3>3. IsMem(i) /\ OffsetReg(i) # NoReg => sreg[OffsetReg(i)] \in Nat
      BY <1>1, <3>2, ValueFacts DEF TypeOK
    <3> QED BY <3>1, <3>3 DEF Indexed
  <2>6. /\ d \in Clone /\ d.pc = c.pc /\ ~d.ready
        /\ d.state = IF IsMem(i) THEN "COLD" ELSE "WARM"
        /\ i.op = "SCRATCH_WRITE" => d.src \in Buffer
    <3> DEFINE src == IF i.op = "SCRATCH_WRITE" THEN vreg[i.in1] ELSE c.src
               left == IF IsScratch(i) THEN PastDeadline ELSE c.left
               state == IF IsMem(i) THEN c.state ELSE "WARM"
    <3>1. i.op = "SCRATCH_WRITE" => i.in1 \in Vector
      BY <2>1 DEF WellFormed, Vectorial, Folding, ScalarOps, VecOps, RedOps,
         Ignored, CondJumps, Immediate, ImmOps
    <3>2. src \in Buffer \cup {NoBuf} /\ (i.op = "SCRATCH_WRITE" => src \in Buffer)
      BY <1>1, <2>1, <3>1 DEF TypeOK, Clone
    <3>3. left \in 0..2 /\ state \in {"COLD", "WARM", "DONE"}
      BY <2>1 DEF Clone, PastDeadline
    <3>4. d = [c EXCEPT !.own = ReadOperands(c), !.addr = Indexed(c), !.left = left,
                        !.src = src, !.state = state]
      BY DEF Entered
    <3>5. state = IF IsMem(i) THEN "COLD" ELSE "WARM"
      BY <2>1
    <3> HIDE DEF src, left, state, d
    <3> QED BY <2>1, <2>4, <2>5, <3>2, <3>3, <3>4, <3>5 DEF Clone
  <2> HIDE DEF d
  <2>7. /\ ins'["decode"] = None /\ ins'["execute"] = d
        /\ ins'["fetch"] = ins["fetch"] /\ ins'["mem"] = ins["mem"]
        /\ ins'["writeback"] = ins["writeback"]
    BY <2>2, <2>3 DEF Stages
  <2>8. /\ Code(ins["execute"])' = i
        /\ Code(ins["mem"])' = Code(ins["mem"])
        /\ Code(ins["writeback"])' = Code(ins["writeback"])
    BY <1>2, <2>6, <2>7 DEF Code
  <2>9. /\ ~Full("decode")' /\ (Full("mem")' <=> Full("mem"))
        /\ (Full("writeback")' <=> Full("writeback"))
    BY <2>7 DEF Full
  <2>10. TypeOK'
    <3>1. ins' \in [Stages -> Clone \cup {None}]
      BY <2>2, <2>3, <2>6 DEF Stages
    <3>2. opVals' \in [Pc -> Captured]
      BY <2>2, <2>3, <2>4
    <3> QED BY <1>1, <1>2, <3>1, <3>2 DEF TypeOK, Phases
  <2>11. Fetched'
    BY <1>1, <1>2, <1>4, <2>1, <2>6, <2>7 DEF Fetched, Full, Stages
  <2>12. OperandTypes'
    <3>1. ASSUME NEW e \in Clone, e.pc = c.pc PROVE OperandsTyped(e)'
      <4>1. opVals'[e.pc] = ReadOperands(c) /\ Code(e)' = i
        BY <1>2, <2>2, <2>3, <3>1 DEF Code, Clone
      <4> QED BY <2>4, <4>1 DEF OperandsTyped, Code
    <3>2. ASSUME NEW e \in Clone, e.pc # c.pc, OperandsTyped(e) PROVE OperandsTyped(e)'
      <4>1. opVals'[e.pc] = opVals[e.pc] /\ Code(e)' = Code(e)
        BY <1>2, <2>2, <2>3, <3>2 DEF Code, Clone
      <4> QED BY <3>2, <4>1 DEF OperandsTyped, Code
    <3>3. ASSUME NEW s \in {"mem", "writeback"}, Full(s)
          PROVE  ins[s] \in Clone /\ OperandsTyped(ins[s])
      BY <1>1, <2>2, <3>3 DEF StageInv, OperandTypes, Older, Stages, Full
    <3>4. \A s \in {"mem", "writeback"} : Full(s) => OperandsTyped(ins[s])'
      <4> SUFFICES ASSUME NEW s \in {"mem", "writeback"}, Full(s)
                   PROVE  OperandsTyped(ins[s])'
        OBVIOUS
      <4>1. ins'[s] = ins[s]
        BY <2>7
      <4>2. ins[s] \in Clone /\ OperandsTyped(ins[s])
        BY <3>3
      <4> DEFINE e == ins[s]
      <4>3. CASE e.pc = c.pc
        BY <2>4, <4>1, <1>2, <2>2, <2>3, <4>2, <4>3 DEF OperandsTyped, Code, Clone
      <4>4. CASE e.pc # c.pc
        BY <4>1, <1>2, <2>2, <2>3, <4>2, <4>4 DEF OperandsTyped, Code, Clone
      <4> QED BY <4>3, <4>4
    <3>5. OperandsTyped(ins["execute"])'
      BY <1>2, <2>2, <2>3, <2>4, <2>6, <2>7 DEF OperandsTyped, Code, Clone
    <3> QED BY <2>9, <3>4, <3>5 DEF OperandTypes, Older
  <2>13. Boxed'
    BY <1>1, <2>6, <2>7, <2>8, <2>9 DEF StageInv, Boxed, Full, Stages
  <2>14. DecodeClear'
    BY <2>9 DEF DecodeClear
  <2>15. \A s \in {"mem", "writeback"} : Full(s) =>
           /\ ~(UsesGdl(i) /\ UsesGdl(Code(ins[s])))
           /\ Code(ins[s]).dst # NoReg => Code(ins[s]).dst \notin {i.in1, i.in2}
    BY <1>1, <1>4
       DEF StageInv, DecodeClear, Interlocked, Conflict, Older
  <2>16. OneMemOp'
    BY <1>1, <2>8, <2>9, <2>15 DEF StageInv, OneMemOp, Older
  <2>17. HazardFree'
    BY <1>1, <2>8, <2>9, <2>15 DEF StageInv, HazardFree, Older, Rank
  <2>18. StartedOnce'
    <3>1. Full("writeback") => (IsMem(Code(ins["writeback"])) => ins["writeback"].ready)
      BY <1>1 DEF StageInv, Boxed
    <3> QED BY <1>1, <2>6, <2>7, <2>8, <2>9, <3>1
            DEF StageInv, StartedOnce, Full, IsDone, BoxReady
  <2>19. OwnTransaction'
    BY <1>1, <1>2, <2>7, <2>8, <2>9 DEF OwnTransaction, Waiting
  <2> QED BY <1>1, <1>2, <2>10, <2>11, <2>12, <2>13, <2>14, <2>16, <2>17, <2>18,
             <2>19 DEF IInv, Programmed
<1> QED BY <1>3, <1>4

LEMMA PropagateDecodeStep ==
  ASSUME IInv, PropagateDecode
  PROVE  IInv'
<1> DEFINE c == ins["fetch"]
           moved == ~Full("decode") /\ Full("fetch") /\ ~Interlocked(c)
<1>1. TypeOK /\ StageInv /\ Programmed /\ Fetched /\ OwnTransaction
  BY DEF IInv, StageInv
<1>2. UNCHANGED <<cache, loads, pc, opVals, sreg, vreg, heap, scratch, mem, inflight, log>>
      /\ phase' = "tick"
  BY DEF PropagateDecode, Goto, regs, bank
<1>3. CASE ~moved
  <2>1. UNCHANGED ins
    BY <1>3 DEF PropagateDecode
  <2>2. StageInv'
    BY <1>1, <1>2, <2>1, Emptied
  <2> QED BY <1>1, <1>2, <2>1, <2>2
      DEF IInv, StageInv, TypeOK, Phases, Programmed, OwnTransaction, Waiting,
          Full, Code
<1>4. CASE moved
  <2>1. ins \in [Stages -> Clone \cup {None}]
    BY <1>1 DEF TypeOK
  <2>2. ins' = [ins EXCEPT !["fetch"] = None, !["decode"] = c]
    BY <1>4 DEF PropagateDecode, Moves
  <2>3. /\ ins'["fetch"] = None /\ ins'["decode"] = c
        /\ \A s \in Older : ins'[s] = ins[s]
    BY <2>1, <2>2 DEF Stages, Older
  <2>4. c \in Clone /\ ins' \in [Stages -> Clone \cup {None}]
    BY <1>4, <2>1, <2>2 DEF Stages, Full
  <2>5. Fetched' /\ Boxed'
    BY <1>1, <1>2, <1>4, <2>3 DEF StageInv, Fetched, Boxed, Full, Stages, Older, Code
  <2>6. OperandTypes'
    BY <1>1, <1>2, <2>3 DEF StageInv, OperandTypes, OperandsTyped, Full, Code
  <2>7. DecodeClear'
    BY <1>2, <1>4, <2>3 DEF DecodeClear, Interlocked, Full, Code
  <2>8. OneMemOp' /\ HazardFree'
    BY <1>1, <1>2, <2>3 DEF StageInv, OneMemOp, HazardFree, Full, Code
  <2>9. StartedOnce'
    BY <1>1, <1>2, <1>4, <2>3
       DEF StageInv, StartedOnce, Full, Code, IsDone, BoxReady, Older
  <2>10. OwnTransaction'
    BY <1>1, <1>2, <2>3 DEF OwnTransaction, Waiting, Full, Code, Older
  <2> QED BY <1>1, <1>2, <2>4, <2>5, <2>6, <2>7, <2>8, <2>9, <2>10
      DEF IInv, Programmed, TypeOK, Phases
<1> QED BY <1>3, <1>4

LEMMA TickStagesStep ==
  ASSUME IInv, TickStages
  PROVE  IInv'
<1> DEFINE c == ins["execute"]
           d == [c EXCEPT !.left = @ - 1]
           ticks == Full("execute") /\ c.left > 0
<1>1. TypeOK /\ StageInv /\ Programmed /\ Fetched /\ OwnTransaction
  BY DEF IInv, StageInv
<1>2. UNCHANGED <<cache, loads, pc, opVals, sreg, vreg, heap, scratch, mem, inflight, log>>
      /\ phase' = "handle"
  BY DEF TickStages, Goto, regs, bank
<1>3. CASE ~ticks
  <2>1. UNCHANGED ins
    BY <1>3 DEF TickStages
  <2>2. StageInv'
    BY <1>1, <1>2, <2>1, Emptied
  <2> QED BY <1>1, <1>2, <2>1, <2>2
      DEF IInv, StageInv, TypeOK, Phases, Programmed, OwnTransaction, Waiting,
          Full, Code
<1>4. CASE ticks
  <2>1. ins \in [Stages -> Clone \cup {None}] /\ c \in Clone
    BY <1>1, <1>4 DEF TypeOK, Stages, Full
  <2>2. ins' = [ins EXCEPT !["execute"] = d]
    BY <1>4, <2>1 DEF TickStages
  <2>3. /\ d \in Clone /\ d.pc = c.pc /\ d.state = c.state /\ d.ready = c.ready
        /\ d.src = c.src /\ d # None
    BY <1>4, <2>1, SizeAssumption DEF Clone, Pc, None
  <2> HIDE DEF d
  <2>4. ins'["execute"] = d /\ \A s \in Stages \ {"execute"} : ins'[s] = ins[s]
    BY <2>1, <2>2 DEF Stages
  <2>5. ins' \in [Stages -> Clone \cup {None}]
    BY <2>1, <2>2, <2>3
  <2>6. \A s \in Stages : (ins'[s] # None <=> ins[s] # None) /\ ins'[s].pc = ins[s].pc
    BY <1>4, <2>3, <2>4 DEF Full
  <2>7. Older \subseteq Stages /\ "fetch" \in Stages /\ "decode" \in Stages
        /\ "mem" \in Stages /\ "writeback" \in Stages
    BY DEF Older, Stages
  <2>8. Fetched' /\ OperandTypes'
    BY <1>1, <1>2, <2>6, <2>7
       DEF StageInv, Fetched, OperandTypes, OperandsTyped, Full, Code
  <2>9. Boxed'
    <3>1. /\ Full("execute")' /\ Code(ins["execute"])' = Code(c)
          /\ ins'["execute"].src = c.src /\ ins'["execute"].ready = c.ready
      BY <1>2, <2>3, <2>4 DEF Full, Code
    <3>2. \A s \in Stages \ {"execute"} :
            /\ ins'[s] = ins[s] /\ (Full(s)' <=> Full(s))
            /\ Code(ins[s])' = Code(ins[s])
      BY <1>2, <2>4 DEF Full, Code
    <3>3. "execute" \in Stages
      BY DEF Stages
    <3> QED BY <1>1, <1>4, <2>4, <2>7, <3>1, <3>2, <3>3 DEF StageInv, Boxed
  <2>10. DecodeClear'
    BY <1>1, <1>2, <2>6, <2>7 DEF StageInv, DecodeClear, Interlocked, Full, Code
  <2>11. OneMemOp' /\ HazardFree'
    BY <1>1, <1>2, <2>6, <2>7 DEF StageInv, OneMemOp, HazardFree, Full, Code
  <2>12. StartedOnce'
    <3>1. Full("writeback") => (IsMem(Code(ins["writeback"])) => ins["writeback"].ready)
      BY <1>1 DEF StageInv, Boxed
    <3>2. Code(ins["execute"])' = Code(c)
      BY <1>2, <2>3, <2>4 DEF Code
    <3> QED BY <1>1, <1>2, <1>4, <2>3, <2>4, <2>7, <3>1, <3>2
            DEF StageInv, StartedOnce, Full, Code, IsDone, BoxReady
  <2>13. OwnTransaction'
    BY <1>1, <1>2, <2>4, <2>7 DEF OwnTransaction, Waiting, Full, Code
  <2> QED BY <1>1, <1>2, <2>5, <2>8, <2>9, <2>10, <2>11, <2>12, <2>13
      DEF IInv, Programmed, TypeOK, Phases
<1> QED BY <1>3, <1>4

\* The handlers: what they fetch is a cold clone, and what they load goes
\* behind what the clones came from.
LEMMA FetchStep ==
  ASSUME IInv,
         NEW code \in Seq(Instruction), Len(code) <= CacheSize,
         Len(cache) <= Len(code), \A n \in DOMAIN cache : code[n] = cache[n],
         \A n \in DOMAIN code :
           WellFormed(code[n]) /\ (IsJump(code[n]) => code[n].addr < CacheSize),
         cache' = code, FetchFrom(code), loads' \in 0..MaxLoads,
         phase' = "drain", UNCHANGED <<opVals, regs, bank>>
  PROVE  IInv'
<1> DEFINE i == code[pc + 1]
           d == [pc |-> pc, state |-> "COLD", left |-> i.time, addr |-> i.addr,
                 src |-> NoBuf, data |-> NoBuf, ready |-> FALSE, own |-> Nothing,
                 was |-> 0]
           fetches == pc < Len(code) /\ ~Full("fetch")
<1>1. TypeOK /\ StageInv /\ Programmed /\ Fetched /\ OwnTransaction
  BY DEF IInv, StageInv
<1>2. UNCHANGED <<opVals, sreg, vreg, heap, scratch, mem, inflight, log>>
  BY DEF regs, bank
<1>3. ins \in [Stages -> Clone \cup {None}] /\ pc \in Pc /\ pc \in Nat
  BY <1>1 DEF TypeOK, Pc
<1>4. fetches => /\ i \in Instruction /\ WellFormed(i)
                 /\ (IsJump(i) => i.addr \in Pc)
                 /\ d \in Clone
  <2> SUFFICES ASSUME fetches
               PROVE  /\ i \in Instruction /\ WellFormed(i)
                      /\ (IsJump(i) => i.addr \in Pc)
                      /\ d \in Clone
    OBVIOUS
  <2>1. pc + 1 \in DOMAIN code
    BY <1>3
  <2>2. i \in Instruction /\ WellFormed(i)
    BY <2>1
  <2>3. IsJump(i) => i.addr \in Pc
    <3>1. IsJump(i) => i.addr < CacheSize
      BY <2>1
    <3>2. i.addr \in Nat
      BY <2>2 DEF Instruction
    <3> QED BY <3>1, <3>2, SizeAssumption DEF Pc
  <2>4. i.time \in 0..2 /\ i.addr \in Nat
    BY <2>2 DEF Instruction
  <2> HIDE DEF i
  <2> QED BY <1>3, <2>2, <2>3, <2>4, ValueFacts DEF Clone, Captured, Nothing
<1>5. \/ fetches /\ ins' = [ins EXCEPT !["fetch"] = d]
         /\ pc' = IF i.op = "JMP" THEN i.addr ELSE Succ(pc)
      \/ ~fetches /\ UNCHANGED <<ins, pc>>
  BY DEF FetchFrom
<1>6. d.pc = pc /\ d.state = "COLD" /\ ~d.ready
  OBVIOUS
<1> HIDE DEF i, d
<1>7. pc' \in Pc
  <2>1. Succ(pc) \in Pc
    BY <1>3, SizeAssumption DEF Succ, Pc
  <2> QED BY <1>3, <1>4, <1>5, <2>1 DEF IsJump
<1>8. ins' \in [Stages -> Clone \cup {None}]
  BY <1>3, <1>4, <1>5
<1>9. \A s \in Stages \ {"fetch"} : ins'[s] = ins[s]
  BY <1>3, <1>5 DEF Stages
<1>10. ins'["fetch"] = ins["fetch"] \/ (fetches /\ ins'["fetch"] = d)
  BY <1>3, <1>5 DEF Stages
<1>11. Older \subseteq Stages \ {"fetch"} /\ "decode" \in Stages \ {"fetch"}
       /\ "execute" \in Older /\ "mem" \in Older /\ "writeback" \in Older
       /\ Stages = {"fetch", "decode"} \cup Older
  BY DEF Older, Stages
<1>12. \A s \in Stages \ {"fetch"} : Full(s) => Code(ins[s])' = Code(ins[s])
  <2> SUFFICES ASSUME NEW s \in Stages \ {"fetch"}, Full(s)
               PROVE  Code(ins[s])' = Code(ins[s])
    OBVIOUS
  <2>1. ins[s].pc + 1 \in DOMAIN cache
    BY <1>1, CodeFacts
  <2> QED BY <1>9, <2>1 DEF Code
<1>13. TypeOK'
  BY <1>1, <1>2, <1>7, <1>8 DEF TypeOK, Phases
<1>14. Programmed'
  BY DEF Programmed
<1>15. Fetched'
  <2>1. \A s \in Stages : Full(s) => ins[s].pc < Len(cache) /\ ins[s].pc \in Nat
    BY <1>1, <1>3, SizeAssumption DEF Fetched, Full, Clone, Pc
  <2>2. Len(cache) \in Nat /\ Len(code) \in Nat
    BY <1>1 DEF TypeOK
  <2>3. \A s \in Stages : Full(s) => ins[s].pc < Len(code)
    BY <2>1, <2>2
  <2> QED BY <1>6, <1>9, <1>10, <2>3 DEF Fetched, Full
<1>16. OperandTypes'
  BY <1>1, <1>2, <1>9, <1>11, <1>12
     DEF StageInv, OperandTypes, OperandsTyped, Full
<1>17. Boxed'
  BY <1>1, <1>6, <1>9, <1>10, <1>11, <1>12 DEF StageInv, Boxed, Full
<1>18. DecodeClear'
  BY <1>1, <1>9, <1>11, <1>12 DEF StageInv, DecodeClear, Interlocked, Full
<1>19. OneMemOp' /\ HazardFree'
  <2>1. \A s \in Older : (Full(s) <=> Full(s)') /\ (Full(s) => Code(ins[s])' = Code(ins[s]))
    BY <1>9, <1>11, <1>12 DEF Full
  <2>2. OneMemOp'
    BY <1>1, <2>1 DEF StageInv, OneMemOp
  <2>3. HazardFree'
    BY <1>1, <2>1 DEF StageInv, HazardFree
  <2> QED BY <2>2, <2>3
<1>20. StartedOnce'
  <2>1. Full("writeback") => (IsMem(Code(ins["writeback"])) => ins["writeback"].ready)
    BY <1>1 DEF StageInv, Boxed
  <2> QED BY <1>1, <1>6, <1>9, <1>10, <1>11, <1>12, <2>1
          DEF StageInv, StartedOnce, Full, IsDone, BoxReady
<1>21. OwnTransaction'
  BY <1>1, <1>2, <1>9, <1>11, <1>12 DEF OwnTransaction, Waiting, Full
<1> QED BY <1>13, <1>14, <1>15, <1>16, <1>17, <1>18, <1>19, <1>20, <1>21 DEF IInv

LEMMA HandleStep ==
  ASSUME IInv, Handle
  PROVE  IInv'
<1>1. cache \in Seq(Instruction) /\ Len(cache) <= CacheSize /\ loads \in 0..MaxLoads
      /\ Len(cache) <= Len(cache)
  BY DEF IInv, TypeOK
<1>2. \A n \in DOMAIN cache :
        WellFormed(cache[n]) /\ (IsJump(cache[n]) => cache[n].addr < CacheSize)
  BY DEF IInv, Programmed
<1>3. /\ cache' = cache /\ loads' = loads /\ phase' = "drain"
      /\ FetchFrom(cache) /\ UNCHANGED <<opVals, regs, bank>>
  BY DEF Handle, Goto
<1> QED BY <1>1, <1>2, <1>3, FetchStep

\* Loaded behind start others, a program is still well formed and jumps within
\* the cache.
LEMMA RelocatedFacts ==
  ASSUME NEW p \in Program, NEW start \in Nat, start + Len(p) <= CacheSize
  PROVE  /\ Relocated(p, start) \in Seq(Instruction)
         /\ Len(Relocated(p, start)) = Len(p)
         /\ \A n \in DOMAIN p :
              LET i == Relocated(p, start)[n]
              IN  WellFormed(i) /\ (IsJump(i) => i.addr < CacheSize)
<1>1. p \in Seq(Instruction) /\ DOMAIN p = 1..Len(p) /\ Len(p) \in Nat
  BY DEF Program
<1>2. ASSUME NEW n \in DOMAIN p
      PROVE  LET i == Relocated(p, start)[n]
             IN  /\ i \in Instruction /\ WellFormed(i)
                 /\ IsJump(i) => i.addr < CacheSize
  <2>1. /\ p[n] \in Instruction /\ WellFormed(p[n])
        /\ IsJump(p[n]) => p[n].addr < Len(p)
    BY <1>1, <1>2 DEF Program
  <2>2. CASE ~IsJump(p[n])
    BY <1>2, <2>1, <2>2 DEF Relocated
  <2>3. CASE IsJump(p[n])
    <3> DEFINE i == [p[n] EXCEPT !.addr = @ + start]
    <3>1. Relocated(p, start)[n] = i
      BY <1>2, <2>3 DEF Relocated
    <3>2. /\ i \in Instruction /\ i.addr = p[n].addr + start
          /\ i.op = p[n].op /\ i.in1 = p[n].in1 /\ i.in2 = p[n].in2
          /\ i.dst = p[n].dst
      BY <2>1 DEF Instruction
    <3> HIDE DEF i
    <3>3. WellFormed(i) /\ IsJump(i)
      BY <2>1, <2>3, <3>2 DEF WellFormed, IsJump, Operands, Vectorial,
         Folding, ScalarOps, VecOps, RedOps, Ignored, Immediate
    <3>4. i.addr < CacheSize
      <4>1. p[n].addr \in Nat /\ p[n].addr < Len(p)
        BY <2>1, <2>3 DEF Instruction
      <4> QED BY <1>1, <3>2, <4>1, SizeAssumption
    <3> QED BY <3>1, <3>2, <3>3, <3>4
  <2> QED BY <2>2, <2>3
<1>3. DOMAIN Relocated(p, start) = 1..Len(p)
  BY <1>1 DEF Relocated
<1>4. Relocated(p, start) \in [1..Len(p) -> Instruction]
  BY <1>1, <1>2 DEF Relocated
<1>5. Relocated(p, start) \in Seq(Instruction)
      /\ Len(Relocated(p, start)) = Len(p)
  BY <1>1, <1>4
<1> QED BY <1>2, <1>5

\* A command puts its program behind the others, where there is room for it.
LEMMA Loaded ==
  ASSUME IInv, NEW p \in Programs, HandleCommand(p)
  PROVE  LET moved == Relocated(p, Len(cache))
             code == cache \o moved
         IN
         /\ moved \in Seq(Instruction) /\ Len(moved) = Len(p)
         /\ Len(cache) + Len(p) <= CacheSize
         /\ \A n \in DOMAIN p :
              WellFormed(moved[n]) /\ (IsJump(moved[n]) => moved[n].addr < CacheSize)
         /\ code \in Seq(Instruction) /\ Len(code) = Len(cache) + Len(p)
         /\ Len(cache) <= Len(code)
         /\ \A n \in DOMAIN cache : code[n] = cache[n]
         /\ \A n \in DOMAIN code : n \notin DOMAIN cache =>
              n - Len(cache) \in DOMAIN p /\ code[n] = moved[n - Len(cache)]
<1> DEFINE moved == Relocated(p, Len(cache))
           code == cache \o moved
<1>1. /\ cache \in Seq(Instruction) /\ Len(cache) \in Nat
      /\ DOMAIN cache = 1..Len(cache)
  BY DEF IInv, TypeOK
<1>2. Len(code) <= CacheSize
  BY DEF HandleCommand
<1>3. p \in Program /\ DOMAIN p = 1..Len(p) /\ Len(p) \in Nat
  BY ProgramAssumption DEF Program
<1>4. DOMAIN moved = 1..Len(p)
  BY <1>3 DEF Relocated
<1>5. Len(cache) + Len(p) <= CacheSize
  <2>1. moved \in Seq(Instruction) /\ Len(moved) = Len(p)
    <3>1. moved \in [1..Len(p) -> Instruction]
      <4>1. \A n \in DOMAIN p : p[n] \in Instruction
        BY <1>3 DEF Program
      <4>2. \A n \in DOMAIN p : [p[n] EXCEPT !.addr = @ + Len(cache)] \in Instruction
        BY <1>1, <4>1 DEF Instruction
      <4> QED BY <1>3, <4>1, <4>2 DEF Relocated
    <3> QED BY <1>3, <3>1
  <2> HIDE DEF moved
  <2>2. Len(code) = Len(cache) + Len(p)
    BY <1>1, <1>3, <2>1
  <2> QED BY <1>2, <2>2
<1>6. /\ moved \in Seq(Instruction) /\ Len(moved) = Len(p)
      /\ \A n \in DOMAIN p :
           WellFormed(moved[n]) /\ (IsJump(moved[n]) => moved[n].addr < CacheSize)
  BY <1>1, <1>3, <1>5, RelocatedFacts
<1> HIDE DEF moved
<1>7. /\ code \in Seq(Instruction) /\ Len(code) = Len(cache) + Len(p)
      /\ Len(cache) <= Len(code)
      /\ \A n \in DOMAIN cache : code[n] = cache[n]
  BY <1>1, <1>3, <1>6
<1>8. ASSUME NEW n \in DOMAIN code, n \notin DOMAIN cache
      PROVE  n - Len(cache) \in DOMAIN p /\ code[n] = moved[n - Len(cache)]
  <2>1. n \in 1..(Len(cache) + Len(p))
    BY <1>7
  <2> QED BY <1>1, <1>3, <1>6, <1>8, <2>1
<1> HIDE DEF code
<1>9. /\ moved \in Seq(Instruction) /\ Len(moved) = Len(p)
      /\ Len(cache) + Len(p) <= CacheSize
      /\ \A n \in DOMAIN p :
           WellFormed(moved[n]) /\ (IsJump(moved[n]) => moved[n].addr < CacheSize)
      /\ code \in Seq(Instruction) /\ Len(code) = Len(cache) + Len(p)
      /\ Len(cache) <= Len(code)
      /\ \A n \in DOMAIN cache : code[n] = cache[n]
      /\ \A n \in DOMAIN code : n \notin DOMAIN cache =>
           n - Len(cache) \in DOMAIN p /\ code[n] = moved[n - Len(cache)]
  BY <1>5, <1>6, <1>7, <1>8
<1> QED BY <1>9 DEF code, moved

LEMMA HandleCommandStep ==
  ASSUME IInv, NEW p \in Programs, loads < MaxLoads, HandleCommand(p)
  PROVE  IInv'
<1> DEFINE moved == Relocated(p, Len(cache))
           code == cache \o moved
<1>1. /\ cache' = code /\ loads' = loads + 1 /\ phase' = "drain"
      /\ FetchFrom(code) /\ UNCHANGED <<opVals, regs, bank>>
      /\ Len(code) <= CacheSize
  BY DEF HandleCommand, Goto
<1>2. /\ \A n \in DOMAIN p :
           WellFormed(moved[n]) /\ (IsJump(moved[n]) => moved[n].addr < CacheSize)
      /\ code \in Seq(Instruction) /\ Len(cache) <= Len(code)
      /\ \A n \in DOMAIN cache : code[n] = cache[n]
      /\ \A n \in DOMAIN code : n \notin DOMAIN cache =>
           n - Len(cache) \in DOMAIN p /\ code[n] = moved[n - Len(cache)]
  BY Loaded
<1> HIDE DEF moved, code
<1>3. \A n \in DOMAIN code :
        WellFormed(code[n]) /\ (IsJump(code[n]) => code[n].addr < CacheSize)
  <2> SUFFICES ASSUME NEW n \in DOMAIN code
               PROVE  WellFormed(code[n]) /\ (IsJump(code[n]) => code[n].addr < CacheSize)
    OBVIOUS
  <2>1. CASE n \in DOMAIN cache
    BY <1>2, <2>1 DEF IInv, Programmed
  <2>2. CASE n \notin DOMAIN cache
    BY <1>2, <2>2
  <2> QED BY <2>1, <2>2
<1>4. loads' \in 0..MaxLoads
  BY <1>1, LoadAssumption DEF IInv, TypeOK
<1> QED BY <1>1, <1>2, <1>3, <1>4, FetchStep

LEMMA ServeStep ==
  ASSUME IInv, Serve
  PROVE  IInv'
<1> DEFINE c == ins["mem"]
<1>1. TypeOK /\ StageInv /\ Programmed /\ OwnTransaction
  BY DEF IInv, StageInv
<1>2. /\ UNCHANGED <<phase, cache, loads, pc, ins, opVals, sreg, vreg, heap, scratch, mem>>
      /\ inflight # <<>> /\ inflight' = Tail(inflight)
      /\ log' = Append(log, Head(inflight))
  BY DEF Serve, regs
<1>3. Waiting /\ inflight = <<c.addr>> /\ log = <<>>
  BY <1>1, <1>2 DEF OwnTransaction
<1>4. c.addr \in Nat
  BY <1>1, <1>3 DEF TypeOK, Waiting, Full, Stages, Clone
<1>5. inflight' = <<>> /\ log' = <<c.addr>>
  BY <1>2, <1>3
<1>6. OwnTransaction'
  BY <1>2, <1>3, <1>5 DEF OwnTransaction, Waiting, Full, Code
<1>7. TypeOK'
  BY <1>1, <1>2, <1>4, <1>5 DEF TypeOK
<1>8. StageInv'
  BY <1>1, <1>2, Emptied
<1> QED BY <1>1, <1>2, <1>6, <1>7, <1>8 DEF IInv, StageInv, Programmed

LEMMA NextIInv == IInv /\ [Next]_vars => IInv'
<1> SUFFICES ASSUME IInv, [Next]_vars PROVE IInv'
  OBVIOUS
<1>1. CASE Drain
  BY <1>1, DrainStep
<1>2. CASE PropagateWriteback
  BY <1>2, PropagateWritebackStep
<1>3. CASE PropagateMem
  BY <1>3, PropagateMemStep
<1>4. CASE PropagateExecute
  BY <1>4, PropagateExecuteStep
<1>5. CASE PropagateDecode
  BY <1>5, PropagateDecodeStep
<1>6. CASE TickStages
  BY <1>6, TickStagesStep
<1>7. CASE Handle
  BY <1>7, HandleStep
<1>8. CASE loads < MaxLoads /\ \E p \in Programs : HandleCommand(p)
  BY <1>8, HandleCommandStep
<1>9. CASE Serve
  BY <1>9, ServeStep
<1>10. CASE UNCHANGED vars
  <2>1. UNCHANGED <<phase, cache, loads, pc, ins, opVals, sreg, vreg, heap, scratch, mem,
                    inflight, log>>
    BY <1>10 DEF vars, regs, bank
  <2>2. StageInv'
    BY <2>1, Emptied DEF IInv, StageInv
  <2> QED BY <2>1, <2>2
      DEF IInv, StageInv, TypeOK, Programmed, OwnTransaction, Waiting, Full, Code
<1> QED BY <1>1, <1>2, <1>3, <1>4, <1>5, <1>6, <1>7, <1>8, <1>9, <1>10
    DEF Next, CoreStep

-----------------------------------------------------------------------------
(* The theorems. *)

\* Whatever well-formed kernels a core of any size runs, and however the bank
\* delays it, the invariant holds.
THEOREM Invariance == Spec => []IInv
<1>1. Init => IInv
  BY InitIInv
<1>2. IInv /\ [Next]_vars => IInv'
  BY NextIInv
<1> QED BY <1>1, <1>2, PTL DEF Spec

\* Every variable of the core keeps its type: in particular pc and the jump
\* targets stay in the cache, and every operand is a live buffer.
THEOREM TypeCorrect == Spec => []TypeOK
<1>1. IInv => TypeOK
  BY DEF IInv
<1> QED BY <1>1, Invariance, PTL

\* read_prop keeps users of the bank and the GDL apart.
THEOREM OneMemOpAlways == Spec => []OneMemOp
<1>1. IInv => OneMemOp
  BY DEF IInv
<1> QED BY <1>1, Invariance, PTL

\* The bank never holds a transaction of an instruction that was flushed, nor
\* completes one whose instruction is not the one that polls.
THEOREM OwnTransactionAlways == Spec => []OwnTransaction
<1>1. IInv => OwnTransaction
  BY DEF IInv
<1> QED BY <1>1, Invariance, PTL

\* No instruction past decode reads what an older one has yet to write.
THEOREM HazardFreeAlways == Spec => []HazardFree
<1>1. IInv => HazardFree
  BY DEF IInv
<1> QED BY <1>1, Invariance, PTL

\* No instruction is started twice or retired before it is done.
THEOREM StartedOnceAlways == Spec => []StartedOnce
<1>1. IInv => StartedOnce
  BY DEF IInv
<1> QED BY <1>1, Invariance, PTL

\* A core tick ends with a fetch that finds the stage empty unless no program
\* is left, so an idle core has run all of them.
THEOREM IdleAlwaysFinished == Spec => []IdleMeansFinished
<1>1. Init => IdleMeansFinished
  BY DEF Init, IdleMeansFinished
<1>2. ASSUME NEW code, FetchFrom(code), IInv, cache' = code
      PROVE  IdleMeansFinished'
  <2>1. CASE pc < Len(code) /\ ~Full("fetch")
    <3>1. ins'["fetch"].pc = pc
      BY <1>2, <2>1 DEF FetchFrom, IInv, TypeOK, Stages
    <3>2. pc # -1
      BY <1>2 DEF IInv, TypeOK, Pc
    <3>3. ins'["fetch"] # None
      BY <3>1, <3>2 DEF None
    <3> QED BY <3>3 DEF IdleMeansFinished, Full, Stages
  <2>2. CASE Full("fetch")
    BY <1>2, <2>2 DEF FetchFrom, IdleMeansFinished, Full, Stages
  <2>3. CASE ~(pc < Len(code))
    BY <1>2, <2>3 DEF FetchFrom, IdleMeansFinished, IInv, TypeOK, Pc
  <2> QED BY <2>1, <2>2, <2>3
<1>3. IInv /\ IdleMeansFinished /\ [Next]_vars => IdleMeansFinished'
  <2> SUFFICES ASSUME IInv, IdleMeansFinished, [Next]_vars
               PROVE  IdleMeansFinished'
    OBVIOUS
  <2>1. CASE Handle
    BY <1>2, <2>1 DEF Handle
  <2>2. CASE \E p \in Programs : HandleCommand(p)
    BY <1>2, <2>2 DEF HandleCommand
  <2>3. CASE phase' # "drain"
    BY <2>3 DEF IdleMeansFinished, At
  <2>4. CASE UNCHANGED <<phase, cache, pc, ins>>
    BY <2>4 DEF IdleMeansFinished, At, Full
  <2> QED
    BY <2>1, <2>2, <2>3, <2>4
    DEF Next, CoreStep, Drain, PropagateWriteback, PropagateMem, PropagateExecute,
        PropagateDecode, TickStages, Serve, Goto, vars
<1> QED BY <1>1, <1>3, Invariance, PTL DEF Spec

-----------------------------------------------------------------------------
(* The shared operands.  A clone that reads its operands overwrites those  *)
(* of every other clone of its instruction; with the values those clones   *)
(* read themselves, since no register read past decode has changed since.  *)

\* An operation that changes its first register says so: without a dst it
\* would do it behind the interlock's back.
Declares(i) == Immediate(i) \/ Folding(i) => i.dst # NoReg
Declared == \A n \in DOMAIN cache : Declares(cache[n])

\* What a register holds, a number or the buffer it refers to.
Now(r) == IF r \in SReg THEN sreg[r] ELSE vreg[r]

\* The operands of a clone are those it read, and still in the registers.
OwnCurrentAt(c) ==
  LET i == Code(c) IN
  /\ i.in1 # NoReg => opVals[c.pc].in1 = c.own.in1 /\ c.own.in1 = Now(i.in1)
  /\ i.in2 # NoReg => opVals[c.pc].in2 = c.own.in2 /\ c.own.in2 = Now(i.in2)
OwnCurrent == \A s \in Older : Full(s) => OwnCurrentAt(ins[s])

\* A retiring clone changes no register that a younger one has read, nor the
\* GDL under one that uses it.
LEMMA RetiredKeeps ==
  ASSUME IInv, Declared, OwnCurrent, Full("writeback"),
         NEW s \in Older, s # "writeback", Full(s),
         NEW r, r # NoReg,
         \/ r \in {Code(ins[s]).in1, Code(ins[s]).in2}
         \/ r = Gdl /\ UsesGdl(Code(ins[s]))
  PROVE  /\ r \in SReg => SRegAfter(ins["writeback"])[r] = sreg[r]
         /\ r \in Vector => VRegAfter(ins["writeback"])[r] = vreg[r]
<1> DEFINE c == ins["writeback"]
           i == Code(c)
           o == opVals[c.pc]
           young == Code(ins[s])
<1>1. "writeback" \in Older /\ "writeback" \in Stages /\ s \in Stages
      /\ Rank(s) < Rank("writeback")
  BY DEF Older, Stages, Rank
<1>2. /\ i \in Instruction /\ WellFormed(i) /\ Declares(i)
      /\ young \in Instruction
  <2>1. c.pc + 1 \in DOMAIN cache /\ i \in Instruction /\ WellFormed(i)
        /\ young \in Instruction
    BY <1>1, CodeFacts DEF IInv
  <2> QED BY <2>1 DEF Declared, Code
<1>3. ~(UsesGdl(i) /\ UsesGdl(young))
  BY <1>1 DEF IInv, OneMemOp
<1>4. i.dst # NoReg => r # i.dst
  BY <1>1, <1>3 DEF IInv, HazardFree, UsesGdl, Operands
<1>5. OwnCurrentAt(c)
  BY <1>1 DEF OwnCurrent
<1>6. CASE r \in SReg
  <2>1. i.op = "MOV" => i.dst # NoReg
    BY <1>2, Names DEF WellFormed, Immediate, Folding, Vectorial, ImmOps, RedOps,
       ScalarOps, VecOps, Ignored, CondJumps
  <2>2. SRegAfter(c)[r] = sreg[r]
    <3> HIDE DEF c, i
    <3> QED BY <1>2, <1>4, <1>6, <2>1 DEF SRegAfter, Dest, Declares, i, IInv, TypeOK
  <2> QED BY <1>6, <2>2, Names
<1>7. CASE r \in Vector
  <2>1. r \notin SReg
    BY <1>7, Names
  <2>2. VRegAfter(c)[r] = vreg[r]
    <3>1. CASE i.op = "SCRATCH_READ"
      <4>1. i.dst # NoReg
        BY <1>2, <3>1, Names DEF WellFormed, Immediate, Folding, Vectorial, ImmOps, RedOps,
           ScalarOps, VecOps, Ignored, CondJumps
      <4>3. ~IsMem(i) /\ i.op # "MOV" /\ ~Vectorial(i)
        BY <3>1 DEF IsMem, MemOps, Vectorial, ScalarOps, VecOps
      <4>2. VRegAfter(c) = [vreg EXCEPT ![i.dst] = c.data]
        BY <3>1, <4>3 DEF VRegAfter
      <4> QED BY <1>4, <1>7, <4>1, <4>2 DEF IInv, TypeOK
    <3>2. CASE IsMem(i)
      <4>1. r # Gdl
        BY <1>3, <3>2 DEF UsesGdl, Operands
      <4>2. r \notin Latched(i)
        BY <1>4, <4>1 DEF Latched
      <4>4. i.op # "MOV" /\ ~Vectorial(i) /\ i.op # "SCRATCH_READ"
        BY <3>2 DEF IsMem, MemOps, Vectorial, ScalarOps, VecOps
      <4>3. VRegAfter(c) = [q \in Vector |-> IF q \in Latched(i) THEN c.data ELSE vreg[q]]
        BY <3>2, <4>4 DEF VRegAfter
      <4> QED BY <1>7, <4>2, <4>3
    <3>3. CASE i.op = "MOV" /\ i.in1 \in Vector
      <4>1. i.dst # NoReg
        BY <1>2, <3>3, Names DEF WellFormed, Immediate, Folding, Vectorial, ImmOps, RedOps,
           ScalarOps, VecOps, Ignored, CondJumps
      <4>3. ~IsMem(i) /\ ~Vectorial(i) /\ i.op # "SCRATCH_READ"
        BY <3>3 DEF IsMem, MemOps, Vectorial, ScalarOps, VecOps
      <4>2. VRegAfter(c) = [vreg EXCEPT ![i.dst] = o.in1]
        BY <3>3, <4>3 DEF VRegAfter
      <4> QED BY <1>4, <1>7, <4>1, <4>2 DEF IInv, TypeOK
    <3>4. CASE Vectorial(i)
      <4>1. VRegAfter(c) = [vreg EXCEPT ![Dest(i)] = o.in1]
        BY <3>4 DEF VRegAfter, IsMem, MemOps, Vectorial, ScalarOps, VecOps
      <4>2. CASE r # Dest(i)
        BY <1>7, <4>1, <4>2 DEF IInv, TypeOK
      <4>3. CASE r = Dest(i)
        <5>1. r = i.in1
          BY <1>4, <4>3 DEF Dest
        <5>2. o.in1 = vreg[r]
          BY <1>5, <2>1, <5>1 DEF OwnCurrentAt, Now
        <5> QED BY <1>7, <4>1, <5>2 DEF IInv, TypeOK
      <4> QED BY <4>2, <4>3
    <3>5. CASE /\ ~IsMem(i) /\ ~(i.op = "MOV" /\ i.in1 \in Vector) /\ ~Vectorial(i)
               /\ i.op # "SCRATCH_READ"
      BY <3>5 DEF VRegAfter
    <3> QED BY <3>1, <3>2, <3>3, <3>4, <3>5
  <2> QED BY <2>1, <2>2
<1> QED BY <1>6, <1>7

\* ... so the drain leaves it to the younger one as it was.
LEMMA RetiredRegister ==
  ASSUME IInv, Declared, OwnCurrent, Drain, NEW s \in Older, s # "writeback", Full(s),
         NEW r, r # NoReg, r \in SReg \cup Vector,
         \/ r \in {Code(ins[s]).in1, Code(ins[s]).in2}
         \/ r = Gdl /\ UsesGdl(Code(ins[s]))
  PROVE  Now(r)' = Now(r)
<1>1. CASE ~(Full("writeback") /\ IsDone(ins["writeback"]))
  BY <1>1 DEF Drain, regs, Now
<1>2. CASE Full("writeback") /\ IsDone(ins["writeback"])
  <2>1. sreg' = SRegAfter(ins["writeback"]) /\ vreg' = VRegAfter(ins["writeback"])
    BY <1>2 DEF Drain
  <2> QED BY <1>2, <2>1, RetiredKeeps DEF Now
<1> QED BY <1>1, <1>2

\* Clones that stay, or move on with what they captured, keep it.
LEMMA OwnCarried ==
  ASSUME OwnCurrent, UNCHANGED <<opVals, sreg, vreg>>,
         \A s \in Older : Full(s)' =>
           \E t \in Older : /\ Full(t)
                            /\ ins'[s].pc = ins[t].pc /\ ins'[s].own = ins[t].own
                            /\ Code(ins[s])' = Code(ins[t])
  PROVE  OwnCurrent'
<1> SUFFICES ASSUME NEW s \in Older, Full(s)'
             PROVE  OwnCurrentAt(ins[s])'
  BY DEF OwnCurrent
<1>1. PICK t \in Older : /\ Full(t)
                         /\ ins'[s].pc = ins[t].pc /\ ins'[s].own = ins[t].own
                         /\ Code(ins[s])' = Code(ins[t])
  OBVIOUS
<1>2. OwnCurrentAt(ins[t])
  BY <1>1 DEF OwnCurrent
<1> QED BY <1>1, <1>2 DEF OwnCurrentAt, Now

\* The drain changes only registers that no clone it leaves behind has read.
LEMMA DrainOwn ==
  ASSUME IInv, Declared, OwnCurrent, Drain
  PROVE  OwnCurrent'
<1>1. UNCHANGED <<cache, opVals>>
  BY DEF Drain
<1>2. ins' = ins \/ ins' = [ins EXCEPT !["writeback"] = None]
  BY DEF Drain, regs
<1>3. ins \in [Stages -> Clone \cup {None}]
  BY DEF IInv, TypeOK
<1> SUFFICES ASSUME NEW s \in Older, Full(s)'
             PROVE  OwnCurrentAt(ins[s])'
  BY DEF OwnCurrent
<1>4. s \in Stages
  BY DEF Older, Stages
<1>5. ins'[s] = ins[s] /\ Full(s) /\ Code(ins[s])' = Code(ins[s])
  BY <1>1, <1>2, <1>3, <1>4 DEF Full, Code
<1>6. OwnCurrentAt(ins[s])
  BY <1>5 DEF OwnCurrent
<1>7. CASE s # "writeback"
  <2>1. Code(ins[s]).in1 \in Reg /\ Code(ins[s]).in2 \in Reg
    BY <1>4, <1>5, CodeFacts DEF IInv, Instruction
  <2> QED BY <1>1, <1>5, <1>6, <1>7, <2>1, RetiredRegister DEF OwnCurrentAt, Reg
<1>8. CASE s = "writeback"
  <2>1. ~(Full("writeback") /\ IsDone(ins["writeback"]))
    BY <1>3, <1>4, <1>8 DEF Drain, Full
  <2>2. UNCHANGED <<sreg, vreg>>
    BY <2>1 DEF Drain, regs
  <2> QED BY <1>1, <1>5, <1>6, <2>2 DEF OwnCurrentAt, Now
<1> QED BY <1>7, <1>8

\* What reads its operands gives other clones of its instruction the values
\* they have already.
LEMMA ExecuteOwn ==
  ASSUME IInv, OwnCurrent, PropagateExecute
  PROVE  OwnCurrent'
<1> DEFINE c == ins["decode"]
           e == Entered(c)
<1>1. UNCHANGED <<cache, sreg, vreg>>
  BY DEF PropagateExecute, regs
<1>2. ins \in [Stages -> Clone \cup {None}] /\ "decode" \in Stages /\ "execute" \in Stages
      /\ opVals \in [Pc -> Captured] /\ Older \subseteq Stages /\ "decode" \notin Older
  BY DEF IInv, TypeOK, Stages, Older
<1>3. CASE UNCHANGED <<ins, opVals>>
  BY <1>1, <1>3, OwnCarried DEF Full, Code
<1>4. CASE /\ Full("decode")
           /\ opVals' = [opVals EXCEPT ![c.pc] = ReadOperands(c)]
           /\ Moves("decode", "execute", e)
  <2>1. c \in Clone /\ c.pc \in Pc
    BY <1>2, <1>4 DEF Full, Clone
  <2>2. e.pc = c.pc /\ e.own = ReadOperands(c)
    BY <2>1 DEF Entered, Clone
  <2>3. opVals'[c.pc] = ReadOperands(c)
        /\ \A p \in Pc : p # c.pc => opVals'[p] = opVals[p]
    BY <1>2, <1>4, <2>1
  <2>4. /\ Code(c).in1 # NoReg => ReadOperands(c).in1 = Now(Code(c).in1)
        /\ Code(c).in2 # NoReg => ReadOperands(c).in2 = Now(Code(c).in2)
    BY DEF ReadOperands, Operand, Now
  <2>5. /\ Code(c).in1 # NoReg => opVals'[c.pc].in1 = Now(Code(c).in1)
        /\ Code(c).in2 # NoReg => opVals'[c.pc].in2 = Now(Code(c).in2)
    BY <2>3, <2>4
  <2>6. \A d : Code(d)' = cache[d.pc + 1]
    BY <1>1 DEF Code
  <2> HIDE DEF e
  <2>7. ins'["execute"] = e /\ \A s \in Older : s # "execute" => ins'[s] = ins[s]
    BY <1>2, <1>4 DEF Moves
  <2> SUFFICES ASSUME NEW s \in Older, Full(s)'
               PROVE  OwnCurrentAt(ins[s])'
    BY DEF OwnCurrent
  <2>8. CASE s = "execute"
    <3>1. Code(ins[s])' = Code(c)
      BY <1>1, <2>2, <2>7, <2>8 DEF Code
    <3> QED BY <1>1, <2>2, <2>3, <2>4, <2>7, <2>8, <3>1 DEF OwnCurrentAt, Now
  <2>9. CASE s # "execute"
    <3>1. ins'[s] = ins[s] /\ Full(s) /\ Code(ins[s])' = Code(ins[s])
      BY <1>1, <2>7, <2>9 DEF Full, Code
    <3>2. OwnCurrentAt(ins[s]) /\ ins[s].pc \in Pc
      BY <1>2, <3>1 DEF OwnCurrent, Full, Clone
    <3>3. CASE ins[s].pc # c.pc
      BY <1>1, <2>3, <3>1, <3>2, <3>3 DEF OwnCurrentAt, Now
    <3>4. CASE ins[s].pc = c.pc
      <4>1. Code(ins[s]) = Code(c)
        BY <3>4 DEF Code
      <4> QED BY <1>1, <2>5, <3>1, <3>2, <3>4, <4>1 DEF OwnCurrentAt, Now
    <3> QED BY <3>3, <3>4
  <2> QED BY <2>8, <2>9
<1> QED BY <1>3, <1>4 DEF PropagateExecute

\* The other calls of a tick carry clones from stage to stage or drop them.
LEMMA OthersOwn ==
  ASSUME IInv, OwnCurrent,
         \/ PropagateWriteback \/ PropagateMem \/ PropagateDecode \/ TickStages
         \/ Serve \/ UNCHANGED vars
  PROVE  OwnCurrent'
<1>1. ins \in [Stages -> Clone \cup {None}]
      /\ Stages = {"fetch", "decode", "execute", "mem", "writeback"}
  BY DEF IInv, TypeOK, Stages
<1>2. UNCHANGED <<cache, opVals, sreg, vreg>>
  BY DEF PropagateWriteback, PropagateMem, PropagateDecode, TickStages, Serve, vars, regs
<1>3. ASSUME NEW s \in Older, Full(s)'
      PROVE  \E t \in Older : /\ Full(t)
                              /\ ins'[s].pc = ins[t].pc /\ ins'[s].own = ins[t].own
  <2>1. CASE ins'[s] = ins[s]
    BY <1>3, <2>1 DEF Full
  <2>2. CASE PropagateWriteback
    <3> DEFINE c == ins["mem"]
               d == [c EXCEPT !.state = "DONE", !.ready = IsMem(Code(c))]
    <3>1. ins' = ins \/ (Full("mem") /\ Moves("mem", "writeback", d))
      BY <2>2 DEF PropagateWriteback
    <3>2. Full("mem") => d.pc = c.pc /\ d.own = c.own
      BY <1>1 DEF Full, Clone
    <3> HIDE DEF d
    <3> QED BY <1>1, <1>3, <2>1, <3>1, <3>2 DEF Moves, Full, Older
  <2>3. CASE PropagateMem
    <3>1. ASSUME Full("execute"), NEW d \in {Started(ins["execute"]),
                   ins["execute"], Accessed(ins["execute"]),
                   [ins["execute"] EXCEPT !.state = "DONE"]}
          PROVE  d.pc = ins["execute"].pc /\ d.own = ins["execute"].own
      BY <1>1, <3>1 DEF Started, Accessed, Clone, Full
    <3>2. \/ ins' = ins
          \/ /\ Full("execute")
             /\ \E d \in {Started(ins["execute"]), ins["execute"], Accessed(ins["execute"]),
                          [ins["execute"] EXCEPT !.state = "DONE"]} :
                  Moves("execute", "mem", d)
          \/ ins' = [t \in Stages |-> IF t \in Flushed THEN None ELSE ins[t]]
      BY <2>3 DEF PropagateMem
    <3> QED BY <1>1, <1>3, <2>1, <3>1, <3>2 DEF Moves, Full, Older
  <2>4. CASE PropagateDecode
    BY <1>1, <1>3, <2>1, <2>4 DEF PropagateDecode, Moves, Full, Older
  <2>5. CASE TickStages
    BY <1>1, <1>3, <2>1, <2>5 DEF TickStages, Full, Older, Clone
  <2>6. CASE Serve \/ UNCHANGED vars
    BY <2>1, <2>6 DEF Serve, vars
  <2> QED BY <2>2, <2>3, <2>4, <2>5, <2>6
<1>4. \A s \in Older : Full(s)' =>
        \E t \in Older : /\ Full(t)
                         /\ ins'[s].pc = ins[t].pc /\ ins'[s].own = ins[t].own
                         /\ Code(ins[s])' = Code(ins[t])
  BY <1>2, <1>3 DEF Code
<1> QED BY <1>2, <1>4, OwnCarried

\* Loading a program leaves the code of what runs alone.
LEMMA FetchOwn ==
  ASSUME IInv, OwnCurrent, UNCHANGED <<opVals, sreg, vreg>>,
         NEW code, cache' = code, \A n \in DOMAIN cache : code[n] = cache[n],
         FetchFrom(code)
  PROVE  OwnCurrent'
<1>1. ins \in [Stages -> Clone \cup {None}] /\ "fetch" \in Stages
      /\ Older \subseteq Stages /\ "fetch" \notin Older
  BY DEF IInv, TypeOK, Stages, Older
<1>2. \A s \in Older : ins'[s] = ins[s]
  BY <1>1 DEF FetchFrom
<1>3. ASSUME NEW s \in Older, Full(s)
      PROVE  Code(ins[s])' = Code(ins[s])
  <2>1. ins[s].pc + 1 \in DOMAIN cache
    BY <1>1, <1>3, CodeFacts DEF IInv
  <2> QED BY <1>2, <2>1 DEF Code
<1> QED BY <1>2, <1>3, OwnCarried DEF Full

\* Whatever the core does next, the programs it has loaded declare what they
\* change and the clones keep their operands.
LEMMA NextOwn ==
  ASSUME \A p \in Programs : \A n \in DOMAIN p : Declares(p[n]),
         IInv, Declared, OwnCurrent, [Next]_vars
  PROVE  Declared' /\ OwnCurrent'
<1> DEFINE J == Declared /\ OwnCurrent
<1>1. ASSUME NEW p \in Programs, HandleCommand(p)
      PROVE  J'
  <2> DEFINE moved == Relocated(p, Len(cache))
             code == cache \o moved
  <2>1. cache' = code /\ FetchFrom(code) /\ UNCHANGED <<opVals, sreg, vreg>>
        /\ Len(code) <= CacheSize
    BY <1>1 DEF HandleCommand, regs
  <2>2. p \in Seq(Instruction)
    BY ProgramAssumption DEF Program
  <2>3. \A n \in DOMAIN p : moved[n].op = p[n].op /\ moved[n].dst = p[n].dst
    <3>1. \A n \in DOMAIN p : p[n] \in Instruction
      BY <2>2
    <3> QED BY <3>1 DEF Relocated, Instruction
  <2>4. /\ \A n \in DOMAIN cache : code[n] = cache[n]
        /\ \A n \in DOMAIN code : n \notin DOMAIN cache =>
             n - Len(cache) \in DOMAIN p /\ code[n] = moved[n - Len(cache)]
    BY <1>1, Loaded
  <2>5. \A n \in DOMAIN p : Declares(moved[n])
    BY <2>3 DEF Declares, Immediate, Folding
  <2> HIDE DEF moved, code
  <2>6. Declared'
    BY <2>1, <2>4, <2>5 DEF Declared
  <2> QED BY <2>1, <2>4, <2>6, FetchOwn
<1>2. CASE Handle
  BY <1>2, FetchOwn DEF Handle, Declared, regs
<1>3. CASE Drain
  BY <1>3, DrainOwn DEF Drain, Declared
<1>4. CASE PropagateExecute
  BY <1>4, ExecuteOwn DEF PropagateExecute, Declared
<1>5. CASE \/ PropagateWriteback \/ PropagateMem \/ PropagateDecode \/ TickStages
           \/ Serve \/ UNCHANGED vars
  <2>1. cache' = cache
    BY <1>5 DEF PropagateWriteback, PropagateMem, PropagateDecode, TickStages, Serve, vars
  <2> QED BY <1>5, <2>1, OthersOwn DEF Declared
<1> QED BY <1>1, <1>2, <1>3, <1>4, <1>5 DEF Next, CoreStep

\* Where every program declares what its immediate operations and reductions
\* change, the dictionary that the clones of an instruction share never hands
\* one of them the operands of another.
THEOREM OperandsAlwaysOwn ==
  ASSUME \A p \in Programs : \A n \in DOMAIN p : Declares(p[n])
  PROVE  Spec => []OperandsAreOwn
<1> DEFINE J == Declared /\ OwnCurrent
<1>1. Init => J
  BY DEF Init, Declared, OwnCurrent, Full, Older, Stages
<1>2. IInv /\ J /\ [Next]_vars => J'
  BY NextOwn
<1>3. J => OperandsAreOwn
  BY DEF OwnCurrent, OwnCurrentAt, OperandsAreOwn
<1> QED BY <1>1, <1>2, <1>3, Invariance, PTL DEF Spec
=============================================================================
