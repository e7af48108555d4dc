---------------------------- MODULE Instructions ----------------------------
(* The instructions of lib/cores/instructions.py that the kernels of the   *)
(* SIMD cores are made of, and what each one computes.  A scalar register  *)
(* holds a number of the instruction's dtype (modelled modulo Width), a    *)
(* vector register and the GDL hold one lane of the same width: the lanes  *)
(* of a vector never mix before a reduction, and one lane shows a lost or  *)
(* a misordered update as well as many.                                    *)
EXTENDS Integers, Sequences

CONSTANTS SReg,       \* scalar registers of the core (names)
          VReg,       \* vector registers
          Width,      \* values are 0..Width-1
          CacheSize,  \* instructions the cache holds
          MemSize     \* chunks of the core's bank that are mapped

Gdl   == "gdl"        \* the bank's data latch, a vector operand
NoReg == ""           \* an operand that was not supplied
Vector == VReg \cup {Gdl}

ASSUME RegisterAssumption ==
  /\ SReg \cap Vector = {} /\ Gdl \notin VReg
  /\ NoReg \notin SReg \cup Vector
ASSUME SizeAssumption ==
  /\ Width \in Nat \ {0} /\ CacheSize \in Nat \ {0} /\ MemSize \in Nat \ {0}

Value == 0..(Width - 1)
Addr  == 0..(MemSize - 1)
Pc    == 0..(CacheSize - 1)
Reg   == SReg \cup Vector \cup {NoReg}

MemOps == {"READ", "WRITE"}
ScratchOps == {"SCRATCH_READ", "SCRATCH_WRITE"}
CondJumps == {"JL", "JLE", "JG", "JGE", "JNE"}
ImmOps == {"IMM_ADD", "IMM_SUB", "IMM_MUL", "IMM_DIV"}
ScalarOps == {"SCALAR_ADD", "SCALAR_SUB", "SCALAR_MUL", "SCALAR_DIV"}
VecOps == {"VEC_ADD", "VEC_SUB", "VEC_MUL", "VEC_DIV", "VEC_MAX"}
RedOps == {"RED_ADD", "RED_MAX", "RED_MIN"}

\* In the cores' timings, but without a case in their retirement callbacks.
Ignored == {"VEC_MIN"}
OpType == MemOps \cup ScratchOps \cup CondJumps \cup ImmOps \cup ScalarOps \cup VecOps
            \cup RedOps \cup Ignored \cup {"NOP", "JMP", "MOV"}

\* addr is a bank or a scratchpad address, or a cache position for jumps;
\* time is completion_time, the cycles to spend in execute.
Instruction == [op : OpType, in1 : Reg, in2 : Reg, dst : Reg,
                addr : Nat, imm : Value, time : 0..2]

IsMem(i)  == i.op \in MemOps
IsScratch(i) == i.op \in ScratchOps
IsJump(i) == i.op \in CondJumps \cup {"JMP"}
Vectorial(i) == i.op \in ScalarOps \cup VecOps
Folding(i) == i.op \in RedOps
Immediate(i) == i.op \in ImmOps
Operands(i) == {i.in1, i.in2, i.dst}

\* What the cores demand of an instruction; anything else is an assertion or a
\* raise when it is started or retired.
WellFormed(i) ==
  LET scalar == SReg \cup {NoReg}
      vector == Vector \cup {NoReg}
      named  == VReg \cup {NoReg}
  IN  \/ i.op = "READ" /\ i.in1 \in scalar /\ i.in2 = NoReg /\ i.dst \in named
      \/ i.op = "WRITE" /\ i.in1 \in vector /\ i.in2 \in scalar /\ i.dst \in named
      \/ i.op = "SCRATCH_READ" /\ i.in1 = NoReg /\ i.in2 = NoReg /\ i.dst \in VReg
      \/ i.op = "SCRATCH_WRITE" /\ i.in1 \in Vector
      \/ i.op = "MOV" /\ i.in1 \in scalar /\ i.in2 = NoReg /\ i.dst \in SReg
      \/ i.op = "MOV" /\ i.in1 \in Vector /\ i.in2 = NoReg /\ i.dst \in VReg
      \/ Immediate(i) /\ i.in1 \in SReg /\ i.in2 = NoReg /\ i.dst \in scalar
      \/ Folding(i) /\ i.in1 \in SReg /\ i.in2 \in Vector /\ i.dst \in scalar
      \/ /\ Vectorial(i) /\ i.in1 \in Vector
         /\ i.in2 \in IF i.op \in ScalarOps THEN SReg ELSE Vector
         /\ i.dst \in IF i.in1 = Gdl THEN VReg ELSE named
      \/ i.op \in Ignored /\ i.in1 \in Vector /\ i.in2 \in Vector /\ i.dst \in named
      \/ i.op \in CondJumps /\ i.in1 \in SReg /\ i.in2 \in SReg /\ i.dst = NoReg
      \/ i.op \in {"JMP", "NOP"} /\ Operands(i) = {NoReg}

\* A program, its jumps within itself.
Program == {p \in Seq(Instruction) :
              \A n \in DOMAIN p :
                WellFormed(p[n]) /\ (IsJump(p[n]) => p[n].addr < Len(p))}

\* What the interlock keeps apart: memory operations and users of the GDL.
UsesGdl(i) == Gdl \in Operands(i) \/ IsMem(i)

\* "infer that reg1 is the destination register if none is supplied"
Dest(i) == IF i.dst = NoReg THEN i.in1 ELSE i.dst

\* The register a memory address is indexed by, if any.
OffsetReg(i) == IF i.op = "READ" THEN i.in1 ELSE i.in2

Taken(i, x, y) ==
  CASE i.op = "JL"  -> x < y
    [] i.op = "JLE" -> x <= y
    [] i.op = "JG"  -> x > y
    [] i.op = "JGE" -> x >= y
    [] OTHER        -> x # y

\* Lanes are unsigned; a quotient is rounded down, and what numpy makes of a
\* division by zero is some number of the type, the largest here.
Combine(i, x, y) ==
  CASE i.op \in {"SCALAR_ADD", "VEC_ADD", "RED_ADD", "IMM_ADD"} -> (x + y) % Width
    [] i.op \in {"SCALAR_SUB", "VEC_SUB", "IMM_SUB"} -> (x - y) % Width
    [] i.op \in {"SCALAR_MUL", "VEC_MUL", "IMM_MUL"} -> (x * y) % Width
    [] i.op \in {"SCALAR_DIV", "VEC_DIV", "IMM_DIV"} /\ y # 0 -> (x \div y) % Width
    [] i.op \in {"VEC_MAX", "RED_MAX"} -> (IF x > y THEN x ELSE y) % Width
    [] i.op = "RED_MIN" -> (IF x < y THEN x ELSE y) % Width
    [] OTHER -> Width - 1

\* What a reduction starts from.
Neutral(i) == IF i.op = "RED_MIN" THEN Width - 1 ELSE 0

\* Mutant of Relocated: jump targets moved twice.
RelocatedTwice(p, start) ==
  [n \in DOMAIN p |-> IF IsJump(p[n]) THEN [p[n] EXCEPT !.addr = @ + 2 * start]
                                      ELSE p[n]]

\* load_prog: jump targets move with the program.
Relocated(p, start) ==
  [n \in DOMAIN p |-> IF IsJump(p[n]) THEN [p[n] EXCEPT !.addr = @ + start]
                                      ELSE p[n]]

\* The pc after a fetch at p (it wraps around the cache).
Succ(p) == IF p + 1 >= CacheSize THEN 0 ELSE p + 1
=============================================================================
