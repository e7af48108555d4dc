----------------------------- MODULE MCPipeline -----------------------------
(* Programs for Pipeline: every straight line of up to three instructions  *)
(* over a set that meets each interlock rule, and what the generators of   *)
(* Kernels make of commands over a few chunks with a window of one.        *)
EXTENDS Pipeline, Kernels

Buffers == 1..(Cardinality(Vector) + 13)

I(op, in1, in2, dst) == Ins(op, in1, in2, dst, 0, 0, Int32)
Jmp(target) == Ins("JMP", NoReg, NoReg, NoReg, target, 0, Int32)

Scale  == I("SCALAR_ADD", "v0", "r0", "v0")
Mul    == I("VEC_MUL", "v1", "v0", "v0")   \* in place on v1, which v0 then shares
Get    == Ins("SCRATCH_READ", NoReg, NoReg, "v1", 1, 0, Int32)
Put    == Ins("SCRATCH_WRITE", "v1", NoReg, NoReg, 1, 0, Int32)
AddGdl == I("VEC_ADD", "v0", "gdl", "v0")
Line == {READ(0, NoReg, "v0", Int32), READ(0, "r0", "v0", Int32), READ(1, NoReg, NoReg, Int32),
         WRITE("v0", 0, NoReg, Int32), WRITE("v0", 0, "r0", Int32),
         SET("r0", 1), INC("r0", 1, Int32), I("MOV", "r0", NoReg, "r1"),
         I("MOV", "gdl", NoReg, "v1"), AddGdl, Mul, Scale, Get, Put, I("RED_ADD", "r0", "v0", "r0")}
Lines == {Plain(<<a, b, c>>) : a \in Line, b \in Line, c \in Line}

\* One column, so one chunk to a window.
TheCore == [reg |-> <<"r0", "r1", "r2">>, vec |-> <<"v0", "v1", "v2">>, nCol |-> 1]
Chunked(first, second, third) ==
  [r1 |-> first, r2 |-> second, dst |-> third, scalar |-> 3, dtype |-> Int32]

VecVec    == VecVecKernel(TheCore, Chunked(<<0, 2>>, <<2, 4>>, <<3, 5>>), "VEC_MUL")
VecScalar == VecScalarKernel(TheCore, Chunked(<<0, 1>>, <<0, 1>>, <<1, 2>>), "SCALAR_ADD")
Red       == RedKernel(TheCore, Chunked(<<0, 4>>, <<0, 4>>, <<0, 4>>), "VEC_ADD", "RED_ADD")

\* What is streamed to the cores without an instruction cache, one and two
\* registers to a window, the last window shorter.
TwoColumns == [TheCore EXCEPT !.nCol = 2, !.vec = <<"v0", "v1">>]
StreamedVecVec ==
  StreamedVecVecKernel(TwoColumns, Chunked(<<0, 3>>, <<1, 4>>, <<2, 5>>), "VEC_DIV", Addr)
StreamedRed ==
  StreamedRedKernel(TheCore, Chunked(<<0, 4>>, <<0, 4>>, <<0, 4>>), "VEC_ADD", "RED_ADD")
StreamedRedGdl ==
  StreamedRedKernel(TwoColumns, Chunked(<<0, 3>>, <<0, 3>>, <<0, 3>>), "VEC_MAX", "RED_MAX")

\* Jumps with something in every stage behind them, taken and not taken.  Like
\* the kernels these set a register before they read it: a reduction leaves r0
\* to an operation without dst, which the interlock does not see.
Tight == <<SET("r0", 0), SET("r1", 2), INC("r0", 1, Int32), JL("r0", "r1", 2, Int32), Scale>>
Over  == <<SET("r0", 0), SET("r1", 2), JL("r0", "r1", 5, Int32), INC("r0", 1, Int32), Jmp(6),
           Mul, WRITE("v0", 0, NoReg, Int32)>>

\* Every condition, taken and not, on numbers that every immediate makes.
If(op, target) == Ins(op, "r0", "r1", NoReg, target, 0, Int32)
Imm(op, n)     == Ins(op, "r0", NoReg, "r0", 0, n, Int32)
Down  == <<SET("r0", 3), SET("r1", 1), Imm("IMM_SUB", 1), If("JNE", 2), Imm("IMM_MUL", 2),
           If("JLE", 0), If("JG", 8), Scale, Imm("IMM_DIV", 2), If("JG", 0), If("JLE", 12),
           Scale, If("JGE", 14), Scale, Mul>>

\* A vector spilled to the scratchpad, changed under another name and taken back.
Spill == <<SET("r0", 0), SET("r1", 2), Put, Mul, Put, Get, Scale, INC("r0", 1, Int32),
           JL("r0", "r1", 2, Int32)>>

\* A loop that is never left: clones of one instruction close together.
Spin == <<SET("r0", 0), INC("r0", 1, Int32), I("MOV", "r0", NoReg, "r1"), Jmp(2)>>

\* Two commands at any time: the second kernel lies behind the first, and is
\* loaded while the first runs or after it ended.
Loops == {Plain(p) : p \in {VecVec, Red, Tight, Over, Down, Spin, Spill,
                             StreamedVecVec, StreamedRed, StreamedRedGdl,
                             <<SET("r0", 0), READ(0, "r0", "v0", Int32), AddGdl>>}}
Scalar == {Plain(VecScalar)}
=============================================================================
