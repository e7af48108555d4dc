------------------------------- MODULE Kernels -------------------------------
(* The kernel generators of lib/cores/components/functional.py: the        *)
(* program a command is expanded to.  core has the scalar registers reg,   *)
(* the vector registers vec and the number of columns nCol of the bank; a  *)
(* command has a type, the ranges r1, r2 and dst in chunks of the core's   *)
(* bank, a scalar and a dtype.                                             *)
EXTENDS Instructions, FiniteSetsExt

Seqs == INSTANCE SequencesExt

Int32 == "int32"        \* Instruction's default for dtype

\* Core.timings: memory operations are timed by the bank, those of the
\* scratchpad by its access time.
Timing(op) == CASE op \in {"VEC_MUL", "VEC_DIV"} -> 2
                [] op \in MemOps \cup ScratchOps -> 0
                [] OTHER -> 1

Ins(op, in1, in2, dst, addr, imm, dtype) ==
  [op |-> op, in1 |-> in1, in2 |-> in2, dst |-> dst, addr |-> addr,
   imm |-> imm, time |-> Timing(op), dtype |-> dtype]
Untimed(i) == [i EXCEPT !.time = 0]  \* completion_time is left at its default

READ(addr, offset, dst, dtype)   == Ins("READ", offset, NoReg, dst, addr, 0, dtype)
WRITE(from, addr, offset, dtype) == Ins("WRITE", from, offset, NoReg, addr, 0, dtype)
SET(r, imm)                      == Ins("MOV", NoReg, NoReg, r, 0, imm, Int32)
INC(r, imm, dtype)               == Ins("IMM_ADD", r, NoReg, r, 0, imm, dtype)
ARITH(op, in1, in2, dst, dtype)  == Ins(op, in1, in2, dst, 0, 0, dtype)
JL(r, s, target, dtype)          == Ins("JL", r, s, NoReg, target, 0, dtype)
NOP                              == Untimed(Ins("NOP", NoReg, NoReg, NoReg, 0, 0, Int32))

\* What the pipeline sees of a program: the dtype is left out.
Plain(p) == [n \in DOMAIN p |->
  [op |-> p[n].op, in1 |-> p[n].in1, in2 |-> p[n].in2, dst |-> p[n].dst,
   addr |-> p[n].addr, imm |-> p[n].imm, time |-> p[n].time]]

Extent(r) == r[2] - r[1]   \* chunks in a range
Least(a, b) == IF a < b THEN a ELSE b

-----------------------------------------------------------------------------
(* Loops, for the cores with an instruction cache.                         *)

\* Mutant of SelWindow: the largest window, divisor or not.
SelWindowLargest(core, len) == Least(Least(Len(core.vec), len), core.nCol)

\* sel_window: the largest number of chunks that registers and columns allow
\* and that divides the length, as the loop has no check for a shorter rest.
SelWindow(core, len) ==
  LET fitting == {w \in 1..Least(Least(Len(core.vec), len), core.nCol) : len % w = 0}
  IN  IF fitting = {} THEN 1 ELSE Max(fitting)

\* Every window: chunk c is read to vector register c; what is done to it;
\* chunk c is written back.  The counter is scalar register 1.
Reads(core, cmd, n) ==
  [c \in 1..n |-> READ(cmd.r1[1] + c - 1, core.reg[1], core.vec[c], cmd.dtype)]
Writes(core, cmd, n) ==
  [c \in 1..n |-> WRITE(core.vec[c], cmd.dst[1] + c - 1, core.reg[1], cmd.dtype)]

\* Mutant of Iterate: the loop sets the counter again.
IterateAgain(core, cmd, w, loop) ==
  <<INC(core.reg[1], w, cmd.dtype), JL(core.reg[1], core.reg[2], loop - 2, cmd.dtype)>>

\* The counter advances by a window, and the loop goes on below the length.
Iterate(core, cmd, w, loop) ==
  <<INC(core.reg[1], w, cmd.dtype), JL(core.reg[1], core.reg[2], loop, cmd.dtype)>>

\* vec_vec_kernel: the second operand comes by the GDL; the operation names no
\* destination and no time.
VecVecKernel(core, cmd, op) ==
  LET len == Extent(cmd.r1)
      w == SelWindow(core, len)
      n == Least(w, len)
  IN  <<SET(core.reg[1], 0), SET(core.reg[2], len)>>
      \o Reads(core, cmd, n)
      \o [k \in 1..(2 * n) |->
            LET c == (k + 1) \div 2 IN
            IF k % 2 = 1
              THEN READ(cmd.r2[1] + c - 1, core.reg[1], NoReg, cmd.dtype)
              ELSE Untimed(ARITH(op, core.vec[c], Gdl, NoReg, cmd.dtype))]
      \o Writes(core, cmd, n)
      \o Iterate(core, cmd, w, 2)

\* vec_scalar_kernel: the scalar is in register 3.
VecScalarKernel(core, cmd, op) ==
  LET len == Extent(cmd.r1)
      w == SelWindow(core, len)
      n == Least(w, len)
  IN  <<SET(core.reg[3], cmd.scalar), SET(core.reg[1], 0), SET(core.reg[2], len)>>
      \o Reads(core, cmd, n)
      \o [c \in 1..n |-> ARITH(op, core.vec[c], core.reg[3], NoReg, cmd.dtype)]
      \o Writes(core, cmd, n)
      \o Iterate(core, cmd, w, 3)

\* One step of red_kernel: the next chunk into a register, folded into the
\* accumulator, vector register 1.
FoldNext(core, cmd, op, r) ==
  <<READ(cmd.r1[1], core.reg[2], r, cmd.dtype),
    ARITH(op, core.vec[1], r, core.vec[1], cmd.dtype)>>

\* Mutant of RedKernel: the rest of an even number of chunks is left out.
RedKernelOdd(core, cmd, op, final) ==
  LET len == Extent(cmd.r1) IN
  <<READ(cmd.r1[1], NoReg, core.vec[1], Int32), SET(core.reg[2], 1),
    SET(core.reg[3], ((len - 1) \div 2) * 2)>>
  \o FoldNext(core, cmd, op, core.vec[2]) \o <<INC(core.reg[2], 1, cmd.dtype)>>
  \o FoldNext(core, cmd, op, core.vec[3]) \o <<INC(core.reg[2], 1, Int32)>>
  \o <<JL(core.reg[2], core.reg[3], 3, Int32),
       ARITH(final, core.reg[1], core.vec[1], core.reg[1], Int32)>>

\* red_kernel: unrolled by two, so the number of chunks after the first is
\* rounded down and an even number of chunks leaves one for after the loop;
\* the result goes to scalar register 1.
RedKernel(core, cmd, op, final) ==
  LET len == Extent(cmd.r1) IN
  <<READ(cmd.r1[1], NoReg, core.vec[1], Int32), SET(core.reg[2], 1),
    SET(core.reg[3], ((len - 1) \div 2) * 2)>>
  \o FoldNext(core, cmd, op, core.vec[2]) \o <<INC(core.reg[2], 1, cmd.dtype)>>
  \o FoldNext(core, cmd, op, core.vec[3]) \o <<INC(core.reg[2], 1, Int32)>>
  \o <<JL(core.reg[2], core.reg[3], 3, Int32)>>
  \o (IF len % 2 = 0 THEN FoldNext(core, cmd, op, core.vec[3]) ELSE <<>>)
  \o <<ARITH(final, core.reg[1], core.vec[1], core.reg[1], Int32)>>

-----------------------------------------------------------------------------
(* Straight lines, for the cores that instructions are streamed to.        *)
(* data, check_bounds: the addresses of the bank that hold data, not       *)
(* padding.                                                                *)

\* The generators' outer loop: windows of as many chunks as there are vector
\* registers, the last one shorter.  The c-th chunk of a window is chunk
\* first + c - 1 of the ranges.
Windows(core, len) ==
  LET w == Least(Len(core.vec), core.nCol) IN
  [n \in 1..((len + w - 1) \div w) |-> [first |-> (n - 1) * w,
                                        size |-> Least(w, len - (n - 1) * w)]]

\* Padding is read and written for the timing only; NOPs take the place of the
\* operation.
Masked(op, isData, ins) ==
  IF isData THEN <<ins>> ELSE [k \in 1..Timing(op) |-> NOP]
MaskedReg(isData, r) == IF isData THEN r ELSE NoReg
StreamedReads(core, cmd, data, window) ==
  [c \in 1..window.size |->
     LET a == cmd.r1[1] + window.first + c - 1 IN
     READ(a, NoReg, MaskedReg(a \in data, core.vec[c]), cmd.dtype)]
StreamedWrites(core, cmd, data, window) ==
  [c \in 1..window.size |->
     LET a == cmd.dst[1] + window.first + c - 1 IN
     WRITE(MaskedReg(a \in data, core.vec[c]), a, NoReg, cmd.dtype)]

StreamedVecVecKernel(core, cmd, op, data) ==
  LET Operate(window, c) ==
        LET a == cmd.r2[1] + window.first + c - 1 IN
        <<READ(a, NoReg, NoReg, cmd.dtype)>>
        \o Masked(op, a \in data, Untimed(ARITH(op, core.vec[c], Gdl, NoReg, cmd.dtype)))
      windows == Windows(core, Extent(cmd.r1))
  IN  Seqs!FlattenSeq([n \in DOMAIN windows |->
        StreamedReads(core, cmd, data, windows[n])
        \o Seqs!FlattenSeq([c \in 1..windows[n].size |-> Operate(windows[n], c)])
        \o StreamedWrites(core, cmd, data, windows[n])])

StreamedVecScalarKernel(core, cmd, op, data) ==
  LET Operate(window, c) ==
        Masked(op, cmd.r1[1] + window.first + c - 1 \in data,
               Untimed(ARITH(op, core.vec[c], core.reg[1], NoReg, cmd.dtype)))
      windows == Windows(core, Extent(cmd.r1))
  IN  <<SET(core.reg[1], cmd.scalar)>>
      \o Seqs!FlattenSeq([n \in DOMAIN windows |->
           StreamedReads(core, cmd, data, windows[n])
           \o Seqs!FlattenSeq([c \in 1..windows[n].size |-> Operate(windows[n], c)])
           \o StreamedWrites(core, cmd, data, windows[n])])

\* streamed_red_kernel: with three vector registers the chunks alternate
\* between two of them, with fewer they come by the GDL.
StreamedRedKernel(core, cmd, op, final) ==
  LET a0 == cmd.r1[1]
      Step(a) ==
        IF Len(core.vec) >= 3
          THEN LET r == core.vec[2 + (a % 2)] IN
               <<READ(a, NoReg, r, cmd.dtype), ARITH(op, core.vec[1], r, NoReg, cmd.dtype)>>
          ELSE <<READ(a, NoReg, NoReg, Int32), ARITH(op, core.vec[1], Gdl, NoReg, Int32)>>
  IN  <<READ(a0, NoReg, core.vec[1], Int32)>>
      \o Seqs!FlattenSeq([k \in 1..(Extent(cmd.r1) - 1) |-> Step(a0 + k)])
      \o <<ARITH(final, core.reg[1], core.vec[1], NoReg, cmd.dtype)>>
=============================================================================
