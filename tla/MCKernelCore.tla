---------------------------- MODULE MCKernelCore ----------------------------
EXTENDS KernelCore

\* Four objects side by side: a, b and c with len chunks, the last ones padding,
\* and a longer one, d.
Build(kind, nVec, nCol, len, used, dtype) ==
  LET lens == <<len, len, len, len + 1>>
      first == <<0, len, 2 * len, 3 * len>>
  IN  [kind |-> kind, reg |-> <<"r1", "r2", "r3">>,
       vec |-> SubSeq(<<"v1", "v2", "v3", "v4">>, 1, nVec), nCol |-> nCol, dtype |-> dtype,
       object |-> [o \in 1..4 |-> [first |-> first[o], len |-> lens[o],
                                   used |-> used + lens[o] - len]],
       data |-> [a \in 0..(4 * len) |-> (3 * a + 2 + a \div len) % Width]]

\* Registers above, at and below the number of chunks, with and without a
\* common divisor; columns fewer than registers; a bank with padding only.
MCSetups ==
  {Build("cached", 1, 8, 3, 3, Int32), Build("cached", 2, 8, 4, 3, "int8"),
   Build("cached", 3, 8, 5, 5, Int32), Build("cached", 4, 8, 6, 5, Int32),
   Build("cached", 4, 2, 6, 6, "int8"), Build("cached", 3, 8, 4, 2, Int32),
   Build("cached", 3, 2, 4, 4, Int32), Build("cached", 4, 8, 1, 0, Int32)}
  \cup
  {Build("stream", 1, 8, 3, 2, Int32), Build("stream", 3, 8, 5, 5, "int8"),
   Build("stream", 4, 2, 5, 3, Int32), Build("stream_scratch", 2, 8, 5, 4, "int8"),
   Build("stream_scratch", 4, 8, 6, 5, Int32), Build("stream_scratch", 3, 8, 1, 0, "int8")}

Cmd(type, op1, op2, dst) == [type |-> type, op1 |-> op1, op2 |-> op2, dst |-> dst, scalar |-> 3]

MCCommands ==
  {Cmd("PIM_ADD", 1, 2, 3), Cmd("PIM_SUB", 1, 2, 1), Cmd("PIM_MUL", 3, 3, 2),
   Cmd("PIM_RED_SUM", 3, 3, 3), Cmd("PIM_RED_MAX", 1, 1, 1), Cmd("PIM_RED_MIN", 2, 2, 2),
   Cmd("PIM_SCALAR_ADD", 1, 1, 3), Cmd("PIM_SCALAR_SUB", 2, 2, 2),
   Cmd("PIM_ADD", 1, 2, 4), Cmd("PIM_SCALAR_ADD", 4, 4, 3), Cmd("PIM_ABS", 1, 1, 2)}

\* The one reduction whose vector operation the cores do not carry out.
MCMinimum == {Cmd("PIM_RED_MIN", 1, 1, 1)}
=============================================================================
