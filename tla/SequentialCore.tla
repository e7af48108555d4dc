--------------------------- MODULE SequentialCore ---------------------------
(* What a core promises to the kernels it runs: instructions take effect   *)
(* one at a time, in program order, each reading what its predecessors     *)
(* left.  No stages, no latencies, no clones.                              *)
(*                                                                         *)
(* Vector registers are references to buffers (a Box around a memoryview): *)
(* a READ gives its destination and the GDL one common buffer, and vector  *)
(* arithmetic works IN PLACE on the buffer of its first operand and then   *)
(* makes the destination share it.  alias is the partition of the vector   *)
(* registers into those that share a buffer; val is equal within a class.  *)
EXTENDS Instructions

CONSTANTS Programs, MaxLoads,
          ScratchSize  \* chunks the scratchpad holds

VARIABLES cache,      \* the instructions loaded so far, position = index - 1
          loads,      \* bound: programs loaded
          pc,         \* position of the next instruction
          sreg,       \* scalar registers
          val,        \* contents of each vector register and of the GDL
          alias,      \* which of them share a buffer
          mem,        \* the core's bank
          scratch     \* its scratchpad

vars == <<cache, loads, pc, sreg, val, alias, mem, scratch>>

Scratch == 0..(ScratchSize - 1)

Init ==
  /\ cache = <<>> /\ loads = 0 /\ pc = 0
  /\ sreg = [r \in SReg |-> 0]
  /\ val \in [Vector -> Value]
  /\ alias = {{r} : r \in Vector}
  /\ mem \in [Addr -> Value]
  /\ scratch = [a \in Scratch |-> 0]

Load(p) ==
  /\ Len(cache) + Len(p) <= CacheSize
  /\ loads' = loads + 1
  /\ cache' = cache \o Relocated(p, Len(cache))
  /\ UNCHANGED <<pc, sreg, val, alias, mem, scratch>>

-----------------------------------------------------------------------------
Detached(D) == {c \ D : c \in alias} \ {{}}
Rebound(D)  == Detached(D) \cup {D}
ClassOf(r)  == CHOOSE c \in alias : r \in c
Joined(d, r) == IF d \in ClassOf(r) THEN alias
                ELSE {IF r \in c THEN c \cup {d} ELSE c : c \in Detached({d})}

Offset(i) == IF OffsetReg(i) = NoReg THEN 0 ELSE sreg[OffsetReg(i)]
At(i) == i.addr + Offset(i)
Latched(i) == {Gdl} \cup ({i.dst} \ {NoReg})
Operand(r) == IF r \in SReg THEN sreg[r] ELSE val[r]

Scalar(d, v) == /\ sreg' = [sreg EXCEPT ![d] = v]
                /\ UNCHANGED <<val, alias, mem>>

\* The buffer of source gets value v, and d becomes one more name for it.
Shared(d, source, v) ==
  /\ val' = [r \in Vector |-> IF r \in ClassOf(source) \cup {d} THEN v ELSE val[r]]
  /\ alias' = Joined(d, source)
  /\ UNCHANGED <<sreg, mem>>

\* The GDL (and dst) take a buffer of their own with value v.
Latch(i, v) ==
  /\ val' = [r \in Vector |-> IF r \in Latched(i) THEN v ELSE val[r]]
  /\ alias' = Rebound(Latched(i))
  /\ UNCHANGED sreg

Read(i)  == /\ i.op = "READ"
            /\ Latch(i, mem[At(i)]) /\ UNCHANGED mem
Write(i) == LET v == val[IF i.in1 = NoReg THEN Gdl ELSE i.in1] IN
            /\ i.op = "WRITE"
            /\ Latch(i, v) /\ mem' = [mem EXCEPT ![At(i)] = v]
Move(i)  == /\ i.op = "MOV"
            /\ CASE i.in1 = NoReg -> Scalar(i.dst, i.imm)
                 [] i.in1 \in SReg -> Scalar(i.dst, sreg[i.in1])
                 [] OTHER -> Shared(i.dst, i.in1, val[i.in1])
Modify(i) == /\ Immediate(i)
             /\ Scalar(Dest(i), Combine(i, sreg[i.in1], i.imm))
Arith(i) == /\ Vectorial(i)
            /\ Shared(Dest(i), i.in1, Combine(i, val[i.in1], Operand(i.in2)))
Reduce(i) == /\ Folding(i)
             /\ LET acc == IF Dest(i) = i.in1 THEN Neutral(i) ELSE sreg[i.in1]
                IN  Scalar(Dest(i), Combine(i, acc, val[i.in2]))
\* The scratchpad gives a buffer to the destination alone, the GDL has no part.
ScratchRead(i)  == /\ i.op = "SCRATCH_READ"
                   /\ val' = [val EXCEPT ![i.dst] = scratch[i.addr]]
                   /\ alias' = Rebound({i.dst})
                   /\ UNCHANGED <<sreg, mem, scratch>>
ScratchWrite(i) == /\ i.op = "SCRATCH_WRITE"
                   /\ scratch' = [scratch EXCEPT ![i.addr] = val[i.in1]]
                   /\ UNCHANGED <<sreg, val, alias, mem>>
Control(i) == i.op \in CondJumps \cup Ignored \cup {"JMP", "NOP"}
              /\ UNCHANGED <<sreg, val, alias, mem>>

Target(i) == IF i.op = "JMP" \/ (i.op \in CondJumps /\ Taken(i, sreg[i.in1], sreg[i.in2]))
               THEN i.addr ELSE Succ(pc)

Step ==
  /\ pc < Len(cache)
  /\ LET i == cache[pc + 1] IN
       /\ pc' = Target(i)
       /\ \/ /\ Read(i) \/ Write(i) \/ Move(i) \/ Modify(i) \/ Arith(i) \/ Reduce(i)
                \/ Control(i)
             /\ UNCHANGED scratch
          \/ ScratchRead(i)
          \/ ScratchWrite(i)
  /\ UNCHANGED <<cache, loads>>

Next == (loads < MaxLoads /\ \E p \in Programs : Load(p)) \/ Step

Spec == Init /\ [][Next]_vars
=============================================================================
